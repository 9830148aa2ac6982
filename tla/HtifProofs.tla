----------------------------- MODULE HtifProofs -----------------------------
(***************************************************************************)
(* Proofs about module Htif, for every set of system calls and bytes, every*)
(* input and any number of operations: no assertion of __check_fromhost    *)
(* fails, every system call gets its own answer, every typed byte arrives  *)
(* once and in order, and the mailboxes implement HostCall.                *)
(***************************************************************************)
EXTENDS Htif, SequenceTheorems, TLAPS

\* The words: a system call and its reply, a read and the byte it brings, the
\* acknowledgement of a write.
SysCmd  == Word(0, 0, MAGIC)
Sys     == Word(0, 0, 1)
ReadCmd == Word(1, 0, 0)
Ack     == Word(1, 1, 0)
ByteWord(b) == Word(1, 0, 256 + b)
ByteWords == {ByteWord(b) : b \in 0..255}
Replies == {Sys, Ack} \cup ByteWords
Sent    == {Zero, SysCmd, ReadCmd} \cup {Word(1, 1, ch) : ch \in OutChars}

Numbers == Calls \cup {HTIFSYS_write}

\* A word of C is nowhere in the queue; it is there once, and is w.
NoneIn(q, C) == \A i \in 1..Len(q) : q[i] \notin C
OneIn(q, C, w) == \E i \in 1..Len(q) :
                    q[i] = w /\ \A j \in 1..Len(q) : j # i => q[j] \notin C

\* Nowhere on the way from the host; once on that way.
NoneOf(C)   == fromhost \notin C /\ NoneIn(hq, C)
OneOf(C, w) == \/ fromhost = w /\ NoneIn(hq, C)
               \/ fromhost \notin C /\ OneIn(hq, C, w)

Checking == pc \in {"chk_read", "chk_clear"}
Pending  == pc \in {"set", "put"} \/ (Checking /\ ret = "set")

TypeInv ==
  /\ tohost \in Sent \cup {EXIT} /\ fromhost \in Replies \cup {Zero}
  /\ hq \in Seq(Replies) /\ fh \in Replies \cup {Zero} /\ cur \in Sent
  /\ magic \in [kind : {"req", "ans"}, n : Nat] /\ call \in Nat
  /\ buf \in Int /\ reads \in Nat /\ fed \in 0..Len(Input)
  /\ pc \in {"idle", "set", "put", "wait", "wclear", "fs_ret", "gc",
             "chk_read", "chk_clear", "poweroff", "po", "po2"}
  /\ ret \in {"set", "gc", "wait"} /\ after \in {"idle", "poweroff", "po"}
  /\ exited \in BOOLEAN
  /\ issued \in Seq(AllCommands) /\ log \in Seq(AllCommands)

\* What the kernel knows at each of its accesses.
ControlInv ==
  /\ pc \in {"put", "fs_ret"} => tohost = Zero
  /\ pc = "wclear" => fromhost = Sys
  /\ pc = "chk_clear" => fh = fromhost
  /\ pc = "chk_clear" \/ (pc = "chk_read" /\ ret = "wait")
       => fromhost # Zero /\ fromhost # Sys
  /\ Pending => cur # Zero
  /\ pc \in {"po", "po2"} => tohost \in {Zero, EXIT}
  /\ tohost = EXIT => pc \in {"po", "po2"}

\* A system call: its word is in cur until it is in tohost; then its reply is
\* on the way, once, and magic_mem holds its answer.
SyscallInv ==
  /\ Pending /\ cur = SysCmd => magic = Req(call) /\ call \in Numbers
  /\ Waiting => /\ cur = SysCmd /\ call \in Numbers
                /\ tohost \in {Zero, SysCmd}
  /\ ~Waiting => NoneOf({Sys}) /\ tohost # SysCmd
  /\ Waiting /\ tohost = SysCmd => NoneOf({Sys}) /\ magic = Req(call)
  /\ Waiting /\ tohost = Zero =>
       exited \/ (OneOf({Sys}, Sys) /\ magic = Ans(call))
  /\ pc = "fs_ret" => magic = Ans(call)

\* The one read that is ever under way: not asked for, in cur, in tohost,
\* waiting for a byte at the host, or answered.
Unasked == /\ buf >= 0 /\ ~(Pending /\ cur = ReadCmd) /\ tohost # ReadCmd
           /\ reads = 0 /\ NoneOf(ByteWords)
InCur == /\ buf = -1 /\ Pending /\ cur = ReadCmd /\ tohost # ReadCmd
         /\ reads = 0 /\ NoneOf(ByteWords)
InTohost == /\ buf = -1 /\ ~(Pending /\ cur = ReadCmd) /\ tohost = ReadCmd
            /\ reads = 0 /\ NoneOf(ByteWords)
AtHost == /\ buf = -1 /\ ~(Pending /\ cur = ReadCmd) /\ tohost # ReadCmd
          /\ reads = 1 /\ NoneOf(ByteWords)
Answered(b) == /\ buf = -1 /\ ~(Pending /\ cur = ReadCmd) /\ tohost # ReadCmd
               /\ reads = 0 /\ OneOf(ByteWords, ByteWord(b))

ReadInv ==
  pc \notin {"po", "po2"} =>
    \/ /\ (Unasked /\ buf = 0) \/ InCur \/ InTohost \/ AtHost
       /\ got = SubSeq(Input, 1, fed)
    \/ /\ fed > 0 /\ got = SubSeq(Input, 1, fed - 1)
       /\ (Unasked /\ buf = 1 + Input[fed]) \/ Answered(Input[fed])

\* The commands issued are those executed, and the one in tohost.
LogInv == issued = IF tohost = Zero THEN log ELSE Append(log, Command(tohost))

HInv == TypeInv /\ ControlInv /\ SyscallInv /\ ReadInv /\ LogInv

---------------------------------------------------------------------------
(* Lemmas about the words and the queue.                                   *)

\* The fields of the words.
LEMMA WordFields ==
  ASSUME NEW d, NEW c, NEW x
  PROVE  Word(d, c, x).dev = d /\ Word(d, c, x).cmd = c /\ Word(d, c, x).data = x
  BY DEF Word

\* What the host and the kernel tell the commands apart by.
LEMMA SentWords ==
  /\ Zero # SysCmd /\ Zero # ReadCmd /\ Zero # EXIT /\ SysCmd # EXIT
  /\ SysCmd # ReadCmd /\ ReadCmd # EXIT /\ EXIT \notin Sent
  /\ Zero \in Sent /\ SysCmd \in Sent /\ ReadCmd \in Sent
  /\ SysCmd.dev = 0 /\ SysCmd.cmd = 0 /\ SysCmd.data = MAGIC /\ ReadCmd.dev = 1
  /\ EXIT.dev = 0 /\ EXIT.data = 1
  /\ \A w \in Sent \cup {EXIT} :
       /\ w.dev = 0 /\ w.data % 2 = 0 /\ w # Zero => w = SysCmd
       /\ w.dev = 0 /\ w.data % 2 = 1 => w = EXIT
       /\ w.dev = 0 /\ w # EXIT /\ w # Zero => w = SysCmd
       /\ w.dev = 0 /\ w.data = MAGIC <=> w = SysCmd
       /\ w.dev = 1 /\ w.cmd = 0 => w = ReadCmd
       /\ w.dev = 1 /\ w.cmd = 1 => w # ReadCmd /\ w # SysCmd
       /\ w.dev # 0 => w.dev = 1 /\ w # SysCmd /\ w # EXIT /\ w # Zero
  /\ \A ch \in OutChars : /\ Word(1, 1, ch) \in Sent /\ Word(1, 1, ch).dev = 1
                          /\ Word(1, 1, ch) \notin {Zero, SysCmd, ReadCmd, EXIT}
<1>1. MAGIC % 2 = 0 /\ MAGIC # 0 /\ MAGIC # 1 /\ 0 % 2 = 0 /\ 1 % 2 = 1
  BY DEF MAGIC
<1>2. \A w \in Sent \cup {EXIT} :
        \/ w \in {Zero, SysCmd, ReadCmd, EXIT}
        \/ \E ch \in OutChars : w = Word(1, 1, ch)
  BY DEF Sent
<1>3. /\ Zero.dev = 0 /\ Zero.cmd = 0 /\ Zero.data = 0
      /\ SysCmd.dev = 0 /\ SysCmd.cmd = 0 /\ SysCmd.data = MAGIC
      /\ ReadCmd.dev = 1 /\ ReadCmd.cmd = 0
      /\ EXIT.dev = 0 /\ EXIT.data = 1
      /\ \A ch : Word(1, 1, ch).dev = 1 /\ Word(1, 1, ch).cmd = 1
  BY WordFields DEF Zero, SysCmd, ReadCmd, EXIT
<1>4. \A ch \in OutChars : Word(1, 1, ch) \in Sent
  BY DEF Sent
<1>5. Zero \in Sent /\ SysCmd \in Sent /\ ReadCmd \in Sent
  BY DEF Sent
<1>6. EXIT \notin Sent
  BY <1>1, <1>3 DEF Sent
<1> QED BY <1>1, <1>2, <1>3, <1>4, <1>5, <1>6

\* What the kernel tells the replies apart by.
LEMMA ReplyWords ==
  /\ Sys \in Replies /\ Ack \in Replies /\ Sys \notin ByteWords /\ Ack \notin ByteWords
  /\ Sys # Ack /\ Zero \notin ByteWords /\ Zero # Sys /\ Zero \notin Replies
  /\ Sys.dev = 0 /\ Sys.cmd = 0
  /\ \A w \in Replies : /\ w.dev = 0 => w = Sys
                        /\ w # Sys => w.dev = 1 /\ w.cmd \in {0, 1}
                        /\ w # Sys /\ w.cmd = 0 => w \in ByteWords
                        /\ w \in ByteWords => w.dev = 1 /\ w.cmd = 0
  /\ \A b \in 0..255 : /\ ByteWord(b) \in ByteWords /\ ByteWord(b) \in Replies
                       /\ Byte(ByteWord(b)) = b
  /\ \A w \in Replies \cup {Zero} : Carries(w) <=> w \in ByteWords
<1>1. /\ Sys.dev = 0 /\ Sys.cmd = 0 /\ Sys.data = 1 /\ Ack.dev = 1 /\ Ack.cmd = 1
      /\ Zero.dev = 0 /\ Zero.data = 0
      /\ \A b : /\ ByteWord(b).dev = 1 /\ ByteWord(b).cmd = 0
               /\ ByteWord(b).data = 256 + b
  BY WordFields DEF Sys, Ack, Zero, ByteWord
<1>2. \A w \in ByteWords : w.dev = 1 /\ w.cmd = 0
  BY <1>1 DEF ByteWords
<1>3. Sys \notin ByteWords /\ Ack \notin ByteWords /\ Zero \notin ByteWords
      /\ Sys # Ack /\ Zero # Sys /\ Zero # Ack
  BY <1>1, <1>2
<1>4. \A w \in Replies : w = Sys \/ w = Ack \/ w \in ByteWords
  BY DEF Replies
<1>5. \A b \in 0..255 : ByteWord(b) \in ByteWords /\ ByteWord(b) \in Replies
  BY DEF ByteWords, Replies
<1>6. \A b \in 0..255 : Byte(ByteWord(b)) = b
  BY <1>1 DEF Byte
<1>7. \A w \in Replies \cup {Zero} : Carries(w) <=> w \in ByteWords
  BY <1>1, <1>2, <1>4 DEF Carries
<1>8. Sys \in Replies /\ Ack \in Replies /\ Zero \notin Replies
  BY <1>3 DEF Replies
<1> QED BY <1>1, <1>2, <1>3, <1>4, <1>5, <1>6, <1>7, <1>8

\* A word is put at the end of the queue.
LEMMA QueueAppend ==
  ASSUME NEW q \in Seq(Replies), NEW w \in Replies, NEW C
  PROVE  /\ Append(q, w) \in Seq(Replies)
         /\ w \notin C => /\ NoneIn(q, C) => NoneIn(Append(q, w), C)
                          /\ \A v : OneIn(q, C, v) => OneIn(Append(q, w), C, v)
         /\ w \in C /\ NoneIn(q, C) => OneIn(Append(q, w), C, w)
<1>1. /\ Append(q, w) \in Seq(Replies) /\ Len(Append(q, w)) = Len(q) + 1
      /\ Len(q) \in Nat
      /\ \A i \in 1..Len(q) : Append(q, w)[i] = q[i]
      /\ Append(q, w)[Len(q) + 1] = w
  BY AppendProperties, LenProperties
<1>2. \A i \in 1..Len(Append(q, w)) : i \in 1..Len(q) \/ i = Len(q) + 1
  BY <1>1
<1>3. \A i \in 1..Len(q) : i \in 1..Len(Append(q, w)) /\ i # Len(q) + 1
  BY <1>1
<1>4. Len(q) + 1 \in 1..Len(Append(q, w))
  BY <1>1
<1>5. ASSUME w \notin C, NoneIn(q, C) PROVE NoneIn(Append(q, w), C)
  BY <1>1, <1>2, <1>5 DEF NoneIn
<1>6. ASSUME w \notin C, NEW v, OneIn(q, C, v) PROVE OneIn(Append(q, w), C, v)
  <2>1. PICK i \in 1..Len(q) :
          q[i] = v /\ \A j \in 1..Len(q) : j # i => q[j] \notin C
    BY <1>6 DEF OneIn
  <2>2. \A j \in 1..Len(Append(q, w)) : j # i => Append(q, w)[j] \notin C
    BY <1>1, <1>2, <1>6, <2>1
  <2> QED BY <1>1, <1>3, <2>1, <2>2 DEF OneIn
<1>7. ASSUME w \in C, NoneIn(q, C) PROVE OneIn(Append(q, w), C, w)
  <2>1. \A j \in 1..Len(Append(q, w)) : j # Len(q) + 1 => Append(q, w)[j] \notin C
    BY <1>1, <1>2, <1>7 DEF NoneIn
  <2> QED BY <1>1, <1>4, <2>1 DEF OneIn
<1> QED BY <1>1, <1>5, <1>6, <1>7

\* The head of the queue is taken.
LEMMA QueueTail ==
  ASSUME NEW q \in Seq(Replies), q # <<>>, NEW C, NEW w \in C
  PROVE  /\ Head(q) \in Replies /\ Tail(q) \in Seq(Replies)
         /\ NoneIn(q, C) => Head(q) \notin C /\ NoneIn(Tail(q), C)
         /\ OneIn(q, C, w) => \/ Head(q) = w /\ NoneIn(Tail(q), C)
                              \/ Head(q) \notin C /\ OneIn(Tail(q), C, w)
<1>1. /\ Head(q) \in Replies /\ Tail(q) \in Seq(Replies)
      /\ Len(Tail(q)) = Len(q) - 1 /\ Len(q) \in Nat
      /\ \A i \in 1..Len(Tail(q)) : Tail(q)[i] = q[i + 1]
  BY HeadTailProperties, LenProperties
<1>2. Head(q) = q[1] /\ Len(q) > 0
  BY EmptySeq
<1>3. ASSUME NoneIn(q, C) PROVE Head(q) \notin C /\ NoneIn(Tail(q), C)
  BY <1>1, <1>2, <1>3 DEF NoneIn
<1>4. ASSUME OneIn(q, C, w)
      PROVE  \/ Head(q) = w /\ NoneIn(Tail(q), C)
             \/ Head(q) \notin C /\ OneIn(Tail(q), C, w)
  <2>1. PICK i \in 1..Len(q) :
          q[i] = w /\ \A j \in 1..Len(q) : j # i => q[j] \notin C
    BY <1>4 DEF OneIn
  <2>2. CASE i = 1
    BY <1>1, <1>2, <2>1, <2>2 DEF NoneIn
  <2>3. CASE i # 1
    <3>1. i - 1 \in 1..Len(Tail(q)) /\ Tail(q)[i - 1] = w
      BY <1>1, <2>1, <2>3
    <3>2. \A j \in 1..Len(Tail(q)) : j # i - 1 => Tail(q)[j] \notin C
      BY <1>1, <2>1, <2>3
    <3>3. Head(q) \notin C
      BY <1>2, <2>1, <2>3
    <3> QED BY <3>1, <3>2, <3>3 DEF OneIn
  <2> QED BY <2>2, <2>3
<1> QED BY <1>1, <1>3, <1>4

\* The parts of magic_mem.
LEMMA MagicFields ==
  ASSUME NEW n \in Nat
  PROVE  /\ Req(n).n = n /\ Req(n) \in [kind : {"req", "ans"}, n : Nat]
         /\ Ans(n).n = n /\ Ans(n) \in [kind : {"req", "ans"}, n : Nat]
  BY DEF Req, Ans

\* The bytes typed so far.
LEMMA InputBytes ==
  /\ Len(Input) \in Nat
  /\ \A n \in 1..Len(Input) : Input[n] \in 0..255 /\ Input[n] \in Nat
<1>1. Input \in Seq(0..255) /\ Len(Input) \in Nat
  BY HtifAssumption, LenProperties
<1>2. \A n \in 1..Len(Input) : Input[n] \in 0..255
  BY <1>1, ElementOfSeq
<1>3. \A b \in 0..255 : b \in Nat
  OBVIOUS
<1> QED BY <1>1, <1>2, <1>3

LEMMA InputNext ==
  ASSUME NEW n \in 1..Len(Input)
  PROVE  Append(SubSeq(Input, 1, n - 1), Input[n]) = SubSeq(Input, 1, n)
<1>1. Input \in Seq(0..255) /\ Len(Input) \in Nat
  BY HtifAssumption, LenProperties
<1>2. SubSeq(Input, 1, n) = SubSeq(Input, 1, n - 1) \o <<Input[n]>>
  BY <1>1, SubSeqRecursiveSecond
<1>3. SubSeq(Input, 1, n - 1) \in Seq(0..255)
  BY <1>1, InputBytes, SubSeqProperties
<1> QED BY <1>2, <1>3, InputBytes, AppendIsConcat

\* The byte that is under way.
LEMMA FedByte ==
  ASSUME HInv, fed > 0
  PROVE  /\ fed \in 1..Len(Input) /\ Input[fed] \in Nat
         /\ ByteWord(Input[fed]) \in ByteWords
         /\ Byte(ByteWord(Input[fed])) = Input[fed]
<1>1. fed \in 1..Len(Input) /\ Input[fed] \in 0..255 /\ Input[fed] \in Nat
  <2>1. Len(Input) \in Nat /\ fed \in 0..Len(Input)
    BY InputBytes DEF HInv, TypeInv
  <2>2. fed \in 1..Len(Input)
    BY <2>1
  <2> QED BY <2>2, InputBytes
<1> QED BY <1>1, ReplyWords

---------------------------------------------------------------------------
(* The invariant, action by action.                                        *)

USE DEF mail, host, frame, seen, kernel

\* frontend_syscall is called when no call waits: magic_mem is free.
LEMMA FrontendSyscallStep ==
  ASSUME HInv, ~exited,
         NEW at \in {"idle", "poweroff"}, NEW n \in Numbers,
         NEW then \in {"idle", "poweroff", "po"}, FrontendSyscall(at, n, then)
  PROVE  HInv'
<1>1. /\ pc \in {"idle", "poweroff"} /\ pc' = "set" /\ magic' = Req(n) /\ call' = n
      /\ cur' = SysCmd /\ after' = then
      /\ UNCHANGED <<mail, seen, host, ret, fh>>
  BY DEF FrontendSyscall, Begin, SysCmd
<1>2. TypeInv'
  <2>1. n \in Nat /\ SysCmd \in Sent
    BY HtifAssumption DEF Numbers, HTIFSYS_write, Sent
  <2>2. magic' \in [kind : {"req", "ans"}, n : Nat]
    BY <1>1, <2>1, MagicFields
  <2> QED BY <1>1, <2>1, <2>2 DEF HInv, TypeInv
<1>3. ControlInv'
  BY <1>1, SentWords, ReplyWords
  DEF HInv, TypeInv, ControlInv, SyscallInv, Pending, Checking, Waiting,
      NoneOf, OneOf
<1>4. SyscallInv'
  BY <1>1, SentWords, ReplyWords
  DEF HInv, TypeInv, ControlInv, SyscallInv, Pending, Checking, Waiting,
      NoneOf, OneOf, Numbers
<1>5. ReadInv'
  BY <1>1, SentWords, ReplyWords
  DEF HInv, TypeInv, ControlInv, ReadInv, Unasked, InCur, InTohost, AtHost,
      Answered, NoneOf, OneOf, Pending, Checking
<1>6. LogInv'
  BY <1>1, SentWords
  DEF HInv, TypeInv, ControlInv, SyscallInv, Waiting, LogInv, Command
<1> QED BY <1>2, <1>3, <1>4, <1>5, <1>6 DEF HInv

\* htif_console_putchar begins.
LEMMA PutcharStep ==
  ASSUME HInv, ~exited, NEW ch \in OutChars, Putchar(ch)
  PROVE  HInv'
<1>1. /\ pc = "idle" /\ pc' = "set" /\ cur' = Word(1, 1, ch)
      /\ UNCHANGED <<mail, seen, host, magic, ret, after, call, fh>>
  BY DEF Putchar, Begin
<1>2. TypeInv'
  BY <1>1, SentWords, ReplyWords
  DEF HInv, TypeInv
<1>3. ControlInv'
  BY <1>1, SentWords, ReplyWords
  DEF HInv, TypeInv, ControlInv, SyscallInv, Pending, Checking, Waiting,
      NoneOf, OneOf
<1>4. SyscallInv'
  BY <1>1, SentWords, ReplyWords
  DEF HInv, TypeInv, ControlInv, SyscallInv, Pending, Checking, Waiting,
      NoneOf, OneOf, Numbers
<1>5. ReadInv'
  BY <1>1, SentWords, ReplyWords
  DEF HInv, TypeInv, ControlInv, ReadInv, Unasked, InCur, InTohost, AtHost,
      Answered, NoneOf, OneOf, Pending, Checking
<1>6. LogInv'
  BY <1>1, SentWords
  DEF HInv, TypeInv, ControlInv, SyscallInv, Waiting, LogInv, Command
<1> QED BY <1>2, <1>3, <1>4, <1>5, <1>6 DEF HInv

\* htif_console_getchar begins with a __check_fromhost.
LEMMA GetcharStep ==
  ASSUME HInv, ~exited, Getchar
  PROVE  HInv'
<1>1. /\ pc = "idle" /\ pc' = "chk_read" /\ ret' = "gc"
      /\ UNCHANGED <<mail, frame, seen, host, magic, fh>>
  BY DEF Getchar, Begin
<1>2. TypeInv'
  BY <1>1, SentWords, ReplyWords
  DEF HInv, TypeInv
<1>3. ControlInv'
  BY <1>1, SentWords, ReplyWords
  DEF HInv, TypeInv, ControlInv, SyscallInv, Pending, Checking, Waiting,
      NoneOf, OneOf
<1>4. SyscallInv'
  BY <1>1, SentWords, ReplyWords
  DEF HInv, TypeInv, ControlInv, SyscallInv, Pending, Checking, Waiting,
      NoneOf, OneOf, Numbers
<1>5. ReadInv'
  BY <1>1, SentWords, ReplyWords
  DEF HInv, TypeInv, ControlInv, ReadInv, Unasked, InCur, InTohost, AtHost,
      Answered, NoneOf, OneOf, Pending, Checking
<1>6. LogInv'
  BY <1>1, SentWords
  DEF HInv, TypeInv, ControlInv, SyscallInv, Waiting, LogInv, Command
<1> QED BY <1>2, <1>3, <1>4, <1>5, <1>6 DEF HInv

\* The received byte, if any, is the next one to return.
LEMMA GetBufStep ==
  ASSUME HInv, ~exited, GetBuf
  PROVE  HInv'
<1>1. /\ pc = "gc"
      /\ UNCHANGED <<mail, host, magic, ret, after, call, fh, issued>>
  BY DEF GetBuf
<1>2. \/ buf < 0 /\ pc' = "idle" /\ UNCHANGED <<got, buf, cur>>
      \/ /\ buf >= 0 /\ got' = IF buf > 0 THEN Append(got, buf - 1) ELSE got
         /\ buf' = -1 /\ cur' = ReadCmd /\ pc' = "set"
  BY DEF GetBuf, Emptied, ReadCmd, HInv, TypeInv
<1>3. TypeInv'
  <2>1. buf' \in Int /\ cur' \in Sent /\ pc' \in {"idle", "set"}
    BY <1>2, SentWords DEF HInv, TypeInv
  <2> QED BY <1>1, <2>1 DEF HInv, TypeInv
<1>4. ControlInv'
  BY <1>1, <1>2, SentWords
  DEF HInv, TypeInv, ControlInv, Pending, Checking
<1>5. SyscallInv'
  BY <1>1, <1>2, SentWords
  DEF HInv, TypeInv, SyscallInv, Pending, Checking, Waiting, NoneOf, OneOf
<1>6. ReadInv'
  <2>1. CASE buf < 0
    BY <1>1, <1>2, <2>1, SentWords
    DEF HInv, TypeInv, ReadInv, Unasked, InCur, InTohost, AtHost,
        Answered, NoneOf, OneOf, Pending, Checking
  <2>2. CASE buf >= 0
    <3>1. /\ got' = IF buf > 0 THEN Append(got, buf - 1) ELSE got
          /\ buf' = -1 /\ cur' = ReadCmd /\ pc' = "set" /\ buf \in Int
      BY <1>2, <2>2 DEF HInv, TypeInv
    <3>2. InCur'
      BY <1>1, <2>2, <3>1
      DEF HInv, TypeInv, ReadInv, Unasked, InCur, InTohost, AtHost, Answered,
          NoneOf, Pending
    <3>3. \/ buf = 0 /\ got = SubSeq(Input, 1, fed)
          \/ /\ fed > 0 /\ got = SubSeq(Input, 1, fed - 1)
             /\ buf = 1 + Input[fed]
      BY <1>1, <2>2
      DEF HInv, TypeInv, ReadInv, InCur, InTohost, AtHost, Answered
    <3>4. CASE buf = 0
      <4>1. got = SubSeq(Input, 1, fed)
        BY <3>3, <3>4, FedByte
      <4>2. got' = got
        BY <3>1, <3>4
      <4> QED BY <1>1, <3>1, <3>2, <4>1, <4>2 DEF ReadInv
    <3>5. CASE buf # 0
      <4>1. /\ fed > 0 /\ got = SubSeq(Input, 1, fed - 1)
            /\ buf = 1 + Input[fed] /\ Input[fed] \in Nat /\ fed \in 1..Len(Input)
        BY <3>3, <3>5, FedByte
      <4>2. buf - 1 = Input[fed] /\ buf > 0
        BY <4>1
      <4>3. got' = Append(SubSeq(Input, 1, fed - 1), Input[fed])
        BY <3>1, <4>1, <4>2
      <4>4. got' = SubSeq(Input, 1, fed)
        BY <4>1, <4>3, InputNext
      <4> QED BY <1>1, <3>1, <3>2, <4>4 DEF ReadInv
    <3> QED BY <3>4, <3>5
  <2> QED BY <2>1, <2>2 DEF HInv, TypeInv
<1>7. LogInv'
  BY <1>1 DEF HInv, LogInv, Command
<1> QED BY <1>3, <1>4, <1>5, <1>6, <1>7 DEF HInv

\* tohost is free, or __check_fromhost is called.
LEMMA SetTohostStep ==
  ASSUME HInv, ~exited, SetTohost
  PROVE  HInv'
<1>1. /\ pc = "set"
      /\ \/ tohost = Zero /\ pc' = "put" /\ UNCHANGED ret
         \/ tohost # Zero /\ pc' = "chk_read" /\ ret' = "set"
      /\ UNCHANGED <<mail, frame, seen, host, magic, fh>>
  BY DEF SetTohost, Busy
<1>2. TypeInv'
  BY <1>1, SentWords, ReplyWords
  DEF HInv, TypeInv
<1>3. ControlInv'
  BY <1>1, SentWords, ReplyWords
  DEF HInv, TypeInv, ControlInv, SyscallInv, Pending, Checking, Waiting,
      NoneOf, OneOf
<1>4. SyscallInv'
  BY <1>1, SentWords, ReplyWords
  DEF HInv, TypeInv, ControlInv, SyscallInv, Pending, Checking, Waiting,
      NoneOf, OneOf, Numbers
<1>5. ReadInv'
  BY <1>1, SentWords, ReplyWords
  DEF HInv, TypeInv, ControlInv, ReadInv, Unasked, InCur, InTohost, AtHost,
      Answered, NoneOf, OneOf, Pending, Checking
<1>6. LogInv'
  BY <1>1, SentWords
  DEF HInv, TypeInv, ControlInv, SyscallInv, Waiting, LogInv, Command
<1> QED BY <1>2, <1>3, <1>4, <1>5, <1>6 DEF HInv

\* The command is written to a free tohost.
LEMMA PutTohostStep ==
  ASSUME HInv, ~exited, PutTohost
  PROVE  HInv'
<1>1. /\ pc = "put" /\ tohost' = cur /\ issued' = Append(issued, Command(cur))
      /\ pc' = IF cur.dev = 0 THEN "wait" ELSE "idle"
      /\ UNCHANGED <<frame, host, fromhost, magic, ret, fh, buf, got>>
  BY DEF PutTohost, AfterPut
<1>2. /\ tohost = Zero /\ issued = log /\ cur \in Sent /\ cur # Zero /\ Pending
      /\ ~Waiting /\ NoneOf({Sys})
      /\ cur = SysCmd => magic = Req(call) /\ call \in Numbers
  BY <1>1
  DEF HInv, TypeInv, ControlInv, SyscallInv, LogInv, Pending, Waiting
<1>3. cur.dev = 0 <=> cur = SysCmd
  BY <1>2, SentWords
<1>4. Command(cur) \in AllCommands
  <2>1. CASE cur = SysCmd
    <3>1. Command(cur) = Word(0, 0, call)
      BY <1>2, <2>1, SentWords, MagicFields DEF Command, HInv, TypeInv
    <3> QED BY <1>2, <2>1, <3>1 DEF AllCommands, SysCommands, Numbers
  <2>2. CASE cur # SysCmd
    <3>1. Command(cur) = cur
      BY <1>2, <2>2, SentWords DEF Command
    <3> QED BY <1>2, <2>2, <3>1 DEF AllCommands, Sent, ReadCmd
  <2> QED BY <2>1, <2>2
<1>5. TypeInv'
  <2>1. issued' \in Seq(AllCommands)
    BY <1>1, <1>4, AppendProperties DEF HInv, TypeInv
  <2> QED BY <1>1, <1>2, <2>1 DEF HInv, TypeInv
<1>6. ControlInv'
  BY <1>1, <1>2, <1>3, SentWords
  DEF HInv, TypeInv, ControlInv, Pending, Checking
<1>7. SyscallInv'
  BY <1>1, <1>2, <1>3, SentWords
  DEF SyscallInv, Pending, Checking, Waiting, NoneOf
<1>8. ReadInv'
  BY <1>1, <1>2, <1>3, SentWords
  DEF HInv, TypeInv, ReadInv, Unasked, InCur, InTohost, AtHost,
      Answered, NoneOf, OneOf, Pending, Checking
<1>9. LogInv'
  BY <1>1, <1>2 DEF LogInv, Command
<1> QED BY <1>5, <1>6, <1>7, <1>8, <1>9 DEF HInv

\* do_tohost_fromhost looks at fromhost.
LEMMA WaitStep ==
  ASSUME HInv, ~exited, Wait
  PROVE  HInv'
<1>1. /\ pc = "wait"
      /\ \/ UNCHANGED <<pc, ret>>
         \/ fromhost # Zero /\ Ours /\ pc' = "wclear" /\ UNCHANGED ret
         \/ fromhost # Zero /\ ~Ours /\ pc' = "chk_read" /\ ret' = "wait"
      /\ UNCHANGED <<mail, frame, seen, host, magic, fh>>
  BY DEF Wait, Drain
<1>2. TypeInv'
  BY <1>1, SentWords, ReplyWords
  DEF HInv, TypeInv
<1>3. ControlInv'
  <2>1. cur = SysCmd /\ fromhost \in Replies \cup {Zero}
    BY <1>1 DEF HInv, TypeInv, SyscallInv, Waiting
  <2>2. fromhost # Zero => (Ours <=> fromhost = Sys)
    BY <2>1, SentWords, ReplyWords DEF Ours
  <2> QED BY <1>1, <2>2 DEF HInv, ControlInv, Pending, Checking
<1>4. SyscallInv'
  BY <1>1, SentWords, ReplyWords
  DEF HInv, TypeInv, ControlInv, SyscallInv, Pending, Checking, Waiting,
      NoneOf, OneOf, Numbers
<1>5. ReadInv'
  BY <1>1, SentWords, ReplyWords
  DEF HInv, TypeInv, ControlInv, ReadInv, Unasked, InCur, InTohost, AtHost,
      Answered, NoneOf, OneOf, Pending, Checking
<1>6. LogInv'
  BY <1>1, SentWords
  DEF HInv, TypeInv, ControlInv, SyscallInv, Waiting, LogInv, Command
<1> QED BY <1>2, <1>3, <1>4, <1>5, <1>6 DEF HInv

\* The reply of the call is taken.
LEMMA WaitClearStep ==
  ASSUME HInv, ~exited, WaitClear
  PROVE  HInv'
<1>1. /\ pc = "wclear" /\ fromhost' = Zero /\ pc' = "fs_ret"
      /\ UNCHANGED <<frame, seen, host, tohost, magic, ret, fh>>
  BY DEF WaitClear
<1>2. TypeInv'
  BY <1>1, SentWords, ReplyWords
  DEF HInv, TypeInv
<1>3. ControlInv'
  BY <1>1, SentWords, ReplyWords
  DEF HInv, TypeInv, ControlInv, SyscallInv, Pending, Checking, Waiting,
      NoneOf, OneOf
<1>4. SyscallInv'
  BY <1>1, SentWords, ReplyWords
  DEF HInv, TypeInv, ControlInv, SyscallInv, Pending, Checking, Waiting,
      NoneOf, OneOf, Numbers
<1>5. fed > 0 => ByteWord(Input[fed]) \in ByteWords
  BY FedByte
<1>6. ReadInv'
  <2>1. /\ NoneOf(ByteWords) => NoneOf(ByteWords)'
        /\ fed > 0 /\ OneOf(ByteWords, ByteWord(Input[fed]))
             => OneOf(ByteWords, ByteWord(Input[fed]))'
    BY <1>1, <1>5, ReplyWords DEF HInv, ControlInv, NoneOf, OneOf
  <2> QED
    BY <1>1, <2>1
    DEF HInv, ReadInv, Unasked, InCur, InTohost, AtHost, Answered, Pending,
        Checking
<1>7. LogInv'
  BY <1>1, SentWords
  DEF HInv, TypeInv, ControlInv, SyscallInv, Waiting, LogInv, Command
<1> QED BY <1>2, <1>3, <1>4, <1>6, <1>7 DEF HInv

\* frontend_syscall returns, to its caller or to htif_poweroff.
LEMMA FsReturnStep ==
  ASSUME HInv, ~exited, FsReturn
  PROVE  HInv'
<1>1. /\ pc = "fs_ret" /\ pc' = after
      /\ UNCHANGED <<mail, frame, seen, host, magic, ret, fh>>
  BY DEF FsReturn
<1>2. TypeInv'
  BY <1>1, SentWords, ReplyWords
  DEF HInv, TypeInv
<1>3. ControlInv'
  BY <1>1, SentWords, ReplyWords
  DEF HInv, TypeInv, ControlInv, SyscallInv, Pending, Checking, Waiting,
      NoneOf, OneOf
<1>4. SyscallInv'
  BY <1>1, SentWords, ReplyWords
  DEF HInv, TypeInv, ControlInv, SyscallInv, Pending, Checking, Waiting,
      NoneOf, OneOf, Numbers
<1>5. ReadInv'
  BY <1>1, SentWords, ReplyWords
  DEF HInv, TypeInv, ControlInv, ReadInv, Unasked, InCur, InTohost, AtHost,
      Answered, NoneOf, OneOf, Pending, Checking
<1>6. LogInv'
  BY <1>1, SentWords
  DEF HInv, TypeInv, ControlInv, SyscallInv, Waiting, LogInv, Command
<1> QED BY <1>2, <1>3, <1>4, <1>5, <1>6 DEF HInv

\* __check_fromhost reads fromhost.
LEMMA CheckReadStep ==
  ASSUME HInv, ~exited, CheckRead
  PROVE  HInv'
<1>1. /\ pc = "chk_read" /\ fh' = fromhost
      /\ pc' = IF fromhost = Zero THEN ret ELSE "chk_clear"
      /\ UNCHANGED <<mail, frame, seen, host, magic, ret>>
  BY DEF CheckRead
<1>2. TypeInv'
  BY <1>1, SentWords, ReplyWords
  DEF HInv, TypeInv
<1>3. ControlInv'
  BY <1>1, SentWords, ReplyWords
  DEF HInv, TypeInv, ControlInv, SyscallInv, Pending, Checking, Waiting,
      NoneOf, OneOf
<1>4. SyscallInv'
  BY <1>1, SentWords, ReplyWords
  DEF HInv, TypeInv, ControlInv, SyscallInv, Pending, Checking, Waiting,
      NoneOf, OneOf, Numbers
<1>5. ReadInv'
  BY <1>1, SentWords, ReplyWords
  DEF HInv, TypeInv, ControlInv, ReadInv, Unasked, InCur, InTohost, AtHost,
      Answered, NoneOf, OneOf, Pending, Checking
<1>6. LogInv'
  BY <1>1, SentWords
  DEF HInv, TypeInv, ControlInv, SyscallInv, Waiting, LogInv, Command
<1> QED BY <1>2, <1>3, <1>4, <1>5, <1>6 DEF HInv

\* __check_fromhost clears fromhost and keeps a byte.
LEMMA CheckClearStep ==
  ASSUME HInv, ~exited, CheckClear
  PROVE  HInv'
<1>1. /\ pc = "chk_clear" /\ fromhost' = Zero
      /\ UNCHANGED <<frame, host, tohost, magic, ret, fh, issued, got>>
  BY DEF CheckClear
<1>2. /\ fromhost \in Replies /\ fromhost # Sys /\ fh = fromhost /\ pc' = ret
      /\ fromhost \in ByteWords => buf' = 1 + Byte(fromhost)
      /\ fromhost \notin ByteWords => buf' = buf
  BY <1>1, ReplyWords DEF CheckClear, HInv, TypeInv, ControlInv
<1>3. fed > 0 => /\ Input[fed] \in Nat /\ ByteWord(Input[fed]) \in ByteWords
                 /\ Byte(ByteWord(Input[fed])) = Input[fed]
  BY FedByte
<1>4. TypeInv'
  <2>1. \A w \in ByteWords : Byte(w) \in Nat
    <3> SUFFICES ASSUME NEW b \in 0..255 PROVE Byte(ByteWord(b)) \in Nat
      BY DEF ByteWords
    <3>1. Byte(ByteWord(b)) = b /\ b \in Nat
      BY ReplyWords
    <3> QED BY <3>1
  <2>2. buf' \in Int
    BY <1>2, <2>1 DEF HInv, TypeInv
  <2>3. pc' \in {"set", "gc", "wait"}
    BY <1>2 DEF HInv, TypeInv
  <2> QED BY <1>1, <2>2, <2>3 DEF HInv, TypeInv
<1>5. ControlInv'
  BY <1>1, <1>2
  DEF HInv, TypeInv, ControlInv, SyscallInv, Pending, Checking, Waiting
<1>6. SyscallInv'
  BY <1>1, <1>2, ReplyWords
  DEF HInv, TypeInv, SyscallInv, Pending, Checking, Waiting, NoneOf, OneOf
<1>7. ReadInv'
  <2>1. CASE fromhost \in ByteWords
    <3>1. Answered(Input[fed]) /\ fed > 0 /\ got = SubSeq(Input, 1, fed - 1)
      BY <1>1, <2>1
      DEF HInv, ReadInv, Unasked, InCur, InTohost, AtHost, NoneOf
    <3>2. fromhost = ByteWord(Input[fed]) /\ NoneIn(hq, ByteWords)
      BY <2>1, <3>1 DEF Answered, OneOf
    <3>3. buf' = 1 + Input[fed] /\ Input[fed] \in Nat
      BY <1>2, <1>3, <2>1, <3>1, <3>2
    <3>4. Unasked'
      <4>1. buf' >= 0
        BY <3>3
      <4>2. NoneOf(ByteWords)'
        BY <1>1, <3>2, ReplyWords DEF NoneOf
      <4>3. ~(Pending /\ cur = ReadCmd) /\ tohost # ReadCmd /\ reads = 0
        BY <3>1 DEF Answered
      <4>4. ~(Pending /\ cur = ReadCmd)' /\ tohost' # ReadCmd /\ reads' = 0
        BY <1>1, <1>2, <4>3 DEF HInv, TypeInv, Pending, Checking
      <4> QED BY <4>1, <4>2, <4>4 DEF Unasked
    <3> QED BY <1>1, <3>1, <3>3, <3>4 DEF ReadInv
  <2>2. CASE fromhost \notin ByteWords
    <3>1. /\ NoneOf(ByteWords) => NoneOf(ByteWords)'
          /\ fed > 0 /\ OneOf(ByteWords, ByteWord(Input[fed]))
               => OneOf(ByteWords, ByteWord(Input[fed]))'
      BY <1>1, <1>3, <2>2, ReplyWords DEF NoneOf, OneOf
    <3>2. Pending' <=> Pending
      BY <1>1, <1>2 DEF HInv, TypeInv, Pending, Checking
    <3> QED
      BY <1>1, <1>2, <2>2, <3>1, <3>2
      DEF HInv, ReadInv, Unasked, InCur, InTohost, AtHost, Answered
  <2> QED BY <2>1, <2>2
<1>8. LogInv'
  BY <1>1 DEF HInv, LogInv, Command
<1> QED BY <1>4, <1>5, <1>6, <1>7, <1>8 DEF HInv

\* The power-off writes both words.
LEMMA PowerLoopStep ==
  ASSUME HInv, ~exited, PowerLoop
  PROVE  HInv'
<1>1. /\ pc \in {"po", "po2"} /\ pc' \in {"po", "po2"}
      /\ \/ fromhost' = Zero /\ UNCHANGED <<tohost, issued>>
         \/ /\ tohost' = EXIT /\ UNCHANGED fromhost
            /\ issued' = IF tohost = EXIT THEN issued ELSE Append(issued, EXIT)
      /\ UNCHANGED <<frame, host, magic, ret, fh, buf, got>>
  BY DEF PowerLoop, PowerOff
<1>2. TypeInv'
  <2>1. EXIT \in AllCommands
    BY DEF AllCommands
  <2>2. issued' \in Seq(AllCommands)
    <3>1. issued \in Seq(AllCommands)
      BY DEF HInv, TypeInv
    <3>2. Append(issued, EXIT) \in Seq(AllCommands)
      BY <2>1, <3>1, AppendProperties
    <3> QED BY <1>1, <3>1, <3>2
  <2> QED BY <1>1, <2>2 DEF HInv, TypeInv
<1>3. ControlInv'
  BY <1>1, SentWords, ReplyWords
  DEF HInv, TypeInv, ControlInv, SyscallInv, Pending, Checking, Waiting,
      NoneOf, OneOf
<1>4. SyscallInv'
  BY <1>1, SentWords, ReplyWords
  DEF HInv, TypeInv, ControlInv, SyscallInv, Pending, Checking, Waiting,
      NoneOf, OneOf, Numbers
<1>5. ReadInv'
  BY <1>1, SentWords, ReplyWords
  DEF HInv, TypeInv, ControlInv, ReadInv, Unasked, InCur, InTohost, AtHost,
      Answered, NoneOf, OneOf, Pending, Checking
<1>6. LogInv'
  BY <1>1, SentWords
  DEF HInv, TypeInv, ControlInv, SyscallInv, Waiting, LogInv, Command
<1> QED BY <1>2, <1>3, <1>4, <1>5, <1>6 DEF HInv

\* The host takes a command.
LEMMA HostTakeStep ==
  ASSUME HInv, ~exited, HostTake
  PROVE  HInv'
<1>1. /\ tohost # Zero /\ tohost' = Zero /\ log' = Append(log, Command(tohost))
      /\ UNCHANGED <<kernel, fromhost, fed>>
  BY DEF HostTake
<1>2. hq \in Seq(Replies) /\ Sys \in Replies /\ Ack \in Replies /\ Ack \notin {Sys}
      /\ Sys \notin ByteWords /\ Ack \notin ByteWords /\ Sys \in {Sys}
  BY ReplyWords DEF HInv, TypeInv
<1>3. /\ Append(hq, Sys) \in Seq(Replies) /\ Append(hq, Ack) \in Seq(Replies)
      /\ NoneIn(hq, {Sys}) => OneIn(Append(hq, Sys), {Sys}, Sys)
      /\ NoneIn(hq, ByteWords) => NoneIn(Append(hq, Sys), ByteWords)
      /\ \A w : OneIn(hq, ByteWords, w) => OneIn(Append(hq, Sys), ByteWords, w)
  BY <1>2, QueueAppend
<1>4. /\ NoneIn(hq, {Sys}) => NoneIn(Append(hq, Ack), {Sys})
      /\ NoneIn(hq, ByteWords) => NoneIn(Append(hq, Ack), ByteWords)
      /\ \A w : OneIn(hq, ByteWords, w) => OneIn(Append(hq, Ack), ByteWords, w)
  BY <1>2, QueueAppend
<1>5. \/ /\ tohost = SysCmd /\ magic' = Ans(magic.n) /\ hq' = Append(hq, Sys)
          /\ UNCHANGED <<reads, exited>>
       \/ /\ tohost \in {SysCmd, EXIT} /\ exited' = TRUE
          /\ UNCHANGED <<magic, hq, reads>>
       \/ /\ tohost \notin {SysCmd, ReadCmd, EXIT} /\ hq' \in {hq, Append(hq, Ack)}
          /\ UNCHANGED <<magic, reads, exited>>
       \/ /\ tohost = ReadCmd /\ reads' = reads + 1
          /\ UNCHANGED <<magic, hq, exited>>
  <2>1. tohost \in Sent \cup {EXIT} /\ tohost # Zero
    BY <1>1 DEF HInv, TypeInv
  <2>2. tohost.dev = 0 => tohost = SysCmd \/ tohost = EXIT
    BY <2>1, SentWords
  <2>3. tohost.dev = 0 /\ tohost.data % 2 = 0 => tohost = SysCmd
    BY <2>1, SentWords
  <2>4. /\ tohost.dev = 1 /\ tohost.cmd = 1 => tohost \notin {SysCmd, ReadCmd, EXIT}
        /\ tohost.dev = 1 /\ tohost.cmd = 0 => tohost = ReadCmd
    BY <2>1, SentWords
  <2> QED BY <2>2, <2>3, <2>4 DEF HostTake, Sys, Ack
<1>6. issued \in Seq(AllCommands) /\ issued = Append(log, Command(tohost))
  BY <1>1 DEF HInv, TypeInv, LogInv
<1>7. tohost = SysCmd =>
         /\ Waiting /\ NoneOf({Sys}) /\ magic = Req(call) /\ magic.n = call
         /\ call \in Nat
  <2>1. tohost = SysCmd =>
          /\ Waiting /\ NoneOf({Sys}) /\ magic = Req(call) /\ call \in Nat
    BY DEF HInv, TypeInv, SyscallInv
  <2> QED BY <2>1, MagicFields
<1>8. TypeInv'
  <2>1. magic' \in [kind : {"req", "ans"}, n : Nat]
    BY <1>5, <1>7, MagicFields DEF HInv, TypeInv
  <2>2. hq' \in Seq(Replies) /\ reads' \in Nat /\ exited' \in BOOLEAN
    <3>1. reads \in Nat /\ exited \in BOOLEAN
      BY DEF HInv, TypeInv
    <3>2. hq' \in Seq(Replies)
      BY <1>2, <1>3, <1>5
    <3>3. reads' \in Nat
      BY <1>5, <3>1
    <3>4. exited' \in BOOLEAN
      BY <1>5, <3>1
    <3> QED BY <3>2, <3>3, <3>4
  <2> QED BY <1>1, <1>6, <2>1, <2>2, SentWords DEF HInv, TypeInv
<1>9. ControlInv'
  BY <1>1, SentWords DEF HInv, ControlInv, Pending, Checking
<1>10. SyscallInv'
  <2>1. CASE tohost = SysCmd
    <3>1. Waiting /\ Waiting' /\ NoneOf({Sys}) /\ ~Pending' /\ pc' # "fs_ret"
      BY <1>1, <1>7, <2>1 DEF Waiting, Pending, Checking
    <3>2. exited' \/ (OneOf({Sys}, Sys)' /\ magic' = Ans(call))
      BY <1>1, <1>3, <1>5, <1>7, <2>1, <3>1, SentWords DEF NoneOf, OneOf
    <3> QED
      BY <1>1, <2>1, <3>1, <3>2, SentWords DEF HInv, SyscallInv
  <2>2. CASE tohost # SysCmd
    <3>1. ~Waiting
      BY <1>1, <2>2 DEF HInv, SyscallInv
    <3>2. UNCHANGED magic /\ hq' \in {hq, Append(hq, Ack)}
      BY <1>5, <2>2
    <3>3. ~Waiting' /\ NoneOf({Sys})'
      BY <1>1, <1>4, <3>1, <3>2 DEF HInv, SyscallInv, Waiting, NoneOf
    <3> QED
      BY <1>1, <3>2, <3>3, SentWords
      DEF HInv, SyscallInv, Pending, Checking
  <2> QED BY <2>1, <2>2
<1>11. ReadInv'
  <2> SUFFICES ASSUME pc \notin {"po", "po2"} PROVE ReadInv'
    BY <1>1 DEF ReadInv
  <2>1. CASE tohost = ReadCmd
    <3>1. InTohost /\ got = SubSeq(Input, 1, fed)
      BY <2>1 DEF HInv, ReadInv, Unasked, InCur, AtHost, Answered
    <3>2. AtHost'
      BY <1>1, <1>5, <2>1, <3>1, SentWords
      DEF InTohost, AtHost, NoneOf, Pending, Checking
    <3> QED BY <1>1, <3>1, <3>2 DEF ReadInv
  <2>2. CASE tohost # ReadCmd
    <3>1. UNCHANGED reads /\ hq' \in {hq, Append(hq, Sys), Append(hq, Ack)}
      BY <1>5, <2>2
    <3>2. /\ NoneOf(ByteWords) => NoneOf(ByteWords)'
          /\ \A w : OneOf(ByteWords, w) => OneOf(ByteWords, w)'
      BY <1>1, <1>3, <1>4, <3>1 DEF NoneOf, OneOf
    <3> QED
      BY <1>1, <2>2, <3>1, <3>2, SentWords
      DEF HInv, ReadInv, Unasked, InCur, InTohost, AtHost, Answered, Pending,
          Checking
  <2> QED BY <2>1, <2>2
<1>12. LogInv'
  BY <1>1, <1>6 DEF LogInv
<1> QED BY <1>8, <1>9, <1>10, <1>11, <1>12 DEF HInv

\* A typed byte answers the read.
LEMMA HostTickStep ==
  ASSUME HInv, ~exited, HostTick
  PROVE  HInv'
<1>1. /\ reads > 0 /\ fed < Len(Input) /\ reads' = reads - 1 /\ fed' = fed + 1
      /\ hq' = Append(hq, ByteWord(Input[fed + 1]))
      /\ UNCHANGED <<kernel, mail, magic, exited, log>>
  BY DEF HostTick, ByteWord
<1>2. PICK b : b = Input[fed + 1]
  OBVIOUS
<1>3. /\ ByteWord(b) \in ByteWords /\ ByteWord(b) \in Replies
       /\ ByteWord(b) \notin {Sys} /\ fed + 1 \in 1..Len(Input) /\ fed \in Nat
  <2>1. fed \in Nat /\ fed + 1 \in 1..Len(Input)
    BY <1>1, InputBytes DEF HInv, TypeInv
  <2> QED BY <1>2, <2>1, InputBytes, ReplyWords
<1>4. hq \in Seq(Replies)
  BY DEF HInv, TypeInv
<1>5. /\ hq' \in Seq(Replies)
      /\ NoneIn(hq, {Sys}) => NoneIn(hq', {Sys})
      /\ OneIn(hq, {Sys}, Sys) => OneIn(hq', {Sys}, Sys)
      /\ NoneIn(hq, ByteWords) => OneIn(hq', ByteWords, ByteWord(b))
  BY <1>1, <1>2, <1>4, <1>3, QueueAppend
<1>6. TypeInv'
  BY <1>1, <1>5, <1>3 DEF HInv, TypeInv
<1>7. ControlInv'
  BY <1>1 DEF HInv, ControlInv, Pending, Checking
<1>8. SyscallInv'
  BY <1>1, <1>5
  DEF HInv, SyscallInv, Pending, Checking, Waiting, NoneOf, OneOf
<1>9. ReadInv'
  <2> SUFFICES ASSUME pc \notin {"po", "po2"} PROVE ReadInv'
    BY <1>1 DEF ReadInv
  <2>1. AtHost /\ got = SubSeq(Input, 1, fed)
    BY <1>1
    DEF HInv, TypeInv, ReadInv, Unasked, InCur, InTohost, AtHost, Answered
  <2>2. fed' > 0 /\ fed' - 1 = fed /\ got' = got /\ Input[fed'] = b
    BY <1>1, <1>2, <1>3
  <2>3. reads' = 0 /\ OneIn(hq', ByteWords, ByteWord(b))
    BY <1>1, <1>5, <2>1 DEF AtHost, NoneOf
  <2>4. Answered(b)'
    BY <1>1, <2>1, <2>3 DEF AtHost, Answered, NoneOf, OneOf, Pending, Checking
  <2>5. Answered(Input[fed])'
    BY <2>2, <2>4 DEF Answered, OneOf
  <2> QED BY <2>1, <2>2, <2>5 DEF ReadInv
<1>10. LogInv'
  BY <1>1 DEF HInv, LogInv, Command
<1> QED BY <1>6, <1>7, <1>8, <1>9, <1>10 DEF HInv

\* The next reply is delivered.
LEMMA HostReplyStep ==
  ASSUME HInv, ~exited, HostReply
  PROVE  HInv'
<1>1. /\ hq # <<>> /\ fromhost = Zero /\ fromhost' = Head(hq) /\ hq' = Tail(hq)
      /\ UNCHANGED <<kernel, tohost, magic, reads, fed, exited, log>>
  BY DEF HostReply
<1>2. hq \in Seq(Replies) /\ Zero \notin {Sys} /\ Zero \notin ByteWords
      /\ Zero \notin Replies
  BY ReplyWords DEF HInv, TypeInv
<1>3. /\ fromhost' \in Replies /\ hq' \in Seq(Replies)
      /\ \A C : NoneIn(hq, C) /\ C # {} => fromhost' \notin C /\ NoneIn(hq', C)
  BY <1>1, <1>2, QueueTail
<1>4. \A C : \A w \in C : OneIn(hq, C, w) =>
              \/ fromhost' = w /\ NoneIn(hq', C)
              \/ fromhost' \notin C /\ OneIn(hq', C, w)
  BY <1>1, <1>2, QueueTail
<1>5. ByteWords # {}
  BY ReplyWords
<1>6. TypeInv'
  BY <1>1, <1>3 DEF HInv, TypeInv
<1>7. ControlInv'
  BY <1>1, <1>2, <1>3 DEF HInv, ControlInv, Pending, Checking
<1>8. SyscallInv'
  <2>1. /\ NoneOf({Sys}) => NoneOf({Sys})'
        /\ OneOf({Sys}, Sys) => OneOf({Sys}, Sys)'
    BY <1>1, <1>2, <1>3, <1>4 DEF NoneOf, OneOf
  <2> QED
    BY <1>1, <2>1 DEF HInv, SyscallInv, Pending, Checking, Waiting
<1>9. ReadInv'
  <2>1. /\ NoneOf(ByteWords) => NoneOf(ByteWords)'
        /\ fed > 0 /\ OneOf(ByteWords, ByteWord(Input[fed]))
             => OneOf(ByteWords, ByteWord(Input[fed]))'
    BY <1>1, <1>2, <1>3, <1>4, <1>5, FedByte DEF NoneOf, OneOf
  <2> QED
    BY <1>1, <2>1
    DEF HInv, ReadInv, Unasked, InCur, InTohost, AtHost, Answered, Pending,
        Checking
<1>10. LogInv'
  BY <1>1 DEF HInv, LogInv, Command
<1> QED BY <1>6, <1>7, <1>8, <1>9, <1>10 DEF HInv

\* The mailboxes are empty, and no read has been asked for.
LEMMA InitInv == Init => HInv
<1> SUFFICES ASSUME Init PROVE HInv
  OBVIOUS
<1>1. TypeInv
  <2>1. <<>> \in Seq(Replies) /\ <<>> \in Seq(AllCommands)
    BY EmptySeq
  <2>2. Req(0) \in [kind : {"req", "ans"}, n : Nat]
    BY MagicFields
  <2>3. 0 \in 0..Len(Input)
    BY InputBytes
  <2>4. /\ tohost \in Sent \cup {EXIT} /\ fromhost \in Replies \cup {Zero}
        /\ fh \in Replies \cup {Zero} /\ cur \in Sent
    BY SentWords DEF Init
  <2>5. hq \in Seq(Replies) /\ issued \in Seq(AllCommands) /\ log \in Seq(AllCommands)
        /\ fed \in 0..Len(Input) /\ magic \in [kind : {"req", "ans"}, n : Nat]
    BY <2>1, <2>2, <2>3 DEF Init
  <2>6. buf \in Int /\ reads \in Nat /\ call \in Nat
    BY DEF Init
  <2>7. exited \in BOOLEAN
    BY DEF Init
  <2>8. pc = "idle" /\ ret = "set" /\ after = "idle"
    BY DEF Init
  <2> QED BY <2>4, <2>5, <2>6, <2>7, <2>8 DEF TypeInv
<1>2. Len(<<>>) = 0 /\ NoneIn(hq, {Sys}) /\ NoneIn(hq, ByteWords)
  BY EmptySeq DEF Init, NoneIn
<1>3. NoneOf({Sys}) /\ NoneOf(ByteWords)
  BY <1>2, ReplyWords DEF Init, NoneOf
<1>4. ControlInv
  BY SentWords DEF Init, ControlInv, Pending, Checking
<1>5. SyscallInv
  BY <1>3, SentWords DEF Init, SyscallInv, Pending, Checking, Waiting
<1>6. ReadInv
  <2>1. got = SubSeq(Input, 1, fed)
    BY SubSeqEmpty DEF Init
  <2>2. Unasked
    BY <1>3, SentWords DEF Init, Unasked, Pending, Checking
  <2> QED BY <2>1, <2>2 DEF Init, ReadInv
<1>7. LogInv
  BY DEF Init, LogInv
<1> QED BY <1>1, <1>4, <1>5, <1>6, <1>7 DEF HInv

---------------------------------------------------------------------------
(* The theorems.                                                           *)

\* Where the replies, the read under way and the typed byte can be.
THEOREM HtifInvariant == Spec => []HInv
<1>1. HInv /\ [Next]_vars => HInv'
  <2> SUFFICES ASSUME HInv, [Next]_vars PROVE HInv'
    OBVIOUS
  <2>1. CASE Kernel
    <3>1. ~exited
      BY <2>1 DEF Kernel
    <3>2. ASSUME NEW n \in Calls, FrontendSyscall("idle", n, "idle") PROVE HInv'
      BY <3>1, <3>2, FrontendSyscallStep DEF Numbers
    <3>3. CASE Poweroff
      BY <3>1, <3>3, FrontendSyscallStep DEF Poweroff, Numbers
    <3>4. ASSUME NEW ch \in OutChars, Putchar(ch) PROVE HInv'
      BY <3>1, <3>4, PutcharStep
    <3>5. CASE Getchar \/ GetBuf \/ SetTohost \/ PutTohost \/ Wait \/ WaitClear
      BY <3>1, <3>5, GetcharStep, GetBufStep, SetTohostStep, PutTohostStep,
         WaitStep, WaitClearStep
    <3>6. CASE FsReturn \/ CheckRead \/ CheckClear \/ PowerLoop
      BY <3>1, <3>6, FsReturnStep, CheckReadStep, CheckClearStep, PowerLoopStep
    <3> QED BY <2>1, <3>2, <3>3, <3>4, <3>5, <3>6 DEF Kernel
  <2>2. CASE HostTake
    BY <2>2, HostTakeStep DEF HostTake
  <2>3. CASE HostTick
    BY <2>3, HostTickStep DEF HostTick
  <2>4. CASE HostReply
    BY <2>4, HostReplyStep DEF HostReply
  <2>5. CASE UNCHANGED vars
    BY <2>5
    DEF vars, HInv, TypeInv, ControlInv, SyscallInv, ReadInv, LogInv, Unasked,
        InCur, InTohost, AtHost, Answered, NoneOf, OneOf, Pending, Checking,
        Waiting, Command
  <2> QED BY <2>1, <2>2, <2>3, <2>4, <2>5 DEF Next
<1> QED BY <1>1, InitInv, PTL DEF Spec

\* Whatever the host interleaves, __check_fromhost is never given the reply of
\* a system call, so neither of its assertions fails.
THEOREM HtifReplies == Spec => []RepliesExpected
<1>1. HInv => RepliesExpected
  BY DEF HInv, TypeInv, RepliesExpected
<1> QED BY <1>1, HtifInvariant, PTL

\* When frontend_syscall reads magic_mem, it holds the host's answer to the
\* request of that very call.
THEOREM HtifAnswers == Spec => []AnswerMatches
<1>1. HInv => AnswerMatches
  BY DEF HInv, SyscallInv, AnswerMatches
<1> QED BY <1>1, HtifInvariant, PTL

\* Whatever is typed, and however system calls and getchar interleave with the
\* host, the bytes come out once each and in order, 0 and 255 included.
THEOREM HtifChars == Spec => []CharsInOrder
<1>1. HInv => CharsInOrder
  <2> SUFFICES ASSUME HInv, pc \notin {"po", "po2"} PROVE CharsInOrder
    BY DEF CharsInOrder
  <2> DEFINE InBuf  == {<<-1, buf - 1>> : b \in {b \in {buf} : b > 0}}
             InMail == {<<0, Byte(w)>> : w \in {w \in {fromhost} : Carries(w)}}
             InHq   == {<<i, Byte(hq[i])>> : i \in {j \in DOMAIN hq : Carries(hq[j])}}
  <2>1. Carried = InBuf \cup InMail \cup InHq
    BY DEF Carried
  <2>2. /\ DOMAIN hq = 1..Len(hq) /\ Len(hq) \in Nat
        /\ Carries(fromhost) <=> fromhost \in ByteWords
        /\ \A i \in 1..Len(hq) : Carries(hq[i]) <=> hq[i] \in ByteWords
    BY ReplyWords, LenProperties, ElementOfSeq DEF HInv, TypeInv
  <2>3. /\ (buf <= 0 => InBuf = {}) /\ (buf > 0 => InBuf = {<<-1, buf - 1>>})
        /\ fromhost \notin ByteWords => InMail = {}
        /\ fromhost \in ByteWords => InMail = {<<0, Byte(fromhost)>>}
        /\ NoneIn(hq, ByteWords) => InHq = {}
    BY <2>2 DEF HInv, TypeInv, NoneIn
  <2>4. CASE /\ (Unasked /\ buf = 0) \/ InCur \/ InTohost \/ AtHost
             /\ got = SubSeq(Input, 1, fed)
    <3>1. buf <= 0 /\ NoneOf(ByteWords)
      BY <2>4 DEF Unasked, InCur, InTohost, AtHost
    <3>2. Carried = {}
      BY <2>1, <2>3, <3>1 DEF NoneOf
    <3> QED BY <2>4, <3>2 DEF CharsInOrder
  <2>5. ASSUME fed > 0, got = SubSeq(Input, 1, fed - 1),
               Unasked, buf = 1 + Input[fed]
        PROVE  CharsInOrder
    <3>1. buf > 0 /\ buf - 1 = Input[fed]
      BY <2>5, FedByte
    <3>2. Carried = {<<-1, Input[fed]>>}
      BY <2>1, <2>3, <2>5, <3>1 DEF Unasked, NoneOf
    <3>3. -1 \in (-1)..Len(hq)
      BY <2>2
    <3> QED BY <2>5, <3>2, <3>3 DEF CharsInOrder
  <2>6. ASSUME fed > 0, got = SubSeq(Input, 1, fed - 1), Answered(Input[fed])
        PROVE  CharsInOrder
    <3>1. buf <= 0 /\ OneOf(ByteWords, ByteWord(Input[fed]))
      BY <2>6 DEF Answered
    <3>2. CASE fromhost = ByteWord(Input[fed]) /\ NoneIn(hq, ByteWords)
      <4>1. Carried = {<<0, Input[fed]>>}
        BY <2>1, <2>3, <2>6, <3>1, <3>2, FedByte
      <4>2. 0 \in (-1)..Len(hq)
        BY <2>2
      <4> QED BY <2>6, <4>1, <4>2 DEF CharsInOrder
    <3>3. CASE fromhost \notin ByteWords /\ OneIn(hq, ByteWords, ByteWord(Input[fed]))
      <4>1. PICK i \in 1..Len(hq) :
              /\ hq[i] = ByteWord(Input[fed])
              /\ \A j \in 1..Len(hq) : j # i => hq[j] \notin ByteWords
        BY <3>3 DEF OneIn
      <4>2. {j \in DOMAIN hq : Carries(hq[j])} = {i}
        BY <2>2, <2>6, <4>1, FedByte
      <4>3. InHq = {<<i, Byte(hq[i])>>}
        BY <4>2
      <4>4. Carried = {<<i, Input[fed]>>}
        BY <2>1, <2>3, <2>6, <3>1, <3>3, <4>1, <4>3, FedByte
      <4>5. i \in (-1)..Len(hq)
        BY <2>2
      <4> QED BY <2>6, <4>4, <4>5 DEF CharsInOrder
    <3> QED BY <3>1, <3>2, <3>3 DEF OneOf
  <2> QED BY <2>4, <2>5, <2>6 DEF HInv, ReadInv
<1> QED BY <1>1, HtifInvariant, PTL

\* The mailboxes implement HostCall.  The kernel's write to tohost issues the
\* command, the host's read of it executes it, and the kernel's clearing of
\* fromhost returns; every other access is invisible.
LEMMA RefinementStep == HInv /\ [Next]_vars => [HC!HNext]_<<issued, log, Waiting>>
<1> SUFFICES ASSUME HInv, [Next]_vars
             PROVE  HC!HNext \/ UNCHANGED <<issued, log, Waiting>>
  OBVIOUS
<1> USE DEF HC!HNext, HC!Issue, HC!Execute, HC!Return
<1>1. CASE PutTohost
  <2>1. /\ pc = "put" /\ issued' = Append(issued, Command(cur)) /\ log' = log
        /\ pc' = IF cur.dev = 0 THEN "wait" ELSE "idle"
    BY <1>1 DEF PutTohost, AfterPut
  <2>2. /\ issued = log /\ cur \in Sent /\ cur # Zero /\ ~Waiting
        /\ cur = SysCmd => magic = Req(call) /\ call \in Numbers /\ call \in Nat
    BY <2>1
    DEF HInv, TypeInv, ControlInv, SyscallInv, LogInv, Pending, Waiting
  <2>3. CASE cur = SysCmd
    <3>1. Command(cur) = Word(0, 0, call)
      BY <2>2, <2>3, SentWords, MagicFields DEF Command
    <3>2. Command(cur) \in AllCommands /\ Command(cur) \in SysCommands
      BY <2>2, <2>3, <3>1 DEF AllCommands, SysCommands, Numbers
    <3>3. Waiting'
      BY <2>1, <2>3, SentWords DEF Waiting
    <3> QED BY <2>1, <2>2, <3>2, <3>3
  <2>4. CASE cur # SysCmd
    <3>1. cur.dev = 1 /\ Command(cur) = cur
      BY <2>2, <2>4, SentWords DEF Command
    <3>2. cur \in AllCommands
      BY <2>2, <2>4 DEF AllCommands, Sent, ReadCmd
    <3>3. cur \notin SysCommands
      BY <3>1, WordFields DEF SysCommands
    <3>4. Waiting' = (cur \in SysCommands)
      <4>1. Waiting' = FALSE
        BY <2>1, <3>1 DEF Waiting
      <4>2. (cur \in SysCommands) = FALSE
        BY <3>3, SMT
      <4> QED BY <4>1, <4>2, Zenon
    <3> QED BY <2>1, <2>2, <3>1, <3>2, <3>3, <3>4
  <2> QED BY <2>3, <2>4
<1>2. CASE PowerLoop
  <2>1. pc \in {"po", "po2"} /\ pc' \in {"po", "po2"} /\ log' = log
        /\ ~Waiting /\ Waiting' = FALSE /\ UNCHANGED Waiting
    BY <1>2 DEF PowerLoop, PowerOff, Waiting
  <2>2. CASE issued' = issued
    BY <2>1, <2>2
  <2>3. CASE issued' # issued
    <3>1. tohost = Zero /\ issued' = Append(issued, EXIT)
      BY <1>2, <2>1, <2>3 DEF PowerLoop, HInv, ControlInv
    <3>2. issued = log
      BY <3>1 DEF HInv, LogInv
    <3>3. EXIT \in AllCommands
      BY DEF AllCommands
    <3>4. EXIT \notin SysCommands
      BY HtifAssumption, SentWords, WordFields DEF SysCommands, HTIFSYS_write
    <3>5. Waiting' = (EXIT \in SysCommands)
      <4>1. (EXIT \in SysCommands) = FALSE
        BY <3>4, SMT
      <4> QED BY <2>1, <4>1, Zenon
    <3> QED BY <2>1, <3>1, <3>2, <3>3, <3>5
  <2> QED BY <2>2, <2>3
<1>3. CASE WaitClear
  <2>1. /\ pc = "wclear" /\ pc' = "fs_ret" /\ UNCHANGED <<issued, log>>
        /\ fromhost = Sys
    BY <1>3 DEF WaitClear, HInv, ControlInv
  <2>2. Waiting /\ Waiting' = FALSE
    BY <2>1 DEF Waiting
  <2>3. tohost = Zero
    BY <2>1, <2>2 DEF HInv, SyscallInv, NoneOf
  <2>4. issued = log
    BY <2>3 DEF HInv, LogInv
  <2> QED BY <2>1, <2>2, <2>4
<1>4. CASE HostTake
  <2>1. /\ tohost # Zero /\ log' = Append(log, Command(tohost))
        /\ UNCHANGED kernel
    BY <1>4 DEF HostTake
  <2>2. issued = Append(log, Command(tohost)) /\ log \in Seq(AllCommands)
    BY <2>1 DEF HInv, TypeInv, LogInv
  <2>3. /\ Len(issued) = Len(log) + 1 /\ Len(log) \in Nat
        /\ issued[Len(log) + 1] = Command(tohost)
    BY <2>2
  <2>4. Len(log) < Len(issued)
    BY <2>3
  <2>5. UNCHANGED <<issued, Waiting>>
    BY <2>1 DEF Waiting
  <2> QED BY <2>1, <2>3, <2>4, <2>5
<1>5. CASE HostTick \/ HostReply \/ UNCHANGED vars
  BY <1>5 DEF HostTick, HostReply, vars, Waiting
<1>6. CASE Kernel /\ ~PutTohost /\ ~PowerLoop /\ ~WaitClear
  <2>1. UNCHANGED <<issued, log>>
    BY <1>6
    DEF Kernel, FrontendSyscall, Poweroff, Getchar, Putchar, GetBuf, SetTohost,
        Wait, FsReturn, CheckRead, CheckClear
  <2>2. UNCHANGED Waiting
    <3>1. ASSUME NEW at \in {"idle", "poweroff"}, NEW n, NEW then,
                 FrontendSyscall(at, n, then)
          PROVE  UNCHANGED Waiting
      BY <3>1 DEF FrontendSyscall, Begin, Waiting
    <3>2. ASSUME NEW ch, Putchar(ch) PROVE UNCHANGED Waiting
      BY <3>2 DEF Putchar, Begin, Waiting
    <3>3. CASE Getchar \/ GetBuf \/ SetTohost
      BY <3>3 DEF Getchar, Begin, GetBuf, SetTohost, Waiting
    <3>4. CASE Wait
      BY <3>4 DEF Wait, Drain, Waiting
    <3>5. CASE FsReturn
      BY <3>5 DEF FsReturn, Waiting, HInv, TypeInv
    <3>6. CASE CheckRead
      BY <3>6 DEF CheckRead, Waiting, HInv, TypeInv
    <3>7. CASE CheckClear
      <4>1. pc = "chk_clear" /\ ret' = ret /\ pc' = ret
        BY <3>7, ReplyWords DEF CheckClear, HInv, TypeInv, ControlInv
      <4> QED BY <4>1 DEF Waiting, HInv, TypeInv
    <3> QED
      BY <1>6, <3>1, <3>2, <3>3, <3>4, <3>5, <3>6, <3>7 DEF Kernel, Poweroff
  <2> QED BY <2>1, <2>2
<1> QED BY <1>1, <1>2, <1>3, <1>4, <1>5, <1>6 DEF Next

\* For every set of calls, bytes and input: the two mailbox words, polled by two
\* parties, behave as a channel on which every command is executed exactly once
\* and in order, and a system call returns after its own execution.
THEOREM HtifRefinesHostCall == Spec => ImplementsHostCall
<1>1. Init => HC!HInit
  BY DEF Init, HC!HInit, Waiting
<1>2. HInv /\ [Next]_vars => [HC!HNext]_HC!hvars
  BY RefinementStep DEF HC!hvars
<1> QED BY <1>1, <1>2, HtifInvariant, PTL DEF Spec, ImplementsHostCall, HC!HSpec

=============================================================================
