------------------------------- MODULE Printf -------------------------------
(***************************************************************************)
(* How a printed line reaches the host: printu (user/user_lib.c) formats   *)
(* it into a buffer with vsnprintf (util/snprintf.c) and calls the kernel, *)
(* whose sys_user_print (kernel/syscall.c) passes the buffer as a format   *)
(* to sprint, and vprintk (spike_interface/spike_utils.c) formats it once  *)
(* more into its own buffer and writes that to the host.  The kernel's own *)
(* messages take the second half alone, and so do its panics, but without  *)
(* their arguments: do_panic calls sprint with its va_list as the one      *)
(* argument.  One step is one character of a format.  An argument is a     *)
(* register: a number, and the string that it would point to.              *)
(***************************************************************************)
EXTENDS Integers, Sequences, FiniteSets, SequencesExt

CONSTANTS
  N,        \* sizeof(out), 256 in the code
  IntHex,   \* hexadecimal digits of an int (8 in the code)
  LongHex,  \* hexadecimal digits of a long (16)
  Char,     \* the characters but NUL
  Formats,  \* bound: the formats, sequences of pieces: a character, or a
            \* conversion with or without "l", or an unknown conversion
  Args,     \* bound: the arguments of the call, sequences of registers
  Stale     \* bound: registers that nobody set as arguments; after a
            \* panic the first holds the address of the va_list

NUL == "NUL"
Unset == "unset"
Digits == <<"0", "1", "2", "3", "4", "5", "6", "7", "8", "9",
            "a", "b", "c", "d", "e", "f">>
Conversions == {"p", "x", "d", "s", "c"}

Pow16[k \in Nat] == IF k = 0 THEN 1 ELSE 16 * Pow16[k - 1]
LongMin == -(Pow16[LongHex] \div 2)

Register == [num : LongMin..(-LongMin - 1), str : Seq(Char), char : Char \cup {NUL}]
Piece == [kind : {"char"}, c : Char \ {"%"}]
           \cup [kind : {"conv"}, c : Conversions, long : BOOLEAN]
           \cup [kind : {"unknown"}, c : Char \ (Conversions \cup {"l"}), long : BOOLEAN]

\* The characters of a format.
PieceChars(p) ==
  IF p.kind = "char" THEN <<p.c>>
  ELSE <<"%">> \o (IF p.long THEN <<"l">> ELSE << >>) \o <<p.c>>
Chars(pieces) == FlattenSeq([k \in DOMAIN pieces |-> PieceChars(pieces[k])])

\* A call has as many registers and words of the stack as its conversions take:
\* a conversion is two characters or more.
ASSUME PrintfAssumption ==
  /\ N \in Nat \ {0} /\ IntHex \in Nat \ {0} /\ LongHex \in Nat /\ LongHex >= IntHex
  /\ {Digits[d] : d \in 1..16} \cup Conversions \cup {"%", "l", "-", "bad"} \subseteq Char
  /\ NUL \notin Char /\ Unset \notin Char
  /\ Formats \subseteq Seq(Piece) /\ Args \cup Stale \subseteq Seq(Register)
  /\ \A a \in Args \cup Stale :
       N <= 2 * Len(a) + 1 /\ \A f \in Formats : Len(Chars(f)) <= 2 * Len(a)

VARIABLES
  by,       \* who prints: printu ("app"), sprint ("kernel") or "panic"
  stage,    \* whose vsnprintf runs: "user", "kernel"; or "written"
  fmt, vl,  \* the rest of its format and of its arguments
  format, longarg, pos,  \* its locals
  out,      \* its buffer
  first,    \* history: the printed format and arguments
  host      \* the bytes the host was given

locals == <<format, longarg, pos>>
vars == <<by, stage, fmt, vl, format, longarg, pos, out, first, host>>

---------------------------------------------------------------------------
(* vsnprintf.                                                              *)

\* va_arg(vl, long) or va_arg(vl, int): an int is the register's lower half,
\* sign-extended.
Taken(n, long) ==
  LET w == Pow16[IntHex]
      low == n % w
  IN IF long THEN n ELSE IF 2 * low >= w THEN low - w ELSE low

\* The buffer after the characters s were put from position p on, each with
\* if (++pos < n) out[pos - 1] = c.
PutAll(o, p, s) ==
  [k \in 0..(N - 1) |-> IF p <= k /\ k < p + Len(s) /\ k + 1 < N THEN s[k - p + 1]
                                                            ELSE o[k]]

\* num >> (4 * i) for every i, and nibble i, counted from the lowest.
Shifted(n) == LET num[i \in Nat] == IF i = 0 THEN n ELSE num[i - 1] \div 16 IN num
Nibble(n, i) == Shifted(n)[i] % 16
HexDigits(n, long) ==
  LET k == IF long THEN LongHex ELSE IntHex
  IN [j \in 1..k |-> Digits[Nibble(n, k - j) + 1]]

\* C's division, towards zero; the most negative long stays negative after
\* num = -num, and its "digits" are not digits.
Quot(n) == IF n >= 0 THEN n \div 10 ELSE -((-n) \div 10)
DigitChar(n) == LET d == n - 10 * Quot(n) IN IF d >= 0 THEN Digits[d + 1] ELSE "bad"
Negated(n) == IF n = LongMin THEN n ELSE -n

\* num after k divisions, and the number of digits that the first loop counts.
Divided(n) == LET num[k \in Nat] == IF k = 0 THEN n ELSE Quot(num[k - 1]) IN num
CountDigits(n) == CHOOSE k \in 1..(2 * LongHex) :
                    Divided(n)[k] = 0 /\ \A j \in 1..(k - 1) : Divided(n)[j] # 0

\* A sign, then the digits, from the last to the first.
DecimalChars(n) ==
  LET num == IF n < 0 THEN Negated(n) ELSE n
      digits == CountDigits(num)
  IN (IF n < 0 THEN <<"-">> ELSE << >>)
       \o [j \in 1..digits |-> DigitChar(Divided(num)[digits - j])]

\* What a conversion puts into the buffer for the register r.
Converted(c, long, r) ==
  CASE c = "p" -> <<"0", "x">> \o HexDigits(r.num, TRUE)
    [] c = "x" -> HexDigits(Taken(r.num, long), long)
    [] c = "d" -> DecimalChars(Taken(r.num, long))
    [] c = "s" -> r.str
    [] c = "c" -> <<r.char>>

Emit(s) == out' = PutAll(out, pos, s) /\ pos' = pos + Len(s)

\* Mutant: longarg outlives its conversion.
AfterConversionLong == longarg
AfterConversion == FALSE

\* One character of the format.  Every other character after a '%' is passed
\* over, the format mode stays on: "%%" is no '%'.  A %c takes its argument only
\* if (++pos < n): after a full buffer the later conversions take earlier ones.
Scan ==
  /\ stage # "written" /\ fmt # << >> /\ fmt' = Tail(fmt)
  /\ LET c == Head(fmt) IN
     \/ /\ ~format /\ c = "%"
        /\ format' = TRUE /\ UNCHANGED <<longarg, pos, out, vl>>
     \/ /\ ~format /\ c # "%"
        /\ Emit(<<c>>) /\ UNCHANGED <<format, longarg, vl>>
     \/ /\ format /\ c = "l"
        /\ longarg' = TRUE /\ UNCHANGED <<format, pos, out, vl>>
     \/ /\ format /\ c \in Conversions
        /\ Emit(Converted(c, longarg, Head(vl)))
        /\ vl' = IF c = "c" /\ pos + 1 >= N THEN vl ELSE Tail(vl)
        /\ longarg' = AfterConversion /\ format' = FALSE
     \/ /\ format /\ c \notin Conversions \cup {"l"}
        /\ UNCHANGED <<format, longarg, pos, out, vl>>
  /\ UNCHANGED <<by, stage, first, host>>

\* The terminating NUL.
Terminated(o, p) == [o EXCEPT ![IF p < N THEN p ELSE N - 1] = NUL]

Empty == [k \in 0..(N - 1) |-> Unset]

\* The text in a buffer, up to its NUL.
CString(o) ==
  LET end == CHOOSE k \in 0..(N - 1) : o[k] = NUL /\ \A j \in 0..(k - 1) : o[j] # NUL
  IN [k \in 1..end |-> o[k - 1]]

---------------------------------------------------------------------------
(* The two callers.                                                        *)

Begin(f, a) ==
  /\ fmt' = f /\ vl' = a /\ out' = Empty
  /\ format' = FALSE /\ longarg' = FALSE /\ pos' = 0

\* printu's do_user_call, sys_user_print (which does not look at n) and the
\* start of sprint: the text is the format, and there are no arguments.
SysUserPrint ==
  /\ stage = "user" /\ fmt = << >> /\ stage' = "kernel"
  /\ \E a \in Stale : Begin(CString(Terminated(out, pos)), a)
  /\ UNCHANGED <<by, first, host>>

\* Mutants: the text and its NUL; the whole buffer.
LengthNul(res) == IF res + 1 < N THEN res + 1 ELSE N
LengthBuffer(res) == N

\* res < sizeof(out) ? res : sizeof(out)
Length(res) == IF res < N THEN res ELSE N

\* vprintk: the host writes that many bytes of the buffer.
SpikeFileWrite ==
  /\ stage = "kernel" /\ fmt = << >> /\ stage' = "written"
  /\ host' = [k \in 1..Length(pos) |-> Terminated(out, pos)[k - 1]]
  /\ out' = Terminated(out, pos)
  /\ UNCHANGED <<by, fmt, vl, locals, first>>

Written == stage = "written" /\ UNCHANGED vars

\* printu, sprint and do_panic are called.
Init ==
  /\ by \in {"app", "kernel", "panic"}
  /\ stage = IF by = "app" THEN "user" ELSE "kernel"
  /\ \E f \in Formats, a \in Args :
       fmt = Chars(f) /\ first = [pieces |-> f, vl |-> a]
  /\ IF by = "panic" THEN vl \in Stale ELSE vl = first.vl
  /\ format = FALSE /\ longarg = FALSE /\ pos = 0
  /\ out = Empty /\ host = << >>

Next == Scan \/ SysUserPrint \/ SpikeFileWrite \/ Written

Spec == Init /\ [][Next]_vars

---------------------------------------------------------------------------
(* What the line should say.                                               *)

DecimalText[n \in Nat] ==
  IF n < 10 THEN <<Digits[n + 1]>> ELSE DecimalText[n \div 10] \o <<Digits[(n % 10) + 1]>>
\* The k lowest digits in base 16, in two's complement.
HexText[k \in Nat] == [n \in Int |->
  IF k = 0 THEN << >> ELSE HexText[k - 1][n \div 16] \o <<Digits[(n % 16) + 1]>>]

\* A conversion of the number n: in base 16 all digits of the type, in base 10
\* a sign where it is due and no leading zero.
NumberText(c, long, n) ==
  LET k == IF long THEN LongHex ELSE IntHex
      v == Taken(n, long)
  IN IF c = "d" THEN IF v < 0 THEN <<"-">> \o DecimalText[-v] ELSE DecimalText[v]
     ELSE HexText[k][n]

PieceText(p, r) ==
  CASE p.kind = "char" -> <<p.c>>
    [] p.kind = "conv" /\ p.c \in {"d", "x"} -> NumberText(p.c, p.long, r.num)
    [] p.kind = "conv" /\ p.c = "p" -> <<"0", "x">> \o NumberText("x", TRUE, r.num)
    [] p.kind = "conv" /\ p.c = "s" -> r.str
    [] p.kind = "conv" /\ p.c = "c" -> <<r.char>>

\* The k-th conversion takes the k-th argument.
Nth(k) == Cardinality({j \in 1..k : first.pieces[j].kind = "conv"})
Text == FlattenSeq([k \in DOMAIN first.pieces |->
                      PieceText(first.pieces[k], first.vl[IF Nth(k) = 0 THEN 1 ELSE Nth(k)])])

\* Only conversions vsnprintf knows, and no %ld of the most negative long,
\* whose negation overflows.
Proper ==
  \A k \in DOMAIN first.pieces :
    /\ first.pieces[k].kind # "unknown"
    /\ first.pieces[k].kind = "conv" /\ first.pieces[k].c = "d"
         => first.vl[Nth(k)].num # LongMin

Prefix(s, n) == SubSeq(s, 1, IF n < Len(s) THEN n ELSE Len(s))

---------------------------------------------------------------------------

\* The text, cut to the buffer; a NUL takes the last place of one too long.
Shown == IF Len(Text) < N THEN Text ELSE Prefix(Text, N - 1) \o <<NUL>>

\* A message of the kernel reaches the host as its format and arguments say, and
\* a panic's if it has no arguments.
KernelMessageExact ==
  /\ stage = "written" /\ Proper
  /\ by = "kernel" \/ (by = "panic" /\ Nth(Len(first.pieces)) = 0)
  => host = Shown

\* What do_syscall's panic("Unknown syscall %ld \n", a0) and kassert_fail's
\* do_panic("assertion failed @ %p: %s\n", ra, s) rely on: a panic shows its
\* arguments.
PanicShowsArguments == stage = "written" /\ by = "panic" /\ Proper => host = Shown

\* A line the application prints reaches the host unchanged, cut to the buffer,
\* although the kernel formats it a second time, provided what it says has no
\* percent sign and no NUL.
AppLineExact ==
  /\ stage = "written" /\ by = "app" /\ Proper
  /\ {"%", NUL} \cap ToSet(Prefix(Text, N - 1)) = {}
  => host = Prefix(Text, N - 1)

\* Whatever the format, the buffer ends in a NUL, and of a buffer on the stack
\* the host gets no byte that was not written.
NoStaleByte ==
  stage = "written" =>
    /\ Len(host) <= N /\ \E k \in 0..(N - 1) : out[k] = NUL
    /\ \A k \in DOMAIN host : host[k] # Unset

=============================================================================
