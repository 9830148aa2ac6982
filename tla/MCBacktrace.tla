---------------------------- MODULE MCBacktrace ----------------------------
(* Up to two calls of f and g, recursion included, on a stack of frames of *)
(* two words, of which up to two words and s0 are overwritten: with null,  *)
(* frame pointers, addresses out of the stack, return addresses in         *)
(* functions of every kind.                                                *)
EXTENDS BacktraceChain

MCWords  == 0..160
MCSps    == {0, 1}
MCDepths == {0, 1, 3}
MCSizes  == {2}
MCDamage == {0, 5, 8, 92, 131, 157}

Sym(f, v, z, in, n) ==
  [func |-> f, value |-> v, size |-> z, inStrtab |-> in, name |-> n]
MCSymtab == <<Sym(FALSE, 90, 50, TRUE, "data"), Sym(TRUE, 0, 160, TRUE, "null"),
              Sym(TRUE, 90, 5, FALSE, "unnamed"), Sym(TRUE, 92, 0, TRUE, "tiny"),
              Sym(TRUE, 100, 10, TRUE, "main"), Sym(TRUE, 110, 10, TRUE, "f"),
              Sym(TRUE, 120, 10, TRUE, "g"),
              Sym(TRUE, 130, 10, TRUE, "print_backtrace"),
              Sym(TRUE, 140, 10, TRUE, "do_user_call"),
              Sym(TRUE, 155, 10, TRUE, "wraps")>>
MCFunctions == {"f", "g"}

=============================================================================
