------------------------------ MODULE HostCall ------------------------------
(***************************************************************************)
(* What the HTIF layer promises its callers: the commands the kernel       *)
(* issues are executed by the host once each and in the order of issue, at *)
(* most one of them is under way, and a system call returns only when the  *)
(* host has executed it.  Module Htif implements this specification.       *)
(***************************************************************************)
EXTENDS Naturals, Sequences

CONSTANTS
  Commands,    \* what can be asked of the host
  Syscalls     \* the commands whose caller waits for the answer

VARIABLES
  issued,      \* the commands issued so far
  log,         \* the commands executed so far
  waiting      \* is the kernel inside a system call?

hvars == <<issued, log, waiting>>

HInit == issued = <<>> /\ log = <<>> /\ waiting = FALSE

Issue(c) ==
  /\ ~waiting /\ Len(log) = Len(issued)
  /\ issued' = Append(issued, c)
  /\ waiting' = (c \in Syscalls)
  /\ UNCHANGED log

Execute ==
  /\ Len(log) < Len(issued)
  /\ log' = Append(log, issued[Len(log) + 1])
  /\ UNCHANGED <<issued, waiting>>

Return ==
  /\ waiting /\ Len(log) = Len(issued)
  /\ waiting' = FALSE
  /\ UNCHANGED <<issued, log>>

HNext == (\E c \in Commands : Issue(c)) \/ Execute \/ Return

HSpec == HInit /\ [][HNext]_hvars

=============================================================================
