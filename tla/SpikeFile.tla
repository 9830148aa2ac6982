----------------------------- MODULE SpikeFile -----------------------------
(***************************************************************************)
(* The kernel's table of host files (spike_interface/spike_file.c):        *)
(* reference-counted slots, the descriptor table spike_fds, and the host's *)
(* own table behind them.  One action is one call; only the boot and       *)
(* load code calls these functions, and no trap handler changes the        *)
(* tables.  The host is external: openat gives its lowest free descriptor  *)
(* or fails.                                                               *)
(***************************************************************************)
EXTENDS Integers, FiniteSets

CONSTANTS
  MAX_FILES, MAX_FDS,  \* sizes of the two tables (128 in the code)
  MaxOpens             \* bound: calls of spike_file_open

ASSUME SpikeFileAssumption ==
  /\ MAX_FILES \in Nat /\ MAX_FILES >= 3
  /\ MAX_FDS \in Nat /\ MAX_FDS >= MAX_FILES
  /\ MaxOpens \in Nat

INIT_FILE_REF == 3
Files == 0..(MAX_FILES - 1)
Fds   == 0..(MAX_FDS - 1)
NULL  == -1
HostFds == 0..(MaxOpens + 2)

VARIABLES
  files,     \* spike_files: kfd and refcnt of every slot
  spike_fds, \* the slot behind every descriptor, or NULL
  hostOpen,  \* the host's open descriptors
  inited,    \* has spike_file_init run?
  opens,     \* calls of spike_file_open so far
  held       \* history: slots returned by an open and not closed since

vars == <<files, spike_fds, hostOpen, inited, opens, held>>

Least(S) == CHOOSE x \in S : \A y \in S : x <= y

---------------------------------------------------------------------------
(* The helpers, as functions of the tables.                                *)

Free(fs) == {f \in Files : fs[f].refcnt = 0}

\* spike_file_get_free, with the kfd its caller stores next.
Take(fs, f, kfd) == [fs EXCEPT ![f] = [kfd |-> kfd, refcnt |-> INIT_FILE_REF]]

\* spike_file_decref: the last but one reference frees the slot.
Dropped(fs, f) ==
  [fs EXCEPT ![f].refcnt = IF fs[f].refcnt = 2 THEN 0 ELSE fs[f].refcnt - 1]

\* The host descriptors that a decref closes.
Closed(fs, f) == IF fs[f].refcnt = 2 THEN {fs[f].kfd} ELSE {}

---------------------------------------------------------------------------
(* The calls.                                                              *)

\* Mutant: the slots of the standard streams are not reserved.
Init3Unreserved ==
  /\ ~inited /\ inited' = TRUE
  /\ files' = [f \in Files |-> IF f < 3 THEN [kfd |-> f, refcnt |-> 0]
                                        ELSE files[f]]
  /\ spike_fds' = [i \in Fds |-> IF i < 3 THEN i ELSE spike_fds[i]]
  /\ UNCHANGED <<hostOpen, opens, held>>

\* spike_file_init: slots 0 to 2 become stdin, stdout and stderr, with a
\* descriptor each.
Init3 ==
  /\ ~inited /\ inited' = TRUE
  /\ files' = [f \in Files |->
                 IF f < 3 THEN [kfd |-> f, refcnt |-> INIT_FILE_REF + 1]
                          ELSE files[f]]
  /\ spike_fds' = [i \in Fds |-> IF i < 3 THEN i ELSE spike_fds[i]]
  /\ UNCHANGED <<hostOpen, opens, held>>

\* spike_file_openat: no slot, a host descriptor, or the host's error.
Openat ==
  /\ inited /\ opens < MaxOpens /\ opens' = opens + 1
  /\ IF Free(files) = {} THEN UNCHANGED <<files, hostOpen, held>>
     ELSE LET f == Least(Free(files))
          IN \/ \E kfd \in {Least(HostFds \ hostOpen)} :
                  /\ files' = Take(files, f, kfd)
                  /\ hostOpen' = hostOpen \cup {kfd}
                  /\ held' = held \cup {f}
             \/ /\ files' = Dropped(Take(files, f, files[f].kfd), f)
                /\ hostOpen' = hostOpen \ Closed(Take(files, f, files[f].kfd), f)
                /\ UNCHANGED held
  /\ UNCHANGED <<spike_fds, inited>>

\* Mutant: the new descriptor is not counted.
DupUncounted(f) ==
  /\ f \in held
  /\ {i \in Fds : spike_fds[i] = NULL} # {}
  /\ spike_fds' = [spike_fds EXCEPT ![Least({i \in Fds : spike_fds[i] = NULL})] = f]
  /\ UNCHANGED <<files, hostOpen, inited, opens, held>>

\* spike_file_dup of a file the caller holds: the first free descriptor.  The
\* kassert(prev > 0) of spike_file_incref cannot fail: a file that is held has
\* references, by ReachableAlive.
Dup(f) ==
  /\ f \in held
  /\ {i \in Fds : spike_fds[i] = NULL} # {}
  /\ spike_fds' = [spike_fds EXCEPT ![Least({i \in Fds : spike_fds[i] = NULL})] = f]
  /\ files' = [files EXCEPT ![f].refcnt = @ + 1]
  /\ UNCHANGED <<hostOpen, inited, opens, held>>

\* spike_file_close of a file the caller holds: it clears the descriptor with
\* the host's number if that is the file's, and drops one reference, or two.
Close(f) ==
  /\ f \in held /\ held' = held \ {f}
  /\ LET kfd == files[f].kfd
         mine == kfd \in Fds /\ spike_fds[kfd] = f
         one == Dropped(files, f)
     IN IF mine
        THEN /\ spike_fds' = [spike_fds EXCEPT ![kfd] = NULL]
             /\ files' = Dropped(one, f)
             /\ hostOpen' = hostOpen \ (Closed(files, f) \cup Closed(one, f))
        ELSE /\ files' = one
             /\ hostOpen' = hostOpen \ Closed(files, f)
             /\ UNCHANGED spike_fds
  /\ UNCHANGED <<inited, opens>>

Init ==
  /\ files = [f \in Files |-> [kfd |-> -1, refcnt |-> 0]]
  /\ spike_fds = [i \in Fds |-> NULL]
  /\ hostOpen = {0, 1, 2} /\ inited = FALSE /\ opens = 0 /\ held = {}

Next == Init3 \/ Openat \/ \E f \in Files : Dup(f) \/ Close(f)

Spec == Init /\ [][Next]_vars

---------------------------------------------------------------------------

\* References that exist: the one of a caller that holds the file, and one for
\* every descriptor.
Refs(f) == (IF f \in held THEN 1 ELSE 0)
             + Cardinality({i \in Fds : spike_fds[i] = f})

\* A file somebody can still reach is allocated and open on the host, so that a
\* read, a write or the kernel's own output goes to the file that was opened;
\* no two of them share a host descriptor; each descriptor lies inside the table
\* that spike_file_close indexes with it, full or not; and no reference count,
\* which is unsigned, falls below zero.
ReachableAlive ==
  LET reach == held \cup {f \in Files : \E i \in Fds : spike_fds[i] = f}
  IN /\ \A f \in reach : files[f].refcnt > Refs(f) /\ files[f].kfd \in hostOpen
     /\ \A f \in reach : files[f].kfd \in Fds
     /\ \A f \in Files : files[f].refcnt >= 0
     /\ \A f, g \in reach : f # g => files[f].kfd # files[g].kfd

\* Once spike_file_init has run, slot 2 is the host's stderr for good: the file
\* that sprint writes to is never closed and never given to another file.
StderrStays == inited => files[2].kfd = 2 /\ files[2].refcnt > 0 /\ 2 \in hostOpen

\* What the loader's comment says its call of spike_file_close does: "close the
\* host spike file".
CloseClosesHostFile ==
  [][\A f \in held \ held' :
       (\A i \in Fds : spike_fds'[i] # f) => files[f].kfd \notin hostOpen']_vars

=============================================================================
