------------------------------ MODULE AppView ------------------------------
(***************************************************************************)
(* What the kernel promises the application, with no kernel in sight: it   *)
(* is loaded and started, a tick costs it nothing but time and is counted  *)
(* exactly once, a syscall continues at the next instruction or ends the   *)
(* run, and only boot, a syscall or its own fault can end it.  Module      *)
(* Traps implements this specification.                                    *)
(***************************************************************************)
EXTENDS Naturals

CONSTANT Addresses   \* of the application's instructions

VARIABLES
  phase,   \* "boot", "run", "tick" (uncounted), "ticked", "call" or "off"
  upc,     \* where the application is, or will continue; 0 when it is over
  ticks    \* ticks counted

avars == <<phase, upc, ticks>>

AInit == phase = "boot" /\ upc = 0 /\ ticks = 0

Load == /\ phase = "boot"
        /\ upc' \in Addresses
        /\ UNCHANGED <<phase, ticks>>

Compute == /\ phase = "run"
           /\ upc' \in Addresses
           /\ UNCHANGED <<phase, ticks>>

Syscall == /\ phase = "run"
           /\ phase' = "call" /\ upc' = upc + 4
           /\ UNCHANGED ticks

Tick == /\ phase = "run"
        /\ phase' = "tick"
        /\ UNCHANGED <<upc, ticks>>

Count == /\ phase = "tick"
         /\ phase' = "ticked" /\ ticks' = ticks + 1
         /\ UNCHANGED upc

Resume == /\ phase \in {"boot", "ticked", "call"}
          /\ phase' = "run"
          /\ UNCHANGED <<upc, ticks>>

End == /\ phase \in {"boot", "run", "call"}
       /\ phase' = "off" /\ upc' = 0
       /\ UNCHANGED ticks

ANext == Load \/ Compute \/ Syscall \/ Tick \/ Count \/ Resume \/ End

ASpec == AInit /\ [][ANext]_avars

=============================================================================
