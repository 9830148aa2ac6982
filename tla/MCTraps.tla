------------------------------ MODULE MCTraps ------------------------------
(* A small instance of Traps: a two-instruction application and time for  *)
(* a few timer interrupts.                                                  *)
EXTENDS Traps

MCUserPCs == {0, 4}
MCOneEach == {"illegal", "breakpoint"}

=============================================================================
