------------------------------ MODULE MCHtif ------------------------------
(* A system call and the one that exits; one byte to print and two to     *)
(* read: 0 and 255, the ends of what htif_console_buf must encode.        *)
EXTENDS Htif

MCCalls    == {56, 93}
MCOutChars == {65}
MCInput    == <<0, 255>>

=============================================================================
