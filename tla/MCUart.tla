------------------------------- MODULE MCUart -------------------------------
(* Uart for TLC: three slots fill up and wrap in order; the text mixes two *)
(* letters with line feeds, which make _putchar call itself.               *)
EXTENDS Uart
=============================================================================
