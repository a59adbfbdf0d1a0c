----------------------------- MODULE MCTerminal -----------------------------
(* Instances of Terminal for TLC. The ring is short enough for the reader  *)
(* to be anywhere in it when the handler wraps around or finds it full; a  *)
(* line holds three characters and the terminator, and enough keys come    *)
(* for a full line, its execution and a second, shorter line.              *)
EXTENDS Terminal
=============================================================================
