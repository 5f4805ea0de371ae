----------------------------- MODULE MCCtlQueue -----------------------------
(* A small instance of CtlQueue for TLC: fewer buffers than messages, two
   dynamic types and one command.                                           *)
EXTENDS CtlQueue
=============================================================================
