-------------------------- MODULE MCCommunication ---------------------------
(***************************************************************************)
(* The instance of Communication for TLC: two handlers at once; an outbox  *)
(* with a good, a poisoned and an orphaned event and room for two; a page  *)
(* of two messages, which a form sent twice at once makes overflow.        *)
(***************************************************************************)
EXTENDS Communication
=============================================================================
