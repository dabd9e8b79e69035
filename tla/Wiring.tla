------------------------------- MODULE Wiring -------------------------------
(***************************************************************************)
(* What every service of packages/backend shares: slots for the handlers   *)
(* that run at once, and the kind of store apps/web/lib/backend.ts gave    *)
(* it.  An "objects" store hands out the stored object itself, so a change *)
(* is visible before it is saved; a "rows" store hands out copies and      *)
(* writes whole rows back, and any of its calls may fail.                  *)
(***************************************************************************)
CONSTANTS
  Call,   \* slots for concurrent handlers; a slot is reused when it is free
  NoCall  \* what a free slot holds

VARIABLE store \* chosen once, when the backend is built

Stores == {"objects", "rows"}
=============================================================================
