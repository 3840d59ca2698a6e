------------------------------- MODULE Carving -------------------------------
(***************************************************************************)
(* What the search of a deep scan promises, whatever order it looks at the *)
(* blocks in and however often it goes back: once it has begun, a sector   *)
(* leaves the space that is still searched only as part of a file that is  *)
(* kept, and what was kept is never touched again.                         *)
(***************************************************************************)
CONSTANT Sectors

VARIABLES
    started,
    free,       \* sectors that may still become part of a file
    files       \* the files kept, each the set of its sectors

vars == <<started, free, files>>

Init == started = FALSE /\ free \in SUBSET Sectors /\ files = {}

\* Until the search begins, what it will look at is narrowed and aligned.
Prepare ==
    /\ ~started
    /\ started' \in BOOLEAN
    /\ free' \in SUBSET Sectors
    /\ UNCHANGED files

Keep ==
    /\ started
    /\ \E f \in SUBSET free :
          /\ f # {}
          /\ files' = files \cup {f}
          /\ free' = free \ f
    /\ UNCHANGED started

Spec == Init /\ [][Prepare \/ Keep]_vars

=============================================================================
