----------------------------- MODULE MCGtkPages -----------------------------
(* Instances of GtkPages for TLC.                                          *)
EXTENDS GtkPages

CONSTANTS home, away

MCUrls == {home, away}
MCLimits == {1, 2}

(* What can still matter: not the URLs of pages that are closed, nor the   *)
(* ids a process that is gone, or not done restoring, has in the file.  No *)
(* action, and no property, tells two states with the same view apart.     *)
MCView ==
  <<up, core, build, restoring, quitting, failed, containers, shown,
    [p \in Live(core) |-> <<url[p], lastUrl[p]>>],
    IF up /\ ~restoring THEN disk
    ELSE [disk EXCEPT !.pages = [i \in 1..Len(disk.pages) |-> disk.pages[i].url]]>>
=============================================================================
