--------------------------- MODULE MCHifbRefresh ---------------------------
(***************************************************************************)
(* HifbRefresh for TLC.  A run that taint marks is followed through its    *)
(* first refresh only: no property but the types speaks of what comes      *)
(* later, and the types are proved (HifbRefreshProofs).  NewestIsShown     *)
(* loses nothing by it, since taint never becomes empty again.             *)
(***************************************************************************)
EXTENDS HifbRefresh

MarkedRefreshes == 1
Followed == taint = {} \/ par.num <= MarkedRefreshes
=============================================================================
