--------------------------- MODULE MCThemeService ---------------------------
(* Small instances of ThemeService for TLC.                                 *)
EXTENDS ThemeService

None == [visits |-> 0, changes |-> 0, stores |-> 0, clicks |-> 0, failures |-> 0]

(* Several visits; a visit after a click; clicks that overlap each other    *)
(* and a change of the system's theme; a click next to another tab; a click *)
(* next to a call or a hook that fails.                                     *)
SmallBudgets ==
  {[None EXCEPT !.visits = 2, !.changes = 1],
   [None EXCEPT !.visits = 1, !.stores = 1],
   [None EXCEPT !.visits = 1, !.clicks = 1],
   [None EXCEPT !.clicks = 2, !.changes = 1],
   [None EXCEPT !.clicks = 1, !.stores = 1],
   [None EXCEPT !.clicks = 1, !.failures = 1]}
=============================================================================
