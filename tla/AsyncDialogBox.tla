--------------------------- MODULE AsyncDialogBox ---------------------------
(***************************************************************************)
(* A dialog box of the compositor (CAsyncDialogBox, helpers/): a           *)
(* hyprland-dialog process whose standard output is read until it hangs    *)
(* up.  The process writes the button chosen and exits at once, so a box   *)
(* is one value: Closed before it opens and after its hangup, Open while   *)
(* the process runs, and what it wrote while its hangup is on the way.     *)
(* hyprland-dialog is installed and open() succeeds.                       *)
(***************************************************************************)
CONSTANT Buttons        \* what the boxes' buttons write

Closed == "closed"
Open == "open"
Nothing == "nothing"    \* the window was closed, or the process killed

ASSUME ButtonsAssumption == Buttons \cap {Closed, Open, Nothing} = {}

Results == Buttons \cup {Nothing}
BoxState == {Closed, Open} \cup Results

\* kill(): SIGKILL, which a process that has exited does not notice.
kill(box) == IF box = Open THEN Nothing ELSE box

\* onWrite with a hangup: the promise is resolved with what was written.
HungUp(box) == box \in Results
=============================================================================
