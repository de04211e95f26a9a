----------------------------- MODULE ConfigSave -----------------------------
(***************************************************************************)
(* config_text_file_save as what it does to the directory: the new text is *)
(* written to a temporary file, which then takes the place of the old one. *)
(* Any call may fail, and the process may end between two of them.         *)
(*                                                                         *)
(* A definition that stands before another one and is used nowhere is that *)
(* other with a mistake in it; the properties are tried against these.     *)
(***************************************************************************)
VARIABLES
  file,    \* under the name asked for: "none", "old", "new" or "short"
  temp,    \* the temporary file: "none", "open", "new" or "short"
  at,      \* the next call, or how it ended
  had,     \* whether there was an old file
  lossy    \* history: a failure the code does not guard against

vars == <<file, temp, at, had, lossy>>

Init ==
  /\ file \in {"none", "old"} /\ had = (file = "old")
  /\ temp = "none" /\ at = "start" /\ lossy = FALSE

Goto(next) == at' = next /\ UNCHANGED had

\* mkstemp, then fdopen, whose failure leaves the temporary file behind.
Create ==
  /\ at = "start"
  /\ \/ temp' = "open" /\ Goto("write")
     \/ temp' \in {"none", "open"} /\ Goto("failed")
  /\ UNCHANGED <<file, lossy>>

\* The text stays in the stream's buffer, in part at least, until it is closed.
WriteInPlace ==
  /\ at = "write"
  /\ file' = "none"
  /\ Goto("close")
  /\ UNCHANGED <<temp, lossy>>
Write == at = "write" /\ Goto("close") /\ UNCHANGED <<file, temp, lossy>>

\* No result is tested: a full disk leaves a short file, which goes the same way.
CloseStream ==
  /\ at = "close"
  /\ temp' \in {"new", "short"}
  /\ lossy' = (temp' = "short")
  /\ Goto(IF had THEN "remove" ELSE "link")
  /\ UNCHANGED file

\* link does not replace a file, so that the old one goes first.
Remove ==
  /\ at = "remove"
  /\ \/ file' = "none" /\ Goto("link")
     \/ UNCHANGED file /\ Goto("giveup")
  /\ UNCHANGED <<temp, lossy>>

Link ==
  /\ at = "link"
  /\ \/ file' = temp /\ Goto("cleanup") /\ UNCHANGED lossy
     \/ lossy' = TRUE /\ Goto("giveup") /\ UNCHANGED file
  /\ UNCHANGED temp

\* The temporary file is removed, whether it has been linked or not.
Cleanup ==
  /\ at \in {"cleanup", "giveup"}
  /\ temp' = "none"
  /\ Goto(IF at = "cleanup" THEN "saved" ELSE "failed")
  /\ UNCHANGED <<file, lossy>>

Crash ==
  /\ at \notin {"saved", "failed", "crashed"}
  /\ Goto("crashed")
  /\ UNCHANGED <<file, temp, lossy>>

Next == Create \/ Write \/ CloseStream \/ Remove \/ Link \/ Cleanup \/ Crash

Spec == Init /\ [][Next]_vars

----------------------------------------------------------------------------
\* At every moment, the process's end included, an old configuration is there under its
\* name or the complete new one is, there or in the temporary file; a save that reports
\* success has put it there.  Excepted are a link that fails, after which the code removes
\* the last copy, and a disk that fills, which it does not notice (config.c:1040-1049).
FileSurvives ==
  lossy \/ /\ had => file \in {"old", "new"} \/ temp = "new"
           /\ at = "saved" => file = "new"

=============================================================================
