---------------------------- MODULE SharedLibrary ----------------------------
(***************************************************************************)
(* What library sync promises, with no logs, cursors or documents: each    *)
(* device knows some of the changes ever written, shows what those changes *)
(* mean, and its knowledge only grows.  SyncMerge and SyncEngine are       *)
(* proved to implement it.                                                 *)
(***************************************************************************)

CONSTANTS
  Devices,
  View(_),      \* what a set of changes means: the field values it shows
  Less(_, _)    \* the order on changes

VARIABLES
  written,   \* every change ever written by any device
  known,     \* known[d]: the changes device d has taken into account
  shown      \* shown[d]: the field values device d shows

libVars == <<written, known, shown>>

LibInit ==
  /\ written = {}
  /\ known = [d \in Devices |-> {}]
  /\ shown = [d \in Devices |-> View({})]

\* What d shows follows from what it knows, and nobody else's view moves.
Showing(d) == shown' = [shown EXCEPT ![d] = View(known'[d])]

\* A device writes: the change orders after everything the device knew.
LibWrite(d) ==
  \E e \in written' \ written :
    /\ written' = written \cup {e}
    /\ e.dev = d
    /\ \A k \in known[d] : Less(k, e)
    /\ known' = [known EXCEPT ![d] = @ \cup {e}]
    /\ Showing(d)

\* A device learns some of the changes others wrote.
LibLearn(d) ==
  /\ known'[d] \subseteq written
  /\ known[d] \subseteq known'[d]
  /\ known' = [known EXCEPT ![d] = known'[d]]
  /\ Showing(d)
  /\ UNCHANGED written

LibNext == \E d \in Devices : LibWrite(d) \/ LibLearn(d)

LibSpec == LibInit /\ [][LibNext]_libVars
=============================================================================
