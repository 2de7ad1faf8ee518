--------------------------- MODULE SnapshotService ---------------------------
(***************************************************************************)
(* What the indexer and its database promise to the readers of the active  *)
(* snapshot (src/api/preflight.ts, src/operations/health.ts and the web    *)
(* page, through loadCompleteSnapshot): at any time they are served one    *)
(* snapshot or refused.  While they are served, a new snapshot continues   *)
(* the history of the old one.  Another branch, an earlier source boundary *)
(* or another model version is served only after a refusal, which is what  *)
(* makes a client that saw no refusal entitled to compare two answers.     *)
(***************************************************************************)
EXTENDS BlockHistory

CONSTANT None        \* the readers are refused

VARIABLE served      \* the snapshot the readers are served, or None

(* The events of a snapshot up to a number. *)
EventsThrough(s, n) == {e \in s.events : Height(e) <= n}

(* new continues old: same source boundary, same model version, a head that  *)
(* is the old head or a descendant of it, and the old events unchanged.      *)
Continues(new, old) ==
  /\ new.source = old.source
  /\ new.model = old.model
  /\ IsAncestor(old.through, new.through)
  /\ old.events = EventsThrough(new, Height(old.through))

Init == served = None

Publish ==
  /\ served' # None
  /\ served # None => Continues(served', served)
  /\ served'.events = EventsThrough(served', Height(served'.through))

Withdraw == served' = None

Next == Publish \/ Withdraw

Spec == Init /\ [][Next]_served
=============================================================================
