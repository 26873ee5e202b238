------------------------------ MODULE TxnStore ------------------------------
(***************************************************************************)
(* What the storage engine promises its callers, with no pages, frames or  *)
(* log: one transaction at a time works on a copy of the store, a commit   *)
(* publishes the copy at one instant, a rollback or a crash discards it,   *)
(* and a restart brings back the published store. The one weakness the     *)
(* engine has is part of the promise: a word that only rolled-back         *)
(* transactions wrote since the last checkpoint is "tainted", and a        *)
(* restart may give it any content.                                        *)
(***************************************************************************)
CONSTANTS
  Cells,    \* words
  Groups,   \* sets of words that are dropped together (files)
  Values,   \* contents of a word
  Zero      \* the content of a word of a dropped or fresh file

VARIABLES
  store,    \* the published contents
  work,     \* what a reader sees
  status,   \* "idle", "open", "aborting" or "down"
  touched,  \* words the transaction in progress has written
  tainted   \* words a restart may not bring back

storeVars == <<store, work, status, touched, tainted>>

Init ==
  /\ store = [c \in Cells |-> Zero]
  /\ work = store
  /\ status = "down"
  /\ touched = {}
  /\ tainted = {}

Begin ==
  /\ status = "idle"
  /\ status' = "open"
  /\ UNCHANGED <<store, work, touched, tainted>>

\* The open transaction writes some words.
Write ==
  /\ status = "open" /\ status' = "open"
  /\ work' \in [Cells -> Values]
  /\ touched \subseteq touched' /\ touched' \subseteq Cells
  /\ \A c \in Cells \ touched' : work'[c] = work[c]
  /\ UNCHANGED <<store, tainted>>

\* The open transaction drops a file: its words read as Zero if it commits.
Drop(g) ==
  /\ status = "open" /\ status' = "open"
  /\ work' = [c \in Cells |-> IF c \in g THEN Zero ELSE work[c]]
  /\ UNCHANGED <<store, touched, tainted>>

\* A commit publishes everything at once and heals what it wrote.
Publish ==
  /\ status = "open"
  /\ status' = "idle"
  /\ store' = work
  /\ work' = work
  /\ touched' = {}
  /\ tainted' \subseteq tainted \ touched

Discard ==
  /\ status = "open"
  /\ status' = "aborting"
  /\ work' = store
  /\ UNCHANGED <<store, touched, tainted>>

\* A rollback has ended: what it wrote may be tainted.
Discarded ==
  /\ status = "aborting"
  /\ status' = "idle"
  /\ touched' = {}
  /\ tainted' \subseteq tainted \cup touched
  /\ UNCHANGED <<store, work>>

\* A checkpoint heals every word; a close is a checkpoint and a stop.
Checkpoint ==
  /\ status = "idle"
  /\ status' \in {"idle", "down"}
  /\ tainted' = {}
  /\ UNCHANGED <<store, work, touched>>

\* What the interrupted transaction wrote is restored from the log.
Crash ==
  /\ status # "down"
  /\ status' = "down"
  /\ work' = store
  /\ touched' = {}
  /\ tainted' = tainted \ touched
  /\ UNCHANGED store

Restart ==
  /\ status = "down"
  /\ status' = "idle"
  /\ store' \in [Cells -> Values]
  /\ \A c \in Cells \ tainted : store'[c] = store[c]
  /\ work' = store'
  /\ tainted' = {}
  /\ UNCHANGED touched

Next ==
  \/ Begin \/ Write \/ Publish \/ Discard \/ Discarded \/ Checkpoint \/ Crash \/ Restart
  \/ \E g \in Groups : Drop(g)

Spec == Init /\ [][Next]_storeVars

=============================================================================
