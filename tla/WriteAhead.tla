----------------------------- MODULE WriteAhead -----------------------------
(***************************************************************************)
(* What every read path of the sync engine promises about the pair (state  *)
(* document, destination): progress is claimed in state only for items the *)
(* destination already holds durably, a claim is never withdrawn, and an   *)
(* item that is claimed is never discarded.  This is the contract of       *)
(* StreamWriter.Flush in syncrun/writer.go ("the write-ahead discipline    *)
(* that keeps a crash from losing rows a completed-chunk marker claims are *)
(* present"), stated once; the detailed modules implement it with their    *)
(* own items: rows of a chunk, row versions below a cursor, changes below  *)
(* a log position.                                                         *)
(***************************************************************************)
CONSTANT Items        \* what can be claimed and stored

VARIABLES stored,     \* items the destination holds durably
          claimed     \* items the state document says are done

vars == <<stored, claimed>>

Init == /\ claimed = {}
        /\ stored \subseteq Items

\* The destination gains items.
Store == /\ stored \subseteq stored'
         /\ stored' \subseteq Items
         /\ UNCHANGED claimed

\* The destination is truncated: only what nothing claims may go.
Discard == /\ stored' \subseteq stored
           /\ claimed \subseteq stored'
           /\ UNCHANGED claimed

\* The state document advances over items that are already stored.
Claim == /\ claimed \subseteq claimed'
         /\ claimed' \subseteq stored
         /\ UNCHANGED stored

Next == Store \/ Discard \/ Claim

Spec == Init /\ [][Next]_vars

(***************************************************************************)
(* Nothing is claimed that is not durable: what a crash at any moment must *)
(* leave true for the resumed run to be correct.                           *)
(***************************************************************************)
ClaimedIsStored == claimed \subseteq stored
=============================================================================
