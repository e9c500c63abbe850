------------------------ MODULE PredecessorQueries -------------------------
(***************************************************************************)
(* What the query layer of the PDR engine promises its caller: a          *)
(* predecessor query or a bad-state query is answered from the frames as   *)
(* they are now, whatever was asked, remembered, shared or evicted before. *)
(* The solvers, the stores and the batches that share them appear only in  *)
(* PredecessorCache, which implements this specification.                  *)
(***************************************************************************)
EXTENDS Integers

CONSTANTS States,     \* the valuations of the state symbols
          Levels,     \* the frame numbers, 0 is the startup frontier
          Targets,    \* the cubes PDR asks about
          Cube,      \* Cube[c] is the set of states of cube c
          Image       \* Image[s] is the successor of state s

VARIABLES region,     \* region[l]: the states of the source frame F[l]
          wrong,      \* wrong[l]: the states of F[l] that are bad
          answer      \* the answer to the last query

(* The states of F[l] that step into the cube; when the query is relative *)
(* to the cube itself the cube's own states do not count.                 *)
Predecessors(l, cube, exclude) ==
  {s \in region[l] : Image[s] \in Cube[cube] /\ (exclude => s \notin Cube[cube])}

Silent == [kind |-> "none"]

Init == /\ region \in [Levels -> SUBSET States]
        /\ wrong \in [Levels -> SUBSET States]
        /\ answer = Silent

(* A query with a model names one predecessor; without one only its status *)
(* is known; a budget may end a query without an answer.                   *)
AskPredecessor ==
  \E l \in Levels, cube \in Targets, exclude \in BOOLEAN :
    LET preds == Predecessors(l, cube, exclude)
        query == [kind |-> "pred", level |-> l, cube |-> cube, exclude |-> exclude]
    IN /\ answer' \in {[query |-> query, result |-> "unknown"]}
                  \cup (IF preds = {} THEN {[query |-> query, result |-> "unsat"]} ELSE {})
                  \cup {[query |-> query, result |-> "sat"] : s \in preds}
                  \cup {[query |-> query, result |-> "sat", model |-> s] : s \in preds}
       /\ UNCHANGED <<region, wrong>>

AskBad ==
  \E l \in Levels :
    LET query == [kind |-> "bad", level |-> l]
    IN /\ answer' \in {[query |-> query, result |-> "unknown"]}
                  \cup (IF wrong[l] = {} THEN {[query |-> query, result |-> "unsat"]} ELSE {})
                  \cup {[query |-> query, result |-> "sat", model |-> s] : s \in wrong[l]}
       /\ UNCHANGED <<region, wrong>>

(* Learning only strengthens a frame. *)
Strengthen == /\ region' \in [Levels -> SUBSET States]
              /\ wrong' \in [Levels -> SUBSET States]
              /\ \A l \in Levels : region'[l] \subseteq region[l] /\ wrong'[l] \subseteq wrong[l]
              /\ answer' = Silent

(* The next output batch starts from frames of its own and keeps F[0]. *)
NextBatch == /\ answer' = Silent
             /\ region' \in [Levels -> SUBSET States] /\ region'[0] = region[0]
             /\ wrong' \in [Levels -> SUBSET States]

Next == AskPredecessor \/ AskBad \/ Strengthen \/ NextBatch

Spec == Init /\ [][Next]_<<region, wrong, answer>>
=============================================================================
