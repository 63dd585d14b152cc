------------------------------ MODULE Selection ------------------------------
(***************************************************************************)
(* The three scans of text_forward.cpp that order scores: router_select    *)
(* and the candidates of propose_dflash pick the best that is not used     *)
(* yet, again and again; argmax finds the best and the second best on one  *)
(* way through the logits.  NaN compares false with everything.            *)
(***************************************************************************)
EXTENDS Integers, Sequences, Functions

CONSTANTS
  Count,  \* scores
  Top,    \* picks
  Levels, \* what a score can be
  Floor   \* below every level: -1e30, what argmax's second starts from

NaN == Floor - 1  \* no level: see Greater

ASSUME SelectionAssumption ==
  /\ Count \in Nat \ {0} /\ Top \in 1 .. Count
  /\ Floor \in Int /\ Levels \subseteq Int /\ \A level \in Levels : level > Floor

Ids == 1 .. Count

VARIABLES
  scores,  \* [Ids -> score]
  picks,   \* the ids picked so far
  nextId,  \* next id of the scan for the next pick
  best,    \* the best unused id before `nextId', 0 when there is none yet
  nextRow, \* next row of argmax
  top      \* [best, second, value], after the rows before `nextRow'

selectionVars == <<scores, picks, nextId, best, nextRow, top>>

(* a > b of floats; the floor of argmax is a number. *)
Greater(a, b) == a # NaN /\ b # NaN /\ a > b

SelectionInit ==
  /\ scores \in [Ids -> Levels \cup {NaN}]
  /\ picks = << >> /\ nextId = 1 /\ best = 0 /\ nextRow = 2
  /\ top = [best |-> 1, second |-> 1, value |-> Floor]

(* Slip: of equal scores the last is taken. *)
LastOnTies(held, id) == held = 0 \/ ~Greater(scores[held], scores[id])

Better(held, id) == held = 0 \/ Greater(scores[id], scores[held])

Used == {picks[i] : i \in DOMAIN picks}

(* One id of the scan for the best that is not used. *)
Look ==
  /\ Len(picks) < Top /\ nextId <= Count
  /\ best' = IF nextId \notin Used /\ Better(best, nextId) THEN nextId ELSE best
  /\ nextId' = nextId + 1
  /\ UNCHANGED <<scores, picks, nextRow, top>>

(* The end of the scan; the next pick begins another. *)
Pick ==
  /\ Len(picks) < Top /\ nextId > Count
  /\ picks' = Append(picks, best)
  /\ best' = 0 /\ nextId' = 1
  /\ UNCHANGED <<scores, nextRow, top>>

TopAfter(id) ==
  IF Greater(scores[id], scores[top.best])
  THEN [best |-> id, second |-> top.best, value |-> scores[top.best]]
  ELSE IF Greater(scores[id], top.value) THEN [top EXCEPT !.second = id, !.value = scores[id]]
  ELSE top

ScanRow ==
  /\ nextRow <= Count
  /\ top' = TopAfter(nextRow) /\ nextRow' = nextRow + 1
  /\ UNCHANGED <<scores, picks, nextId, best>>

SelectionRest == Len(picks) = Top /\ nextRow > Count /\ UNCHANGED selectionVars

SelectionNext == Look \/ Pick \/ ScanRow \/ SelectionRest

SelectionSpec == SelectionInit /\ [][SelectionNext]_selectionVars

-----------------------------------------------------------------------------
Numbers == \A id \in Ids : scores[id] # NaN
Before(a, b) == scores[a] > scores[b] \/ (scores[a] = scores[b] /\ a < b)

(* No id is picked twice, NaN or not, and of numbers the picks are the     *)
(* best in order, the lower id first among equals: experts and candidates  *)
(* do not depend on the order of equal scores (text_forward.cpp:1447-1471, *)
(* 1394-1406).  And the token argmax returns is the first candidate the    *)
(* draft would have seen in the same logits, NaN among them or not; the    *)
(* margin it leaves behind is that of the first two (668-695).             *)
PicksAreRanked ==
  /\ IsInjective(picks) /\ Used \subseteq Ids
  /\ Numbers => \A i \in DOMAIN picks : \A id \in Ids \ {picks[j] : j \in 1 .. i} :
                  Before(picks[i], id)
  /\ nextRow > Count /\ picks # << >> => top.best = picks[1]
  /\ nextRow > Count /\ Numbers /\ Len(picks) >= 2 =>
       top.second = picks[2] /\ top.value = scores[picks[2]]
=============================================================================
