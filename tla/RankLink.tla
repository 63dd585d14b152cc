------------------------------- MODULE RankLink -------------------------------
(***************************************************************************)
(* Modes tp2 and dflash of generate_text (src/src/text_forward.cpp): the   *)
(* parent (rank 0) forks a child (rank 1), both run the same decoder over  *)
(* a socket pair, exchanging the row halves of every GEMV, then the child  *)
(* reports its tokens and the parent reaps it and compares.                *)
(*                                                                         *)
(* The link carries cells, WordCells of them to a 4-byte value.  A cell is *)
(* tagged with the transfer it was sent for, Marker for the cells of the   *)
(* -1 a failing child sends.  A transfer moves cell by cell and either     *)
(* side may stall, throw or, the child, be killed between any two cells.   *)
(***************************************************************************)
EXTENDS Integers, Sequences

CONSTANTS
  Gathers,      \* gather_rows calls of a run, the last one for the last argmax
  Rows,         \* rows of a gathered vector
  TokenCount,   \* ids the child reports
  DraftCounts,  \* proposals a child may report (0 in tp2, 7 in dflash)
  WordCells,    \* cells of one value
  Capacity      \* cells a socket buffer holds

ASSUME RankLinkAssumption ==
  /\ Gathers \in Nat \ {0} /\ Rows \in Nat \ {0}
  /\ TokenCount \in Nat \ {0} /\ DraftCounts \subseteq Nat
  /\ WordCells \in Nat \ {0} /\ Capacity \in Nat \ {0}

Rank == {0, 1}
Parent == 0
Child == 1
Peer(r) == 1 - r
Marker == 0

VARIABLES
  drafts,   \* proposals the child reports in this run, by its mode
  pc,       \* parent: "fork", "reset", "run", "reap", "done"
            \* child: "absent", "reset", "run", "abort", "exited"
  at,       \* the transfer each rank is at
  moved,    \* cells of it moved so far
  wire,     \* cells on their way to each rank, oldest first
  holders,  \* processes holding a descriptor of each rank's end
  dirty,    \* the rank took a cell that was not meant for its transfer
  payloadOk,\* no count the parent read was out of range
  throwing, \* the parent is unwinding an exception
  exit,     \* the child's status: "none", "ok", "failed", "killed"
  outcome   \* "running", "ok", "mismatch", "threw", "refused"

vars == <<drafts, pc, at, moved, wire, holders, dirty, payloadOk, throwing, exit, outcome>>

-----------------------------------------------------------------------------
(* The program both ranks follow: two transfers per gather_rows, then the  *)
(* child's report: count, ids, accept, draft count, drafts.                *)
Report == <<1, TokenCount, 1, 1, drafts>>
FirstReport == 2 * Gathers + 1
LastTransfer == 2 * Gathers + Len(Report)

(* Rank 0 keeps rows [0, mid), rank 1 the rest. *)
Mine(r) == IF r = Parent THEN Rows \div 2 ELSE Rows - Rows \div 2

(* Slip: both ranks send first. *)
BothSendFirst(r, i) == IF i < FirstReport THEN i % 2 = 1 ELSE r = Child

(* In a gather rank 0 sends first and rank 1 receives first. *)
Sends(r, i) ==
  IF i < FirstReport THEN (i % 2 = 1) <=> (r = Parent) ELSE r = Child

(* Slip: the larger half of an odd number of rows is taken for the smaller. *)
CellsOfHalf(r, i) ==
  WordCells * (IF i >= FirstReport THEN Report[i - FirstReport + 1]
               ELSE IF Sends(r, i) THEN Mine(r) ELSE Rows \div 2)

Cells(r, i) ==
  WordCells * (IF i >= FirstReport THEN Report[i - FirstReport + 1]
               ELSE IF Sends(r, i) THEN Mine(r) ELSE Mine(Peer(r)))

Moving(r) == pc[r] = "run" /\ at[r] <= LastTransfer /\ moved[r] < Cells(r, at[r])
Sending(r) == Moving(r) /\ Sends(r, at[r])
Receiving(r) == Moving(r) /\ ~Sends(r, at[r])

(* The kernel reports a peer as gone when nobody holds its end. *)
Gone(r) == holders[r] = {}
Full(r) == Len(wire[r]) >= Capacity

-----------------------------------------------------------------------------
Init ==
  /\ drafts \in DraftCounts
  /\ pc = [r \in Rank |-> IF r = Parent THEN "fork" ELSE "absent"]
  /\ at = [r \in Rank |-> 1]
  /\ moved = [r \in Rank |-> 0]
  /\ wire = [r \in Rank |-> << >>]
  /\ holders = [r \in Rank |-> {Parent}]
  /\ dirty = [r \in Rank |-> FALSE]
  /\ payloadOk = TRUE /\ throwing = FALSE
  /\ exit = "none"
  /\ outcome = "running"

link == <<at, moved, wire, dirty, payloadOk>>

Goto(r, to) == pc' = [pc EXCEPT ![r] = to]
Close(e, p) == holders' = [holders EXCEPT ![e] = @ \ {p}]

(* The child inherits both descriptors. *)
Fork ==
  /\ pc[Parent] = "fork"
  /\ pc' = [r \in Rank |-> "reset"]
  /\ holders' = [r \in Rank |-> {Parent, Child}]
  /\ UNCHANGED <<link, throwing, exit, outcome>>

(* fork() fails, or a socket option does: both descriptors are released. *)
ForkFails ==
  /\ pc[Parent] = "fork"
  /\ Goto(Parent, "done")
  /\ holders' = [r \in Rank |-> {}]
  /\ outcome' = "refused"
  /\ UNCHANGED <<link, throwing, exit>>

(* Slip: the inherited descriptor stays open. *)
KeepPeerEnd(r) ==
  /\ pc[r] = "reset"
  /\ Goto(r, "run")
  /\ UNCHANGED <<link, holders, throwing, exit, outcome>>

(* Each process drops the other rank's end before it touches the link. *)
DropPeerEnd(r) ==
  /\ pc[r] = "reset"
  /\ Goto(r, "run")
  /\ Close(Peer(r), r)
  /\ UNCHANGED <<link, throwing, exit, outcome>>

(* send_all: a cell goes out while the peer is there and has room. *)
SendCell(r) ==
  /\ Sending(r) /\ ~Gone(Peer(r)) /\ ~Full(Peer(r))
  /\ wire' = [wire EXCEPT ![Peer(r)] = Append(@, at[r])]
  /\ moved' = [moved EXCEPT ![r] = @ + 1]
  /\ UNCHANGED <<pc, at, holders, dirty, payloadOk, throwing, exit, outcome>>

(* recv_all: whatever comes next is taken as part of the transfer. *)
RecvCell(r) ==
  /\ Receiving(r) /\ wire[r] # << >>
  /\ wire' = [wire EXCEPT ![r] = Tail(@)]
  /\ moved' = [moved EXCEPT ![r] = @ + 1]
  /\ dirty' = [dirty EXCEPT ![r] = @ \/ Head(wire[r]) # at[r]]
  /\ UNCHANGED <<pc, at, holders, payloadOk, throwing, exit, outcome>>

(* A count or a draft count that took marker bytes is negative: the parent *)
(* reads no further.                                                       *)
Negative(r) == dirty[r] /\ at[r] \in {FirstReport, FirstReport + 3}

(* The transfer is complete.  A rank whose rows were mixed with a foreign  *)
(* cell has other logits and may believe its last token was a stop token.  *)
NextTransfer(r) ==
  /\ pc[r] = "run" /\ at[r] <= LastTransfer /\ moved[r] = Cells(r, at[r])
  /\ \E to \in IF Negative(r) THEN {LastTransfer + 1}
               ELSE IF dirty[r] /\ at[r] < FirstReport THEN {at[r] + 1, FirstReport}
               ELSE {at[r] + 1} :
       at' = [at EXCEPT ![r] = to]
  /\ moved' = [moved EXCEPT ![r] = 0]
  /\ payloadOk' = (payloadOk /\ ~Negative(r))
  /\ UNCHANGED <<pc, wire, holders, dirty, throwing, exit, outcome>>

-----------------------------------------------------------------------------
(* Why a rank's decoder throws: its deadline passes during a transfer, the *)
(* peer is gone (EPIPE, end of file, or a reset because it left data       *)
(* unread), or its own computation fails between transfers.                *)
DeadlinePasses(r) == Moving(r)
PeerGone(r) ==
  \/ Sending(r) /\ Gone(Peer(r))
  \/ Receiving(r) /\ Gone(Peer(r)) /\ (wire[r] = << >> \/ wire[Peer(r)] # << >>)
ComputeFails(r) == pc[r] = "run" /\ moved[r] = 0 /\ at[r] < FirstReport

Throws(r) == DeadlinePasses(r) \/ PeerGone(r) \/ ComputeFails(r)

(* Slip: the handler leaves the link open. *)
ParentThrowsOpen ==
  /\ Throws(Parent)
  /\ Goto(Parent, "reap")
  /\ throwing' = TRUE
  /\ UNCHANGED <<link, holders, exit, outcome>>

(* The parent's handler closes its end, then waits for the child. *)
ParentThrows ==
  /\ Throws(Parent)
  /\ Goto(Parent, "reap")
  /\ Close(Parent, Parent)
  /\ throwing' = TRUE
  /\ UNCHANGED <<link, exit, outcome>>

(* The child's handler tries to send a count of -1 in its turn. *)
ChildThrows ==
  /\ Throws(Child)
  /\ Goto(Child, "abort")
  /\ moved' = [moved EXCEPT ![Child] = 0]
  /\ UNCHANGED <<at, wire, holders, dirty, payloadOk, throwing, exit, outcome>>

SendMarker ==
  /\ pc[Child] = "abort" /\ moved[Child] < WordCells
  /\ ~Gone(Parent) /\ ~Full(Parent)
  /\ wire' = [wire EXCEPT ![Parent] = Append(@, Marker)]
  /\ moved' = [moved EXCEPT ![Child] = @ + 1]
  /\ UNCHANGED <<pc, at, holders, dirty, payloadOk, throwing, exit, outcome>>

(* _exit closes every descriptor the child holds. *)
ChildLeaves(status) ==
  /\ Goto(Child, "exited")
  /\ holders' = [r \in Rank |-> holders[r] \ {Child}]
  /\ exit' = status
  /\ UNCHANGED <<link, throwing, outcome>>

ChildFinishes == pc[Child] = "run" /\ at[Child] > LastTransfer /\ ChildLeaves("ok")

(* Slip: a failed child starts over instead of leaving. *)
ChildRetries ==
  /\ pc[Child] = "abort"
  /\ Goto(Child, "run")
  /\ moved' = [moved EXCEPT ![Child] = 0]
  /\ UNCHANGED <<at, wire, holders, dirty, payloadOk, throwing, exit, outcome>>

(* The marker is sent, or its send failed and was ignored. *)
ChildAborts == pc[Child] = "abort" /\ ChildLeaves("failed")

(* A signal, at any time. *)
ChildKilled == pc[Child] \in {"reset", "run", "abort"} /\ ChildLeaves("killed")

-----------------------------------------------------------------------------
ParentClosesLink ==
  /\ pc[Parent] = "run" /\ at[Parent] > LastTransfer
  /\ Goto(Parent, "reap")
  /\ Close(Parent, Parent)
  /\ UNCHANGED <<link, throwing, exit, outcome>>

(* Slip: the child's status is ignored. *)
AgreedOnTokens == payloadOk /\ ~dirty[Parent]

(* waitpid returns; both ranks computed their ids from the same gathered   *)
(* rows unless a foreign cell got into the parent's.                       *)
Agreed == exit = "ok" /\ payloadOk /\ ~dirty[Parent]

Reap ==
  /\ pc[Parent] = "reap" /\ exit # "none"
  /\ Goto(Parent, "done")
  /\ outcome' = IF throwing THEN "threw" ELSE IF Agreed THEN "ok" ELSE "mismatch"
  /\ UNCHANGED <<link, holders, throwing, exit>>

Stopped == pc[Parent] = "done" /\ UNCHANGED vars

ParentNext ==
  /\ \/ Fork \/ ForkFails \/ DropPeerEnd(Parent)
     \/ SendCell(Parent) \/ RecvCell(Parent) \/ NextTransfer(Parent)
     \/ ParentThrows \/ ParentClosesLink \/ Reap
  /\ UNCHANGED drafts

ChildNext ==
  /\ \/ DropPeerEnd(Child)
     \/ SendCell(Child) \/ RecvCell(Child) \/ NextTransfer(Child)
     \/ ChildThrows \/ SendMarker \/ ChildFinishes \/ ChildAborts
  /\ UNCHANGED drafts

Next == ParentNext \/ ChildNext \/ (ChildKilled /\ UNCHANGED drafts) \/ Stopped

Spec == Init /\ [][Next]_vars

(* Both processes keep being scheduled.  Nothing is assumed of the signal, *)
(* and a rank that waits on the link is unblocked by its own deadline.     *)
FairSpec == Spec /\ WF_vars(ParentNext) /\ WF_vars(ChildNext)

-----------------------------------------------------------------------------
(* A rank is waiting in poll() and only the other can end the wait. *)
Blocked(r) ==
  \/ Sending(r) /\ ~Gone(Peer(r)) /\ Full(Peer(r))
  \/ Receiving(r) /\ ~Gone(Peer(r)) /\ wire[r] = << >>

(* The two ranks never wait for each other, however small the buffers are  *)
(* next to a shard: in a gather one sends first and the other receives     *)
(* first, so a deadline passes only because a rank is slow                 *)
(* (text_forward.cpp:242-256).                                             *)
NoMutualWait == ~(Blocked(Parent) /\ Blocked(Child))

(* A rank whose peer is gone is told so at once instead of waiting out its *)
(* 30 seconds: no process keeps a descriptor that would hide the end of    *)
(* the stream (text_forward.cpp:1912, 1944, 1975, 2024).                   *)
GonePeerIsNoticed ==
  /\ pc[Parent] \in {"reap", "done"} => ~Blocked(Child)
  /\ pc[Child] = "exited" => ~Blocked(Parent)

(* The ranks' rows are never mixed up: a cell is only ever taken by the    *)
(* transfer it was sent for.  The one exception is the -1 of a failing     *)
(* child, which the parent may take for row data (text_forward.cpp:        *)
(* 1933-1940), and then the child's status is a failure.                   *)
RowsStayInStep ==
  /\ ~dirty[Child]
  /\ dirty[Parent] => pc[Child] = "abort" \/ exit \in {"failed", "killed"}
  /\ \A r \in Rank : \A i \in 1..Len(wire[r]) :
       wire[r][i] # Marker => wire[r][i] >= at[r]

(* ok is reported only for two complete runs: the child sent its whole     *)
(* report and left with status 0, and no foreign cell reached the parent's *)
(* logits or the report.  A rank mismatch is never reported of two healthy *)
(* ranks: it means that the child failed (text_forward.cpp:1953-1995).     *)
VerdictIsTruthful ==
  /\ outcome = "ok" =>
       /\ exit = "ok"
       /\ ~dirty[Parent] /\ ~dirty[Child]
       /\ at[Parent] > LastTransfer /\ at[Child] > LastTransfer
       /\ wire = [r \in Rank |-> << >>]
  /\ outcome = "mismatch" => exit \in {"failed", "killed"}

(* On every way out, exceptions included, the child is reaped and no       *)
(* descriptor of the link is left open (text_forward.cpp:1975-1976,        *)
(* 2023-2027).                                                             *)
NothingLeftBehind ==
  outcome # "running" =>
    /\ holders = [r \in Rank |-> {}]
    /\ pc[Child] \in {"absent", "exited"}

(* generate_text always comes back: the blocking waitpid included. *)
Returns == <>(outcome # "running")
=============================================================================
