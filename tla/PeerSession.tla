------------------------------ MODULE PeerSession ------------------------------
(***************************************************************************)
(* generate_text_peer and open_peer_socket (src/src/text_forward.cpp): one *)
(* generation on two hosts.  Rank 0 listens, rank 1 dials and retries; both*)
(* then decode over the connection, exchanging the halves of every gathered*)
(* vector, send each other their ids and compare.  Each host was started   *)
(* with its own new_tokens and opens its own copy of the checkpoint, and   *)
(* either may be slow or fail at any point.                                *)
(*                                                                         *)
(* The connection carries 4-byte words: a row, a count or an id.  The      *)
(* receiver cannot tell them apart.  The one thing assumed of row data is  *)
(* that its bits do not spell token ids.                                   *)
(***************************************************************************)
EXTENDS Integers, Sequences

CONSTANTS
  Token,        \* token ids
  Eos,          \* stop tokens
  MaxBudget,    \* largest new_tokens (8)
  Gathers,      \* gather_rows calls for one token
  Rows,         \* rows of a gathered vector (hundreds)
  Capacity,     \* words a socket buffer holds
  Backlog,      \* connections the listening socket keeps waiting
  MaxAttempts   \* connection attempts before rank 1's 120 seconds are over

ASSUME PeerAssumption ==
  /\ Token \subseteq Nat /\ Eos \subseteq Token
  /\ MaxBudget \in Nat \ {0} /\ Gathers \in Nat \ {0} /\ Rows \in Nat \ (0..2)
  /\ Capacity \in Nat \ {0} /\ Backlog \in Nat \ {0} /\ MaxAttempts \in Nat \ {0}

Rank == {0, 1}
Peer(r) == 1 - r

VARIABLES
  budget,   \* new_tokens of each host
  truth,    \* the ids rank 0's checkpoint leads to
  odd,      \* rank 1's checkpoint is not rank 0's
  phase,    \* rank 0: "start", "listen"; rank 1: "dial", "dialing";
            \* both: "rows", "ids", "over"
  attempt,  \* the connection rank 1 is trying
  queue,    \* established connections rank 0 has not accepted
  link,     \* the connection each rank has open, 0 for none
  step,     \* transfer of the token, or of the final exchange
  moved,    \* words of it moved so far
  wire,     \* words on their way to each rank
  dirty,    \* the rank took a foreign word for a row
  tokens,   \* ids generated
  claim,    \* the count received from the other host
  got,      \* ids received from the other host
  outcome   \* "running", "ok", "mismatch", "threw"

vars == <<budget, truth, odd, phase, attempt, queue, link, step, moved, wire,
          dirty, tokens, claim, got, outcome>>

input == <<budget, truth, odd>>
opening == <<attempt, queue>>
data == <<step, moved, wire, dirty, tokens, claim, got>>

Waiting == {queue[i] : i \in 1..Len(queue)}

Init ==
  /\ budget \in [Rank -> 1..MaxBudget]
  /\ truth \in [1..MaxBudget -> Token]
  /\ odd \in BOOLEAN
  /\ phase = [r \in Rank |-> IF r = 0 THEN "start" ELSE "dial"]
  /\ attempt = 1 /\ queue = << >>
  /\ link = [r \in Rank |-> 0]
  /\ step = [r \in Rank |-> 1] /\ moved = [r \in Rank |-> 0]
  /\ wire = [r \in Rank |-> << >>]
  /\ dirty = [r \in Rank |-> FALSE]
  /\ tokens = [r \in Rank |-> << >>]
  /\ claim = [r \in Rank |-> 0] /\ got = [r \in Rank |-> << >>]
  /\ outcome = [r \in Rank |-> "running"]

Goto(r, to) == phase' = [phase EXCEPT ![r] = to]

(* The rank leaves; its SocketFd closes the connection. *)
Leave(r, result) ==
  /\ Goto(r, "over")
  /\ outcome' = [outcome EXCEPT ![r] = result]
  /\ link' = [link EXCEPT ![r] = 0]

-----------------------------------------------------------------------------
(* open_peer_socket, rank 0. *)
Listen ==
  /\ phase[0] = "start"
  /\ Goto(0, "listen")
  /\ UNCHANGED <<input, opening, link, data, outcome>>

(* The socket, its address, bind or listen. *)
ListenFails ==
  /\ phase[0] = "start"
  /\ Leave(0, "threw")
  /\ UNCHANGED <<input, opening, data>>

(* The oldest waiting connection is taken, whether or not rank 1 still has *)
(* it, and the listening socket is closed: the others are reset.           *)
Accept ==
  /\ phase[0] = "listen" /\ queue # << >>
  /\ Goto(0, "rows")
  /\ link' = [link EXCEPT ![0] = Head(queue)]
  /\ queue' = << >>
  /\ UNCHANGED <<input, attempt, data, outcome>>

(* Slip: accept is polled without a deadline. *)
AcceptPollsOn == phase[0] = "listen" /\ UNCHANGED vars

(* 180 seconds are over, or poll or accept fails. *)
AcceptTimeout ==
  /\ phase[0] = "listen"
  /\ Leave(0, "threw")
  /\ queue' = << >>
  /\ UNCHANGED <<input, attempt, data>>

(* Rank 1: a fresh socket for every attempt. *)
Dial ==
  /\ phase[1] = "dial" /\ attempt <= MaxAttempts
  /\ Goto(1, "dialing")
  /\ link' = [link EXCEPT ![1] = attempt]
  /\ UNCHANGED <<input, opening, data, outcome>>

(* The kernels complete a handshake without either program. *)
Establish ==
  /\ phase[0] = "listen" /\ phase[1] = "dialing"
  /\ attempt \notin Waiting /\ Len(queue) <= Backlog
  /\ queue' = Append(queue, attempt)
  /\ UNCHANGED <<input, phase, attempt, link, data, outcome>>

Connected ==
  /\ phase[1] = "dialing"
  /\ attempt \in Waiting \/ link[0] = attempt
  /\ Goto(1, "rows")
  /\ UNCHANGED <<input, opening, link, data, outcome>>

(* The attempt is refused, or a second passes: the socket is closed even   *)
(* if the handshake has just been completed.                               *)
GiveUp ==
  /\ phase[1] = "dialing"
  /\ Goto(1, "dial")
  /\ link' = [link EXCEPT ![1] = 0]
  /\ attempt' = attempt + 1
  /\ UNCHANGED <<input, queue, data, outcome>>

(* 120 seconds are over, or a socket cannot be made or bound. *)
ConnectTimeout ==
  /\ phase[1] = "dial"
  /\ Leave(1, "threw")
  /\ UNCHANGED <<input, opening, data>>

-----------------------------------------------------------------------------
(* Transfers.  For each token, 2 * Gathers of rows; then count and ids of  *)
(* rank 0, count and ids of rank 1.                                        *)

Busy(r) == phase[r] \in {"rows", "ids"}

Mine(r) == IF r = 0 THEN Rows \div 2 ELSE Rows - Rows \div 2

(* Slip: both ranks receive first. *)
BothReceiveFirst(r) == IF phase[r] = "rows" THEN step[r] % 2 = 0 ELSE step[r] > 2

Sends(r) ==
  IF phase[r] = "rows" THEN (step[r] % 2 = 1) <=> (r = 0)
  ELSE (step[r] <= 2) <=> (r = 0)

IsCount(r) == phase[r] = "ids" /\ step[r] % 2 = 1

Size(r) ==
  CASE phase[r] = "rows" -> IF Sends(r) THEN Mine(r) ELSE Mine(Peer(r))
    [] IsCount(r) -> 1
    [] OTHER -> IF Sends(r) THEN Len(tokens[r]) ELSE claim[r]

Row(n, s) == <<"row", n, s>>
Value(word) == IF word[1] = "row" THEN -1 ELSE word[2]

(* The word a rank sends next, and, in a gather, the one it should receive.*)
Word(r) ==
  CASE phase[r] = "rows" -> Row(Len(tokens[r]) + 1, step[r])
    [] IsCount(r) -> <<"count", Len(tokens[r]), 0>>
    [] OTHER -> <<"id", tokens[r][moved[r] + 1], 0>>

Moving(r) == Busy(r) /\ moved[r] < Size(r)
Sending(r) == Moving(r) /\ Sends(r)
Receiving(r) == Moving(r) /\ ~Sends(r)

(* Nobody holds, or will accept, the other end of the rank's connection. *)
Gone(r) == link[Peer(r)] # link[r] /\ link[r] \notin Waiting
Full(r) == Len(wire[r]) >= Capacity

(* A word sent to a host that has closed its end is taken and lost. *)
SendWord(r) ==
  /\ Sending(r) /\ ~Full(Peer(r))
  /\ wire' = IF Gone(r) THEN wire ELSE [wire EXCEPT ![Peer(r)] = Append(@, Word(r))]
  /\ moved' = [moved EXCEPT ![r] = @ + 1]
  /\ UNCHANGED <<input, phase, opening, link, step, dirty, tokens, claim, got, outcome>>

(* What a count reads as: row data can be any number. *)
Counts(r, word) == IF word[1] = "row" THEN 0..(budget[r] + 1) ELSE {Value(word)}

RecvWord(r) ==
  /\ Receiving(r) /\ wire[r] # << >>
  /\ LET word == Head(wire[r])
     IN  CASE phase[r] = "rows" ->
                /\ dirty' = [dirty EXCEPT ![r] = @ \/ word # Word(r)]
                /\ UNCHANGED <<claim, got>>
           [] IsCount(r) ->
                /\ \E count \in Counts(r, word) : claim' = [claim EXCEPT ![r] = count]
                /\ UNCHANGED <<dirty, got>>
           [] OTHER ->
                /\ got' = [got EXCEPT ![r] = Append(@, Value(word))]
                /\ UNCHANGED <<dirty, claim>>
  /\ wire' = [wire EXCEPT ![r] = Tail(@)]
  /\ moved' = [moved EXCEPT ![r] = @ + 1]
  /\ UNCHANGED <<input, phase, opening, link, step, tokens, outcome>>

(* "peer token count". *)
BadCount(r) == IsCount(r) /\ ~Sends(r) /\ moved[r] = 1 /\ claim[r] > budget[r]

Finished(r) == Busy(r) /\ moved[r] = Size(r)

NextTransfer(r) ==
  /\ Finished(r) /\ ~BadCount(r)
  /\ step[r] < IF phase[r] = "rows" THEN 2 * Gathers ELSE 4
  /\ step' = [step EXCEPT ![r] = @ + 1]
  /\ moved' = [moved EXCEPT ![r] = 0]
  /\ UNCHANGED <<input, phase, opening, link, wire, dirty, tokens, claim, got, outcome>>

(* Mixed-up rows or another checkpoint can lead to any id. *)
NextIds(r) ==
  IF dirty[r] \/ (r = 1 /\ odd) THEN Token ELSE {truth[Len(tokens[r]) + 1]}

NextToken(r) ==
  /\ phase[r] = "rows" /\ Finished(r) /\ step[r] = 2 * Gathers
  /\ \E id \in NextIds(r) :
       /\ tokens' = [tokens EXCEPT ![r] = Append(@, id)]
       /\ Goto(r, IF id \in Eos \/ Len(tokens[r]) + 1 = budget[r] THEN "ids" ELSE "rows")
  /\ step' = [step EXCEPT ![r] = 1]
  /\ moved' = [moved EXCEPT ![r] = 0]
  /\ UNCHANGED <<input, opening, link, wire, dirty, claim, got, outcome>>

(* Slips: only the lengths are compared; only rank 1 compares. *)
SameLength(r) == Len(got[r]) = Len(tokens[r])
RankOneMatches(r) == r = 1 => got[r] = tokens[r]

Matches(r) == got[r] = tokens[r]

Compare(r) ==
  /\ phase[r] = "ids" /\ Finished(r) /\ step[r] = 4
  /\ Leave(r, IF Matches(r) THEN "ok" ELSE "mismatch")
  /\ UNCHANGED <<input, opening, data>>

(* A deadline passes during a transfer, the other end is gone, the local   *)
(* computation fails, or the count is out of range.                        *)
PeerGone(r) ==
  /\ Moving(r) /\ Gone(r)
  /\ Sends(r) \/ wire[r] = << >> \/ wire[Peer(r)] # << >>
ComputeFails(r) == phase[r] = "rows" /\ moved[r] = 0

Throw(r) ==
  /\ Moving(r) \/ PeerGone(r) \/ ComputeFails(r) \/ BadCount(r)
  /\ Leave(r, "threw")
  /\ UNCHANGED <<input, opening, data>>

Decode(r) ==
  SendWord(r) \/ RecvWord(r) \/ NextTransfer(r) \/ NextToken(r) \/ Compare(r) \/ Throw(r)

Rank0Next == Listen \/ ListenFails \/ Accept \/ AcceptTimeout \/ Decode(0)
Rank1Next == Dial \/ Connected \/ GiveUp \/ ConnectTimeout \/ Decode(1)
Stopped == phase[0] = "over" /\ phase[1] = "over" /\ UNCHANGED vars

Next == Rank0Next \/ Rank1Next \/ Establish \/ Stopped

Spec == Init /\ [][Next]_vars

(* Both programs keep being scheduled; the network owes nothing. *)
FairSpec == Spec /\ WF_vars(Rank0Next) /\ WF_vars(Rank1Next)

-----------------------------------------------------------------------------
Complete(r) == tokens[r] # << >> /\
  (Len(tokens[r]) = budget[r] \/ tokens[r][Len(tokens[r])] \in Eos)

(* ok on either host means that both generated the same complete list from *)
(* rows that were never mixed up, whatever the two hosts were started with *)
(* (text_forward.cpp:1819-1848).                                           *)
OkMeansSameTokens ==
  \A r \in Rank : outcome[r] = "ok" =>
    /\ tokens[0] = tokens[1] /\ Complete(0) /\ Complete(1)
    /\ ~dirty[0] /\ ~dirty[1]

(* The exchange has no acknowledgement, so one host may throw after the    *)
(* other was satisfied, but two verdicts never contradict each other, and  *)
(* rank 0, which hears last, says ok only when rank 1 already agreed       *)
(* (text_forward.cpp:1824-1848).                                           *)
VerdictsNeverContradict ==
  /\ \A r \in Rank : outcome[r] = "ok" => outcome[Peer(r)] # "mismatch"
  /\ outcome[0] = "ok" => outcome[1] # "threw"

(* The hosts were started alike. *)
Alike == budget[0] = budget[1] /\ ~odd

(* The decoders have come apart: one has, or will have, fewer tokens. *)
Apart ==
  \/ budget[0] # budget[1]
  \/ \E i \in 1..MaxBudget :
       i <= Len(tokens[0]) /\ i <= Len(tokens[1]) /\ tokens[0][i] # tokens[1][i]

Blocked(r) ==
  /\ Moving(r) /\ ~Gone(r)
  /\ IF Sends(r) THEN Full(Peer(r)) ELSE wire[r] = << >>

(* Whatever goes wrong between two hosts is about the hosts and never      *)
(* about the network, however often the connection was retried or given    *)
(* up: a mismatch is not reported of two that were started alike; a rank   *)
(* takes a foreign word for a row, and two wait for each other and so for  *)
(* a deadline, only after their decoders came apart                        *)
(* (text_forward.cpp:242-256, 1767-1815, 1847).                            *)
OnlyUnalikeHostsComeApart ==
  /\ (\E r \in Rank : outcome[r] = "mismatch") => ~Alike
  /\ dirty[0] \/ dirty[1] => Apart
  /\ Blocked(0) /\ Blocked(1) /\ link[0] = link[1] => Apart

(* Both hosts always come back with a result or an exception: accept,      *)
(* connect and every transfer have a deadline.                             *)
BothReturn == <>(outcome[0] # "running" /\ outcome[1] # "running")
=============================================================================
