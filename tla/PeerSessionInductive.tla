------------------------- MODULE PeerSessionInductive -------------------------
(***************************************************************************)
(* What is true between any two steps of the two hosts: the strengthening  *)
(* of PeerSession's safety properties that every step preserves.  A rank's *)
(* place says how many words of a stream it has sent or taken; a wire holds*)
(* the words from the receiver's place on; and what a rank read out of     *)
(* step, it read past the end of the other's rows.                         *)
(***************************************************************************)
EXTENDS PeerSession

(* A rank that has its list is in the final exchange, or left it. *)
Ended(r) == Complete(r)
Length(r) == Len(tokens[r])

(* In a gather rank 0 sends first; its shards before step s of a token. *)
SendsRows(p, s) == (s % 2 = 1) <=> (p = 0)
Shards(p, s) == IF p = 0 THEN s \div 2 ELSE (s - 1) \div 2

(* Words of p's stream: the rows of n tokens, those before word m of step  *)
(* s of the next, and the part of the final exchange before word m of its  *)
(* step s.                                                                 *)
OfTokens(p, n) == n * (Gathers * Mine(p))
OfRows(p, s, m) == Shards(p, s) * Mine(p) + IF SendsRows(p, s) THEN m ELSE 0
OfFinal(p, s, m, n) ==
  IF p = 0 THEN CASE s = 1 -> m [] s = 2 -> 1 + m [] OTHER -> 1 + n
  ELSE CASE s = 3 -> m [] s = 4 -> 1 + m [] OTHER -> 0

PlaceAt(p, n, ended, s, m, len) ==
  OfTokens(p, n) + IF ended THEN OfFinal(p, s, m, len) ELSE OfRows(p, s, m)

(* How far r is in p's stream: what it has sent of its own, what it has    *)
(* taken of its peer's.                                                    *)
Place(p, r) ==
  PlaceAt(p, Length(r), Ended(r), step[r], moved[r], IF p = r THEN Length(r) ELSE claim[r])
Sent(r) == Place(r, r)
Taken(r) == Place(Peer(r), r)

(* Word i of the stream of a rank whose list is n long. *)
RowAt(p, i, word) ==
  \E n \in 0..Length(p), s \in 1..2 * Gathers, m \in 0..Mine(p) - 1 :
    /\ n < Length(p) \/ ~Ended(p)
    /\ SendsRows(p, s)
    /\ i = OfTokens(p, n) + OfRows(p, s, m) + 1
    /\ word = Row(n + 1, s)
CountAt(p, i, word) ==
  Ended(p) /\ i = OfTokens(p, Length(p)) + 1 /\ word = <<"count", Length(p), 0>>
IdAt(p, i, word) ==
  /\ Ended(p)
  /\ \E k \in 1..Length(p) :
       i = OfTokens(p, Length(p)) + 1 + k /\ word = <<"id", tokens[p][k], 0>>
WordAt(p, i, word) == RowAt(p, i, word) \/ CountAt(p, i, word) \/ IdAt(p, i, word)

-----------------------------------------------------------------------------
Words == ({"row"} \X Nat \X Nat) \cup ({"count", "id"} \X Nat \X {0})

Types ==
  /\ budget \in [Rank -> 1..MaxBudget] /\ truth \in [1..MaxBudget -> Token] /\ odd \in BOOLEAN
  /\ phase \in [Rank -> {"start", "listen", "dial", "dialing", "rows", "ids", "over"}]
  /\ attempt \in Nat \ {0} /\ queue \in Seq(Nat) /\ link \in [Rank -> Nat]
  /\ step \in [Rank -> Nat \ {0}] /\ moved \in [Rank -> Nat]
  /\ wire \in [Rank -> Seq(Words)]
  /\ dirty \in [Rank -> BOOLEAN]
  /\ tokens \in [Rank -> Seq(Token)]
  /\ claim \in [Rank -> Nat] /\ got \in [Rank -> Seq(Nat \cup {-1})]
  /\ outcome \in [Rank -> {"running", "ok", "mismatch", "threw"}]

Unstarted(r) ==
  step[r] = 1 /\ moved[r] = 0 /\ tokens[r] = << >> /\ ~dirty[r]

(* Who holds which connection. *)
Opening ==
  /\ phase[0] \in {"start", "listen", "rows", "ids", "over"}
  /\ phase[1] \in {"dial", "dialing", "rows", "ids", "over"}
  /\ \A i \in 1..Len(queue) : queue[i] \in 1..attempt /\ (phase[1] = "dial" => queue[i] < attempt)
  /\ phase[0] # "listen" => queue = << >>
  /\ phase[0] \in {"start", "listen"} => Unstarted(0) /\ Unstarted(1) /\ wire[0] = << >> /\ wire[1] = << >>
  /\ phase[1] \in {"dial", "dialing"} => Unstarted(1)
  /\ link[0] <= attempt /\ (phase[1] = "dial" => link[0] < attempt)
  /\ Busy(0) <=> link[0] # 0
  /\ link[1] = IF phase[1] \in {"dialing", "rows", "ids"} THEN attempt ELSE 0
  /\ \A r \in Rank : outcome[r] = "running" <=> phase[r] # "over"

(* Where a rank can be in its list and in a transfer. *)
LastStep(ended) == IF ended THEN 4 ELSE 2 * Gathers
SendsAt(r, ended, s) == IF ended THEN (s <= 2) <=> (r = 0) ELSE SendsRows(r, s)
SizeAt(r, n, ended, s, count) ==
  IF ~ended THEN IF SendsRows(r, s) THEN Mine(r) ELSE Mine(Peer(r))
  ELSE IF s \in {1, 3} THEN 1
  ELSE IF SendsAt(r, ended, s) THEN n ELSE count
SizeNow(r) == SizeAt(r, Length(r), Ended(r), step[r], claim[r])

Progress ==
  \A r \in Rank :
    /\ Length(r) <= budget[r]
    /\ \A i \in 1..Length(r) - 1 : tokens[r][i] \notin Eos
    /\ Length(r) = budget[r] => Ended(r)
    /\ phase[r] = "rows" => ~Ended(r)
    /\ phase[r] = "ids" => Ended(r)
    /\ step[r] <= LastStep(Ended(r))
    /\ moved[r] <= SizeNow(r)

(* The wires: what was sent and not taken, in order.  Words are lost only  *)
(* once the connection has parted.                                         *)
Inbound(r) ==
  /\ Taken(r) + Len(wire[r]) <= Sent(Peer(r))
  /\ \A k \in 1..Len(wire[r]) : WordAt(Peer(r), Taken(r) + k, wire[r][k])

Streams ==
  /\ \A r \in Rank : Inbound(r)
  /\ link[0] = link[1] /\ link[0] # 0 =>
       \A r \in Rank : Taken(r) + Len(wire[r]) = Sent(Peer(r))

(* r has more rows to read than its peer sends: it is, or was, reading a   *)
(* token that the other host's list does not have.                         *)
Beyond(r) ==
  LET p == Peer(r) IN
  Ended(p) /\ (Length(p) < Length(r) \/ (Length(p) = Length(r) /\ ~Ended(r)))

CountRead(r) == Ended(r) /\ IF r = 0 THEN step[r] = 4 \/ (step[r] = 3 /\ moved[r] = 1)
                            ELSE step[r] > 1 \/ moved[r] = 1
IdsRead(r) == IF r = 0 THEN IF step[r] = 4 THEN moved[r] ELSE 0
              ELSE IF step[r] = 1 THEN 0 ELSE IF step[r] = 2 THEN moved[r] ELSE claim[r]

(* What a rank took for the count and for ids. *)
Reading(r) ==
  LET p == Peer(r)
      from == OfTokens(p, Length(r)) + 1
  IN /\ dirty[r] => Beyond(r)
     /\ ~CountRead(r) => got[r] = << >>
     /\ CountRead(r) =>
          /\ Len(got[r]) = IdsRead(r)
          /\ \E word \in Words :
               /\ WordAt(p, from, word)
               /\ word[1] # "row" => claim[r] = word[2]
               /\ word[1] = "row" /\ got[r] # << >> => got[r][1] = -1
          /\ \A k \in 1..Len(got[r]) :
               \E word \in Words : WordAt(p, from + k, word) /\ got[r][k] = Value(word)

(* Two hosts that were started alike follow the same list. *)
Following ==
  \A r \in Rank :
    Alike => \A i \in 1..Length(r) : tokens[r][i] = truth[i]

Judged(r) == Ended(r) /\ step[r] = 4 /\ moved[r] = SizeNow(r)

Verdicts ==
  \A r \in Rank :
    /\ outcome[r] = "ok" => Judged(r) /\ got[r] = tokens[r]
    /\ outcome[r] = "mismatch" => Judged(r) /\ got[r] # tokens[r]
    /\ outcome[r] = "threw" => ~Judged(r)

PeerInvariant ==
  Types /\ Opening /\ Progress /\ Streams /\ (\A r \in Rank : Reading(r)) /\ Following /\ Verdicts
=============================================================================
