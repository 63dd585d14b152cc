-------------------------- MODULE PeerSessionProofs --------------------------
(***************************************************************************)
(* The safety properties of a generation on two hosts, for every token set,*)
(* budget, number and size of gathers, buffer, backlog and number of       *)
(* connection attempts.                                                    *)
(***************************************************************************)
EXTENDS PeerSessionInductive, SequenceTheorems, TLAPS

(* Neither shard is empty, and rank 1's is more than a word. *)
LEMMA Halves ==
  /\ Gathers \in Nat /\ Gathers >= 1
  /\ \A r \in Rank : Mine(r) \in Nat /\ Mine(r) >= 1 /\ Peer(r) \in Rank /\ Peer(r) # r
                     /\ Peer(Peer(r)) = r
  /\ Mine(1) >= 2
BY PeerAssumption DEF Mine, Rank, Peer

LEMMA Products ==
  ASSUME NEW a \in Nat, NEW b \in Nat
  PROVE  /\ a * b \in Nat /\ (a + 1) * b = a * b + b
         /\ 0 * b = 0
         /\ \A c \in Nat : a < c => a * b + b <= c * b
<1>1. a * b \in Nat /\ (a + 1) * b = a * b + b /\ 0 * b = 0
  OBVIOUS
<1>2. ASSUME NEW c \in Nat, a < c PROVE a * b + b <= c * b
  <2>1. PICK d \in Nat : c = a + 1 + d
    <3>1. c - a - 1 \in Nat /\ c = a + 1 + (c - a - 1)
      BY <1>2
    <3> QED BY <3>1
  <2>2. c * b = (a + 1) * b + d * b /\ d * b \in Nat
    BY <2>1
  <2> QED BY <1>1, <2>2
<1> QED BY <1>1, <1>2

-----------------------------------------------------------------------------
(* Arithmetic of a stream. *)
LEMMA TokensGrow ==
  ASSUME NEW p \in Rank, NEW n \in Nat
  PROVE  /\ OfTokens(p, n) \in Nat /\ OfTokens(p, 0) = 0
         /\ Gathers * Mine(p) \in Nat /\ Gathers * Mine(p) >= Mine(p)
         /\ OfTokens(p, n + 1) = OfTokens(p, n) + Gathers * Mine(p)
         /\ \A k \in Nat : n < k => OfTokens(p, n) + Gathers * Mine(p) <= OfTokens(p, k)
<1>1. Gathers \in Nat /\ Mine(p) \in Nat /\ Gathers >= 1
  BY Halves
<1> DEFINE T == Gathers * Mine(p)
<1>2. T \in Nat
  BY <1>1, Products
<1>3. T >= Mine(p)
  <2>1. 0 < Gathers /\ 0 \in Nat
    BY <1>1
  <2>2. 0 * Mine(p) + Mine(p) <= Gathers * Mine(p) /\ 0 * Mine(p) = 0
    BY <1>1, <2>1, Products
  <2> QED BY <1>1, <2>2
<1> HIDE DEF T
<1>4. n * T \in Nat /\ (n + 1) * T = n * T + T /\ 0 * T = 0 /\ \A k \in Nat : n < k => n * T + T <= k * T
  BY <1>2, Products
<1>5. OfTokens(p, n) = n * T /\ OfTokens(p, n + 1) = (n + 1) * T /\ OfTokens(p, 0) = 0 * T
      /\ \A k \in Nat : OfTokens(p, k) = k * T
  BY DEF OfTokens, T
<1> QED BY <1>2, <1>3, <1>4, <1>5 DEF T

(* Step after step of a token. *)
LEMMA ShardsCount ==
  ASSUME NEW p \in Rank, NEW s \in Nat \ {0}
  PROVE  /\ Shards(p, s) \in Nat /\ Shards(p, 1) = 0
         /\ SendsRows(p, s) => Shards(p, s + 1) = Shards(p, s) + 1
         /\ ~SendsRows(p, s) => Shards(p, s + 1) = Shards(p, s)
         /\ SendsRows(p, s) \in BOOLEAN
         /\ SendsRows(p, s + 1) <=> ~SendsRows(p, s)
         /\ SendsRows(Peer(p), s) <=> ~SendsRows(p, s)
         /\ SendsRows(p, s) => s = 2 * Shards(p, s) + (IF p = 0 THEN 1 ELSE 2)
         /\ ~SendsRows(p, s) => s = 2 * Shards(p, s) + (IF p = 0 THEN 0 ELSE 1)
<1>1. CASE p = 0
  <2>1. PICK k \in Nat : s = 2 * k + 1 \/ (s = 2 * k /\ k > 0)
    <3>1. s \div 2 \in Nat /\ (s = 2 * (s \div 2) + 1 \/ (s = 2 * (s \div 2) /\ s \div 2 > 0))
      OBVIOUS
    <3> QED BY <3>1
  <2> QED BY <1>1, <2>1 DEF Shards, SendsRows, Peer
<1>2. CASE p = 1
  <2>1. PICK k \in Nat : s = 2 * k + 1 \/ s = 2 * k + 2
    <3>1. (s - 1) \div 2 \in Nat /\ (s = 2 * ((s - 1) \div 2) + 1 \/ s = 2 * ((s - 1) \div 2) + 2)
      OBVIOUS
    <3> QED BY <3>1
  <2> QED BY <1>2, <2>1 DEF Shards, SendsRows, Peer
<1> QED BY <1>1, <1>2 DEF Rank

(* Within a token, rows stay below the rows of a token.                    *)
LEMMA RowsBound ==
  ASSUME NEW p \in Rank, NEW s \in 1..2 * Gathers, NEW m \in Nat
  PROVE  /\ OfRows(p, s, m) \in Nat
         /\ SendsRows(p, s) /\ m < Mine(p) => OfRows(p, s, m) + 1 <= Gathers * Mine(p)
         /\ SendsRows(p, s) /\ m <= Mine(p) => OfRows(p, s, m) <= Gathers * Mine(p)
         /\ ~SendsRows(p, s) => OfRows(p, s, m) <= Gathers * Mine(p)
<1> DEFINE k == Shards(p, s)
           M == Mine(p)
<1>1. Gathers \in Nat /\ M \in Nat /\ s \in Nat \ {0} /\ s <= 2 * Gathers
  BY Halves
<1>2. k \in Nat /\ k * M \in Nat /\ (k + 1) * M = k * M + M /\ Gathers * M \in Nat
      /\ (k < Gathers => k * M + M <= Gathers * M)
  BY <1>1, ShardsCount, Products
<1>3. SendsRows(p, s) => k < Gathers
  <2>1. SendsRows(p, s) => s = 2 * k + (IF p = 0 THEN 1 ELSE 2)
    BY <1>1, ShardsCount
  <2> QED BY <1>1, <1>2, <2>1
<1>4. ~SendsRows(p, s) => k <= Gathers
  <2>1. ~SendsRows(p, s) => s = 2 * k + (IF p = 0 THEN 0 ELSE 1)
    BY <1>1, ShardsCount
  <2> QED BY <1>1, <1>2, <2>1
<1>5. k <= Gathers => k * M <= Gathers * M
  BY <1>1, <1>2
<1>6. OfRows(p, s, m) = k * M + IF SendsRows(p, s) THEN m ELSE 0
  BY DEF OfRows
<1> HIDE DEF k
<1>7. CASE SendsRows(p, s)
  BY <1>1, <1>2, <1>3, <1>6, <1>7
<1>8. CASE ~SendsRows(p, s)
  BY <1>1, <1>2, <1>4, <1>5, <1>6, <1>8
<1> QED BY <1>7, <1>8

(* A place in the rows belongs to one token and step.                      *)
LEMMA RowIsUnique ==
  ASSUME NEW p \in Rank, NEW n \in Nat, NEW s \in 1..2 * Gathers, NEW m \in Nat,
         NEW n2 \in Nat, NEW s2 \in 1..2 * Gathers, NEW m2 \in Nat,
         SendsRows(p, s), SendsRows(p, s2), m < Mine(p), m2 < Mine(p),
         OfTokens(p, n) + OfRows(p, s, m) = OfTokens(p, n2) + OfRows(p, s2, m2)
  PROVE  n = n2 /\ s = s2
<1> DEFINE T == Gathers * Mine(p)
           u == OfRows(p, s, m)
           u2 == OfRows(p, s2, m2)
           M == Mine(p)
<1>1. u \in Nat /\ u + 1 <= T /\ u2 \in Nat /\ u2 + 1 <= T /\ T \in Nat /\ M \in Nat
  BY RowsBound, TokensGrow, Halves
<1>2. OfTokens(p, n) \in Nat /\ OfTokens(p, n2) \in Nat
      /\ (n < n2 => OfTokens(p, n) + T <= OfTokens(p, n2))
      /\ (n2 < n => OfTokens(p, n2) + T <= OfTokens(p, n))
  BY TokensGrow
<1>3. OfTokens(p, n) + u = OfTokens(p, n2) + u2
  OBVIOUS
<1> DEFINE k == Shards(p, s)
           k2 == Shards(p, s2)
<1>4. /\ k \in Nat /\ k2 \in Nat /\ s \in Nat \ {0} /\ s2 \in Nat \ {0}
      /\ s = 2 * k + (IF p = 0 THEN 1 ELSE 2) /\ s2 = 2 * k2 + (IF p = 0 THEN 1 ELSE 2)
  BY ShardsCount, Halves
<1>5. u = k * M + m /\ u2 = k2 * M + m2
  BY DEF OfRows
<1>6. /\ k * M \in Nat /\ k2 * M \in Nat
      /\ (k < k2 => k * M + M <= k2 * M) /\ (k2 < k => k2 * M + M <= k * M)
  BY <1>1, <1>4, Products
<1>7. m < M /\ m2 < M
  OBVIOUS
<1> HIDE DEF T, u, u2, k, k2, M
<1>8. n = n2
  <2>1. ~(n < n2) /\ ~(n2 < n)
    BY <1>1, <1>2, <1>3
  <2> QED BY <2>1
<1>9. k = k2
  <2>1. u = u2
    BY <1>1, <1>2, <1>3, <1>8
  <2>2. ~(k < k2) /\ ~(k2 < k)
    BY <1>1, <1>5, <1>6, <1>7, <2>1
  <2> QED BY <1>4, <2>2
<1> QED BY <1>4, <1>8, <1>9

LEMMA PlaceType ==
  ASSUME NEW p \in Rank, NEW n \in Nat, NEW ended \in BOOLEAN, NEW s \in 1..LastStep(ended),
         NEW m \in Nat, NEW len \in Nat
  PROVE  PlaceAt(p, n, ended, s, m, len) \in Nat /\ s \in Nat \ {0}
<1>1. OfTokens(p, n) \in Nat
  BY TokensGrow
<1>2. ended => OfFinal(p, s, m, len) \in Nat
  BY DEF OfFinal
<1>3. ~ended => OfRows(p, s, m) \in Nat
  BY RowsBound DEF LastStep
<1>4. s \in Nat \ {0}
  BY Halves DEF LastStep
<1> QED BY <1>1, <1>2, <1>3, <1>4 DEF PlaceAt

(* One more word of the transfer the rank is in.                           *)
LEMMA PlaceMoves ==
  ASSUME NEW p \in Rank, NEW n \in Nat, NEW ended \in BOOLEAN, NEW s \in 1..LastStep(ended),
         NEW m \in Nat, NEW len \in Nat
  PROVE  /\ SendsAt(p, ended, s) =>
              PlaceAt(p, n, ended, s, m + 1, len) = PlaceAt(p, n, ended, s, m, len) + 1
         /\ ~SendsAt(p, ended, s) =>
              PlaceAt(p, n, ended, s, m + 1, len) = PlaceAt(p, n, ended, s, m, len)
<1>1. OfTokens(p, n) \in Nat
  BY TokensGrow
<1>2. CASE ended
  <2>1. s \in 1..4
    BY <1>2 DEF LastStep
  <2>2. /\ SendsAt(p, ended, s) => OfFinal(p, s, m + 1, len) = OfFinal(p, s, m, len) + 1
        /\ ~SendsAt(p, ended, s) => OfFinal(p, s, m + 1, len) = OfFinal(p, s, m, len)
        /\ OfFinal(p, s, m, len) \in Nat
    BY <1>2, <2>1 DEF OfFinal, SendsAt, Rank
  <2>3. \A k, l \in Nat : PlaceAt(p, n, ended, s, k, l) = OfTokens(p, n) + OfFinal(p, s, k, l)
    BY <1>2 DEF PlaceAt
  <2> QED BY <1>1, <2>2, <2>3
<1>3. CASE ~ended
  <2>1. s \in 1..2 * Gathers
    BY <1>3 DEF LastStep
  <2>2. Shards(p, s) * Mine(p) \in Nat
    <3>1. s \in Nat \ {0} /\ Mine(p) \in Nat
      BY <2>1, Halves
    <3>2. Shards(p, s) \in Nat
      BY <3>1, ShardsCount
    <3> QED BY <3>1, <3>2, Products
  <2>3. /\ SendsRows(p, s) => OfRows(p, s, m + 1) = OfRows(p, s, m) + 1
        /\ ~SendsRows(p, s) => OfRows(p, s, m + 1) = OfRows(p, s, m)
        /\ OfRows(p, s, m) \in Nat
    BY <2>2 DEF OfRows
  <2> QED BY <1>1, <1>3, <2>3 DEF PlaceAt, SendsAt
<1> QED BY <1>2, <1>3

(* The next transfer begins where this one ends.                           *)
LEMMA PlaceNext ==
  ASSUME NEW p \in Rank, NEW r \in Rank, NEW n \in Nat, NEW ended \in BOOLEAN,
         NEW s \in 1..LastStep(ended), NEW count \in Nat, s < LastStep(ended)
  PROVE  LET len == IF p = r THEN n ELSE count
             m == SizeAt(r, n, ended, s, count)
         IN PlaceAt(p, n, ended, s + 1, 0, len) = PlaceAt(p, n, ended, s, m, len)
<1> DEFINE len == IF p = r THEN n ELSE count
           m == SizeAt(r, n, ended, s, count)
<1>1. OfTokens(p, n) \in Nat
  BY TokensGrow
<1>2. CASE ended
  <2>1. s \in {1, 2, 3}
    BY <1>2 DEF LastStep
  <2>2. OfFinal(p, s + 1, 0, len) = OfFinal(p, s, m, len)
    <3>1. CASE s = 1
      BY <1>2, <3>1 DEF OfFinal, SizeAt, Rank
    <3>2. CASE s = 2
      BY <1>2, <3>2 DEF OfFinal, SizeAt, SendsAt, Rank
    <3>3. CASE s = 3
      BY <1>2, <3>3 DEF OfFinal, SizeAt, Rank
    <3> QED BY <2>1, <3>1, <3>2, <3>3
  <2> QED BY <1>2, <2>2 DEF PlaceAt
<1>3. CASE ~ended
  <2>1. s \in 1..2 * Gathers /\ s \in Nat \ {0}
    BY <1>3, Halves DEF LastStep
  <2>2. Mine(p) \in Nat /\ Shards(p, s) \in Nat
        /\ (Shards(p, s) + 1) * Mine(p) = Shards(p, s) * Mine(p) + Mine(p)
        /\ Shards(p, s) * Mine(p) \in Nat
    BY <2>1, ShardsCount, Products, Halves
  <2>3. /\ SendsRows(p, s) => Shards(p, s + 1) = Shards(p, s) + 1
        /\ ~SendsRows(p, s) => Shards(p, s + 1) = Shards(p, s)
        /\ SendsRows(p, s + 1) <=> ~SendsRows(p, s)
    BY <2>1, ShardsCount
  <2>4. SendsRows(p, s) => m = Mine(p)
    <3>1. p = r \/ p = Peer(r)
      BY DEF Rank, Peer
    <3>2. p # r => Peer(p) = r /\ p = Peer(r) /\ (SendsRows(r, s) <=> ~SendsRows(p, s))
      BY <2>1, <3>1, ShardsCount, Halves
    <3> QED BY <1>3, <3>2 DEF SizeAt
  <2>5. CASE SendsRows(p, s)
    BY <2>2, <2>3, <2>4, <2>5, <1>1, <1>3 DEF OfRows, PlaceAt
  <2>6. CASE ~SendsRows(p, s)
    BY <2>2, <2>3, <2>6, <1>1, <1>3 DEF OfRows, PlaceAt
  <2> QED BY <2>5, <2>6
<1> QED BY <1>2, <1>3

(* The next token, or the final exchange, begins where this token ends.    *)
LEMMA PlaceToken ==
  ASSUME NEW p \in Rank, NEW r \in Rank, NEW n \in Nat, NEW count \in Nat
  PROVE  LET m == SizeAt(r, n, FALSE, 2 * Gathers, count) IN
         /\ OfTokens(p, n) + OfRows(p, 2 * Gathers, m) = OfTokens(p, n + 1)
         /\ OfRows(p, 1, 0) = 0 /\ \A len : OfFinal(p, 1, 0, len) = 0
<1> DEFINE s == 2 * Gathers
           m == SizeAt(r, n, FALSE, s, count)
           M == Mine(p)
<1>1. s \in Nat \ {0} /\ 1 \in Nat \ {0} /\ M \in Nat /\ Gathers \in Nat /\ Gathers >= 1
  BY Halves
<1>2. OfTokens(p, n + 1) = OfTokens(p, n) + Gathers * M /\ OfTokens(p, n) \in Nat
  BY TokensGrow
<1>3. Shards(p, 1) = 0 /\ 0 * M = 0
  BY <1>1, ShardsCount, Products
<1>4. OfRows(p, 1, 0) = 0 /\ \A len : OfFinal(p, 1, 0, len) = 0
  BY <1>3 DEF OfRows, OfFinal
<1>5. OfRows(p, s, m) = Gathers * M
  <2>1. CASE p = 0
    <3>1. ~SendsRows(p, s)
      BY <2>1, <1>1 DEF SendsRows
    <3>2. Shards(p, s) = Gathers
      BY <2>1, <1>1 DEF Shards
    <3> QED BY <3>1, <3>2, <1>1, Products DEF OfRows
  <2>2. CASE p = 1
    <3>1. SendsRows(p, s)
      BY <2>2, <1>1 DEF SendsRows
    <3>2. Shards(p, s) = Gathers - 1
      BY <2>2, <1>1 DEF Shards
    <3>3. m = M
      BY <2>2, <1>1 DEF SizeAt, SendsRows, Rank, Peer
    <3>4. (Gathers - 1) \in Nat /\ ((Gathers - 1) + 1) * M = (Gathers - 1) * M + M
      BY <1>1, Products
    <3>5. ((Gathers - 1) + 1) * M = Gathers * M
      BY <1>1
    <3> QED BY <3>1, <3>2, <3>3, <3>4, <3>5 DEF OfRows
  <2> QED BY <2>1, <2>2 DEF Rank
<1> QED BY <1>2, <1>4, <1>5

-----------------------------------------------------------------------------
(* What a rank is doing, in terms of its list and its step.                *)
LEMMA Lists ==
  ASSUME Types, NEW r \in Rank
  PROVE  /\ tokens[r] \in Seq(Token) /\ Length(r) \in Nat /\ Ended(r) \in BOOLEAN
         /\ step[r] \in Nat \ {0} /\ moved[r] \in Nat /\ claim[r] \in Nat
         /\ budget[r] \in 1..MaxBudget /\ wire[r] \in Seq(Words) /\ Len(wire[r]) \in Nat
         /\ got[r] \in Seq(Nat \cup {-1}) /\ Len(got[r]) \in Nat /\ dirty[r] \in BOOLEAN
         /\ Ended(r) => Length(r) >= 1
<1>1. tokens[r] \in Seq(Token) /\ wire[r] \in Seq(Words) /\ got[r] \in Seq(Nat \cup {-1})
  BY DEF Types
<1>2. Length(r) \in Nat /\ Len(wire[r]) \in Nat /\ Len(got[r]) \in Nat
  BY <1>1, LenProperties DEF Length
<1>3. Ended(r) \in BOOLEAN
  BY DEF Ended, Complete
<1>4. Ended(r) => Length(r) >= 1
  <2>1. tokens[r] # << >> => Len(tokens[r]) # 0
    BY <1>1, EmptySeq
  <2> QED BY <1>2, <2>1 DEF Ended, Complete, Length
<1> QED BY <1>1, <1>2, <1>3, <1>4 DEF Types

LEMMA Doing ==
  ASSUME Types, Progress, NEW r \in Rank, Busy(r)
  PROVE  /\ phase[r] = "ids" <=> Ended(r)
         /\ phase[r] = "rows" <=> ~Ended(r)
         /\ step[r] \in 1..LastStep(Ended(r))
         /\ Sends(r) <=> SendsAt(r, Ended(r), step[r])
         /\ Sends(r) <=> ~SendsAt(Peer(r), Ended(r), step[r])
         /\ Size(r) = SizeNow(r) /\ Size(r) \in Nat
         /\ IsCount(r) <=> Ended(r) /\ step[r] \in {1, 3}
<1>1. /\ Length(r) \in Nat /\ Ended(r) \in BOOLEAN /\ step[r] \in Nat \ {0} /\ claim[r] \in Nat
      /\ Len(tokens[r]) \in Nat
  BY Lists DEF Length
<1>2. /\ phase[r] = "ids" <=> Ended(r)
      /\ phase[r] = "rows" <=> ~Ended(r)
      /\ step[r] \in 1..LastStep(Ended(r))
  <2>1. LastStep(Ended(r)) \in Nat
    BY Halves DEF LastStep
  <2>2. step[r] <= LastStep(Ended(r)) /\ (phase[r] = "rows" => ~Ended(r)) /\ (phase[r] = "ids" => Ended(r))
    BY DEF Progress
  <2>3. step[r] \in 1..LastStep(Ended(r))
    BY <1>1, <2>1, <2>2
  <2> QED BY <2>2, <2>3 DEF Busy
<1>3. CASE Ended(r)
  <2>1. step[r] \in 1..4 /\ phase[r] = "ids"
    BY <1>2, <1>3 DEF LastStep
  <2>2. IsCount(r) <=> step[r] \in {1, 3}
    BY <2>1 DEF IsCount
  <2>3. /\ Sends(r) <=> SendsAt(r, Ended(r), step[r])
        /\ Sends(r) <=> ~SendsAt(Peer(r), Ended(r), step[r])
    BY <1>3, <2>1 DEF Sends, SendsAt, Peer, Rank
  <2>4. Size(r) = SizeNow(r)
    BY <1>3, <2>1, <2>2, <2>3 DEF Size, SizeNow, SizeAt, Length
  <2>5. SizeNow(r) \in Nat
    BY <1>1, <1>3 DEF SizeNow, SizeAt
  <2> QED BY <1>2, <1>3, <2>2, <2>3, <2>4, <2>5
<1>4. CASE ~Ended(r)
  <2>1. phase[r] = "rows"
    BY <1>2, <1>4
  <2>2. /\ Sends(r) <=> SendsAt(r, Ended(r), step[r])
        /\ Sends(r) <=> ~SendsAt(Peer(r), Ended(r), step[r])
    BY <1>4, <2>1, <1>1, ShardsCount DEF Sends, SendsAt, SendsRows
  <2>3. Size(r) = SizeNow(r)
    <3>1. Size(r) = IF Sends(r) THEN Mine(r) ELSE Mine(Peer(r))
      BY <2>1 DEF Size, IsCount
    <3>2. SizeNow(r) = IF SendsRows(r, step[r]) THEN Mine(r) ELSE Mine(Peer(r))
      BY <1>4 DEF SizeNow, SizeAt
    <3>3. Sends(r) <=> SendsRows(r, step[r])
      BY <1>4, <2>2 DEF SendsAt
    <3> QED BY <3>1, <3>2, <3>3
  <2>4. Size(r) \in Nat
    BY <2>1, Halves DEF Size
  <2> QED BY <1>2, <1>4, <2>1, <2>2, <2>3, <2>4 DEF IsCount
<1> QED BY <1>1, <1>3, <1>4

(* The rank's own data is left alone. *)
Still(r) == UNCHANGED <<tokens[r], step[r], moved[r], claim[r], got[r], dirty[r]>>

LEMMA StillThere ==
  ASSUME NEW r \in Rank, Still(r), UNCHANGED budget
  PROVE  /\ Ended(r)' = Ended(r) /\ Length(r)' = Length(r)
         /\ \A p \in Rank : Place(p, r)' = Place(p, r)
         /\ SizeNow(r)' = SizeNow(r) /\ CountRead(r)' = CountRead(r) /\ IdsRead(r)' = IdsRead(r)
         /\ Judged(r)' = Judged(r)
<1>1. tokens'[r] = tokens[r] /\ step'[r] = step[r] /\ moved'[r] = moved[r] /\ claim'[r] = claim[r]
      /\ budget' = budget
  BY DEF Still
<1>2. Ended(r)' = Ended(r) /\ Length(r)' = Length(r)
  BY <1>1 DEF Ended, Complete, Length
<1>3. \A p \in Rank : Place(p, r)' = Place(p, r)
  BY <1>1, <1>2 DEF Place
<1>4. SizeNow(r)' = SizeNow(r)
  BY <1>1, <1>2 DEF SizeNow
<1>5. CountRead(r)' = CountRead(r)
  BY <1>1, <1>2 DEF CountRead
<1>6. IdsRead(r)' = IdsRead(r)
  BY <1>1, <1>2 DEF IdsRead
<1>7. Judged(r)' = Judged(r)
  BY <1>1, <1>2, <1>4 DEF Judged
<1> QED BY <1>2, <1>3, <1>4, <1>5, <1>6, <1>7

(* A place is a number. *)
LEMMA Places ==
  ASSUME Types, Progress, NEW p \in Rank, NEW r \in Rank
  PROVE  Place(p, r) \in Nat /\ step[r] \in 1..LastStep(Ended(r))
<1>1. /\ Length(r) \in Nat /\ Ended(r) \in BOOLEAN /\ step[r] \in Nat \ {0}
      /\ moved[r] \in Nat /\ claim[r] \in Nat
  BY Lists
<1>2. step[r] \in 1..LastStep(Ended(r))
  BY <1>1, Halves DEF Progress, LastStep
<1>3. (IF p = r THEN Length(r) ELSE claim[r]) \in Nat
  BY <1>1
<1> QED BY <1>1, <1>2, <1>3, PlaceType DEF Place

-----------------------------------------------------------------------------
(* What a step does to the places of the rank that takes it; the other     *)
(* rank's data is left alone.                                              *)
LEMMA SendPlaces ==
  ASSUME Types, Progress, NEW r \in Rank, SendWord(r)
  PROVE  /\ Place(r, r)' = Place(r, r) + 1 /\ Place(Peer(r), r)' = Place(Peer(r), r)
         /\ Still(Peer(r)) /\ UNCHANGED budget
         /\ Ended(r)' = Ended(r) /\ Length(r)' = Length(r) /\ SizeNow(r)' = SizeNow(r)
         /\ moved'[r] = moved[r] + 1 /\ moved'[r] <= SizeNow(r)
         /\ tokens'[r] = tokens[r] /\ step'[r] = step[r] /\ claim'[r] = claim[r]
         /\ got'[r] = got[r] /\ dirty'[r] = dirty[r]
<1>1. /\ Busy(r) /\ moved[r] < Size(r) /\ Sends(r)
      /\ moved' = [moved EXCEPT ![r] = @ + 1]
      /\ tokens' = tokens /\ step' = step /\ claim' = claim /\ got' = got /\ dirty' = dirty
      /\ budget' = budget
  BY DEF SendWord, Sending, Moving, input
<1>2. moved'[r] = moved[r] + 1 /\ moved'[Peer(r)] = moved[Peer(r)]
  BY <1>1, Halves DEF Types
<1>3. Ended(r)' = Ended(r) /\ Length(r)' = Length(r)
  BY <1>1 DEF Ended, Complete, Length
<1>4. SizeNow(r)' = SizeNow(r)
  BY <1>1, <1>3 DEF SizeNow
<1>5. /\ SendsAt(r, Ended(r), step[r]) /\ ~SendsAt(Peer(r), Ended(r), step[r])
      /\ step[r] \in 1..LastStep(Ended(r)) /\ Size(r) = SizeNow(r) /\ Size(r) \in Nat
  BY <1>1, Doing
<1>6. Length(r) \in Nat /\ Ended(r) \in BOOLEAN /\ moved[r] \in Nat /\ claim[r] \in Nat
  BY Lists
<1>7. /\ PlaceAt(r, Length(r), Ended(r), step[r], moved[r] + 1, Length(r))
           = PlaceAt(r, Length(r), Ended(r), step[r], moved[r], Length(r)) + 1
      /\ PlaceAt(Peer(r), Length(r), Ended(r), step[r], moved[r] + 1, claim[r])
           = PlaceAt(Peer(r), Length(r), Ended(r), step[r], moved[r], claim[r])
  BY <1>5, <1>6, PlaceMoves, Halves
<1>8. Place(r, r)' = Place(r, r) + 1
  BY <1>1, <1>2, <1>3, <1>7 DEF Place
<1>9. Place(Peer(r), r)' = Place(Peer(r), r)
  BY <1>1, <1>2, <1>3, <1>7, Halves DEF Place
<1>10. Still(Peer(r))
  BY <1>1, <1>2 DEF Still
<1>11. moved[r] + 1 <= SizeNow(r)
  BY <1>1, <1>5, <1>6
<1> QED BY <1>1, <1>2, <1>3, <1>4, <1>8, <1>9, <1>10, <1>11

LEMMA RecvPlaces ==
  ASSUME Types, Progress, NEW r \in Rank, RecvWord(r), claim' \in [Rank -> Nat]
  PROVE  /\ Place(r, r)' = Place(r, r) /\ Place(Peer(r), r)' = Place(Peer(r), r) + 1
         /\ Still(Peer(r)) /\ UNCHANGED budget
         /\ Ended(r)' = Ended(r) /\ Length(r)' = Length(r)
         /\ step'[r] = step[r] /\ tokens'[r] = tokens[r]
         /\ moved'[r] = moved[r] + 1 /\ moved'[r] <= SizeNow(r)' /\ SizeNow(r)' = SizeNow(r)
<1>1. /\ Busy(r) /\ moved[r] < Size(r) /\ ~Sends(r)
      /\ moved' = [moved EXCEPT ![r] = @ + 1]
      /\ tokens' = tokens /\ step' = step /\ budget' = budget
  BY DEF RecvWord, Receiving, Moving, input
<1>2. moved'[r] = moved[r] + 1 /\ moved'[Peer(r)] = moved[Peer(r)]
  BY <1>1, Halves DEF Types
<1>3. Ended(r)' = Ended(r) /\ Length(r)' = Length(r)
  BY <1>1 DEF Ended, Complete, Length
<1>4. /\ ~SendsAt(r, Ended(r), step[r]) /\ SendsAt(Peer(r), Ended(r), step[r])
      /\ step[r] \in 1..LastStep(Ended(r)) /\ Size(r) = SizeNow(r) /\ Size(r) \in Nat
      /\ IsCount(r) <=> Ended(r) /\ step[r] \in {1, 3}
      /\ phase[r] = "rows" <=> ~Ended(r)
  BY <1>1, Doing
<1>5. /\ Length(r) \in Nat /\ Ended(r) \in BOOLEAN /\ moved[r] \in Nat /\ claim[r] \in Nat
      /\ claim'[r] \in Nat
  BY Lists
<1>6. /\ claim'[Peer(r)] = claim[Peer(r)] /\ got'[Peer(r)] = got[Peer(r)]
      /\ dirty'[Peer(r)] = dirty[Peer(r)]
      /\ claim'[r] # claim[r] => IsCount(r) /\ Ended(r)
  <2> DEFINE word == Head(wire[r])
  <2>1. CASE phase[r] = "rows"
    <3>1. dirty' = [dirty EXCEPT ![r] = @ \/ word # Word(r)] /\ claim' = claim /\ got' = got
      BY <2>1 DEF RecvWord, IsCount
    <3> QED BY <3>1, Halves DEF Types
  <2>2. CASE IsCount(r)
    <3>1. /\ dirty' = dirty /\ got' = got
          /\ \E count \in Counts(r, word) : claim' = [claim EXCEPT ![r] = count]
      BY <2>2 DEF RecvWord, IsCount
    <3> QED BY <3>1, <2>2, <1>4, Halves DEF Types
  <2>3. CASE phase[r] # "rows" /\ ~IsCount(r)
    <3>1. dirty' = dirty /\ claim' = claim /\ got' = [got EXCEPT ![r] = Append(@, Value(word))]
      BY <2>3 DEF RecvWord
    <3> QED BY <3>1, Halves DEF Types
  <2> QED BY <2>1, <2>2, <2>3
<1>7. claim'[r] # claim[r] => Ended(r) /\ SizeNow(r)' = SizeNow(r) /\ (Peer(r) = 1 \/ step[r] <= 2)
  <2>1. IsCount(r) => SizeNow(r)' = 1 /\ SizeNow(r) = 1
    BY <1>1, <1>3, <1>4 DEF SizeNow, SizeAt
  <2>2. IsCount(r) => Peer(r) = 1 \/ step[r] <= 2
    BY <1>4 DEF Peer, Rank, SendsAt
  <2> QED BY <1>6, <2>1, <2>2
<1>8. SizeNow(r)' = SizeNow(r)
  <2>1. claim'[r] = claim[r] => SizeNow(r)' = SizeNow(r)
    BY <1>1, <1>3 DEF SizeNow
  <2> QED BY <1>7, <2>1
<1>9. /\ PlaceAt(r, Length(r), Ended(r), step[r], moved[r] + 1, Length(r))
           = PlaceAt(r, Length(r), Ended(r), step[r], moved[r], Length(r))
      /\ PlaceAt(Peer(r), Length(r), Ended(r), step[r], moved[r] + 1, claim'[r])
           = PlaceAt(Peer(r), Length(r), Ended(r), step[r], moved[r], claim'[r]) + 1
      /\ PlaceAt(Peer(r), Length(r), Ended(r), step[r], moved[r], claim'[r])
           = PlaceAt(Peer(r), Length(r), Ended(r), step[r], moved[r], claim[r])
  <2>1. Peer(r) \in Rank
    BY Halves
  <2>2. claim'[r] = claim[r] \/ (Ended(r) /\ (Peer(r) = 1 \/ step[r] <= 2))
    BY <1>7
  <2>3. PlaceAt(r, Length(r), Ended(r), step[r], moved[r] + 1, Length(r))
          = PlaceAt(r, Length(r), Ended(r), step[r], moved[r], Length(r))
    BY <1>4, <1>5, PlaceMoves
  <2>4. PlaceAt(Peer(r), Length(r), Ended(r), step[r], moved[r] + 1, claim'[r])
          = PlaceAt(Peer(r), Length(r), Ended(r), step[r], moved[r], claim'[r]) + 1
    BY <2>1, <1>4, <1>5, PlaceMoves
  <2>5. ASSUME Ended(r), Peer(r) = 1 \/ step[r] <= 2
        PROVE  PlaceAt(Peer(r), Length(r), Ended(r), step[r], moved[r], claim'[r])
                 = PlaceAt(Peer(r), Length(r), Ended(r), step[r], moved[r], claim[r])
    <3>1. OfFinal(Peer(r), step[r], moved[r], claim'[r]) = OfFinal(Peer(r), step[r], moved[r], claim[r])
      <4>1. step[r] \in 1..4
        BY <2>5, <1>4 DEF LastStep
      <4> QED BY <4>1, <2>1, <2>5 DEF OfFinal, Rank
    <3> QED BY <2>5, <3>1 DEF PlaceAt
  <2>6. PlaceAt(Peer(r), Length(r), Ended(r), step[r], moved[r], claim'[r])
          = PlaceAt(Peer(r), Length(r), Ended(r), step[r], moved[r], claim[r])
    <3>1. CASE claim'[r] = claim[r]
      BY <3>1
    <3> QED BY <2>2, <2>5, <3>1
  <2> QED BY <2>3, <2>4, <2>6
<1>10. Place(r, r)' = Place(r, r)
  BY <1>1, <1>2, <1>3, <1>9 DEF Place
<1>11. Place(Peer(r), r)' = Place(Peer(r), r) + 1
  BY <1>1, <1>2, <1>3, <1>9, Halves DEF Place
<1>12. Still(Peer(r))
  BY <1>1, <1>2, <1>6 DEF Still
<1>13. moved[r] + 1 <= SizeNow(r)
  BY <1>1, <1>4, <1>5
<1> QED BY <1>1, <1>2, <1>3, <1>8, <1>10, <1>11, <1>12, <1>13

LEMMA NextPlaces ==
  ASSUME Types, Progress, NEW r \in Rank, NextTransfer(r)
  PROVE  /\ \A p \in Rank : Place(p, r)' = Place(p, r)
         /\ Still(Peer(r)) /\ UNCHANGED budget
         /\ Ended(r)' = Ended(r) /\ Length(r)' = Length(r)
         /\ step'[r] = step[r] + 1 /\ moved'[r] = 0 /\ step[r] < LastStep(Ended(r))
         /\ tokens'[r] = tokens[r] /\ claim'[r] = claim[r] /\ got'[r] = got[r] /\ dirty'[r] = dirty[r]
         /\ moved[r] = SizeNow(r)
<1>1. /\ Busy(r) /\ moved[r] = Size(r)
      /\ step[r] < IF phase[r] = "rows" THEN 2 * Gathers ELSE 4
      /\ step' = [step EXCEPT ![r] = @ + 1] /\ moved' = [moved EXCEPT ![r] = 0]
      /\ tokens' = tokens /\ claim' = claim /\ got' = got /\ dirty' = dirty /\ budget' = budget
  BY DEF NextTransfer, Finished, input
<1>2. /\ step'[r] = step[r] + 1 /\ moved'[r] = 0
      /\ step'[Peer(r)] = step[Peer(r)] /\ moved'[Peer(r)] = moved[Peer(r)]
  BY <1>1, Halves DEF Types
<1>3. Ended(r)' = Ended(r) /\ Length(r)' = Length(r)
  BY <1>1 DEF Ended, Complete, Length
<1>4. /\ step[r] \in 1..LastStep(Ended(r)) /\ moved[r] = SizeNow(r) /\ step[r] < LastStep(Ended(r))
  BY <1>1, Doing DEF LastStep
<1>5. Length(r) \in Nat /\ Ended(r) \in BOOLEAN /\ claim[r] \in Nat
  BY Lists
<1>6. ASSUME NEW p \in Rank PROVE Place(p, r)' = Place(p, r)
  <2> DEFINE len == IF p = r THEN Length(r) ELSE claim[r]
  <2>1. PlaceAt(p, Length(r), Ended(r), step[r] + 1, 0, len)
          = PlaceAt(p, Length(r), Ended(r), step[r], SizeNow(r), len)
    BY <1>4, <1>5, PlaceNext DEF SizeNow
  <2>2. Place(p, r) = PlaceAt(p, Length(r), Ended(r), step[r], SizeNow(r), len)
    BY <1>4 DEF Place
  <2>3. Place(p, r)' = PlaceAt(p, Length(r), Ended(r), step[r] + 1, 0, len)
    BY <1>1, <1>2, <1>3 DEF Place
  <2> QED BY <2>1, <2>2, <2>3
<1>7. Still(Peer(r))
  BY <1>1, <1>2 DEF Still
<1> QED BY <1>1, <1>2, <1>3, <1>4, <1>6, <1>7

LEMMA TokenPlaces ==
  ASSUME Types, Progress, NEW r \in Rank, NextToken(r), tokens' \in [Rank -> Seq(Token)]
  PROVE  /\ \A p \in Rank : Place(p, r)' = Place(p, r)
         /\ Still(Peer(r)) /\ UNCHANGED budget
         /\ ~Ended(r) /\ Length(r)' = Length(r) + 1
         /\ step'[r] = 1 /\ moved'[r] = 0
         /\ claim'[r] = claim[r] /\ got'[r] = got[r] /\ dirty'[r] = dirty[r]
         /\ \E id \in NextIds(r) : tokens'[r] = Append(tokens[r], id)
<1>1. /\ Busy(r) /\ moved[r] = Size(r) /\ phase[r] = "rows" /\ step[r] = 2 * Gathers
      /\ \E id \in NextIds(r) : tokens' = [tokens EXCEPT ![r] = Append(@, id)]
      /\ step' = [step EXCEPT ![r] = 1] /\ moved' = [moved EXCEPT ![r] = 0]
      /\ claim' = claim /\ got' = got /\ dirty' = dirty /\ budget' = budget
  BY DEF NextToken, Finished, input
<1>2. PICK id \in NextIds(r) : tokens' = [tokens EXCEPT ![r] = Append(@, id)]
  BY <1>1
<1>3. /\ step'[r] = 1 /\ moved'[r] = 0 /\ tokens'[r] = Append(tokens[r], id)
      /\ step'[Peer(r)] = step[Peer(r)] /\ moved'[Peer(r)] = moved[Peer(r)]
      /\ tokens'[Peer(r)] = tokens[Peer(r)]
  BY <1>1, <1>2, Halves DEF Types
<1>4. moved[r] = SizeNow(r) /\ ~Ended(r)
  BY <1>1, Doing
<1>5. /\ Length(r) \in Nat /\ Ended(r) \in BOOLEAN /\ claim[r] \in Nat /\ tokens[r] \in Seq(Token)
  BY Lists
<1>6. Length(r)' = Length(r) + 1 /\ Ended(r)' \in BOOLEAN
  BY <1>3, <1>5, AppendProperties DEF Length, Ended, Complete
<1>7. ASSUME NEW p \in Rank PROVE Place(p, r)' = Place(p, r)
  <2> DEFINE m == SizeAt(r, Length(r), FALSE, 2 * Gathers, claim[r])
  <2>1. /\ OfTokens(p, Length(r)) + OfRows(p, 2 * Gathers, m) = OfTokens(p, Length(r) + 1)
        /\ OfRows(p, 1, 0) = 0 /\ \A len : OfFinal(p, 1, 0, len) = 0
    BY <1>5, PlaceToken
  <2>2. moved[r] = m
    BY <1>1, <1>4 DEF SizeNow, SizeAt
  <2>3. Place(p, r) = OfTokens(p, Length(r)) + OfRows(p, 2 * Gathers, m)
    BY <1>1, <1>4, <2>2 DEF Place, PlaceAt
  <2>4. Place(p, r)' = OfTokens(p, Length(r) + 1) + 0
    BY <1>3, <1>6, <2>1 DEF Place, PlaceAt
  <2>5. OfTokens(p, Length(r) + 1) \in Nat
    BY <1>5, TokensGrow
  <2> HIDE DEF m
  <2> QED BY <2>1, <2>3, <2>4, <2>5
<1>8. Still(Peer(r))
  BY <1>1, <1>3 DEF Still
<1> QED BY <1>1, <1>3, <1>4, <1>6, <1>7, <1>8

-----------------------------------------------------------------------------
(* The words of a stream.                                                  *)
LEMMA WordsSame ==
  ASSUME NEW p \in Rank, UNCHANGED tokens[p], UNCHANGED budget, NEW i, NEW word, WordAt(p, i, word)
  PROVE  WordAt(p, i, word)'
<1>1. Ended(p)' = Ended(p) /\ Length(p)' = Length(p)
  BY DEF Ended, Complete, Length
<1>2. RowAt(p, i, word) => RowAt(p, i, word)'
  BY <1>1 DEF RowAt
<1>3. CountAt(p, i, word) => CountAt(p, i, word)'
  BY <1>1 DEF CountAt
<1>4. IdAt(p, i, word) => IdAt(p, i, word)'
  BY <1>1 DEF IdAt
<1> QED BY <1>2, <1>3, <1>4 DEF WordAt

LEMMA WordsStay ==
  ASSUME NEW p \in Rank, Length(p) \in Nat, ~Ended(p), Length(p)' = Length(p) + 1,
         NEW i, NEW word, WordAt(p, i, word)
  PROVE  WordAt(p, i, word)'
<1>1. RowAt(p, i, word)
  BY DEF WordAt, CountAt, IdAt
<1>2. RowAt(p, i, word)'
  BY <1>1 DEF RowAt
<1> QED BY <1>2 DEF WordAt

LEMMA WordTypes ==
  ASSUME Types, NEW p \in Rank, NEW i, NEW word, WordAt(p, i, word)
  PROVE  /\ word \in Words
         /\ word[1] = "row" <=> Value(word) = -1
         /\ word[1] # "row" => Value(word) = word[2]
         /\ Value(word) \in Nat \cup {-1}
<1>1. Length(p) \in Nat /\ tokens[p] \in Seq(Token) /\ Token \subseteq Nat
  BY Lists, PeerAssumption
<1>2. CASE RowAt(p, i, word)
  <2>1. PICK n \in 0..Length(p), s \in 1..2 * Gathers : word = Row(n + 1, s)
    BY <1>2 DEF RowAt
  <2>2. n + 1 \in Nat /\ s \in Nat
    BY <1>1, Halves
  <2> QED BY <2>1, <2>2 DEF Row, Words, Value
<1>3. CASE CountAt(p, i, word)
  <2>1. word = <<"count", Length(p), 0>>
    BY <1>3 DEF CountAt
  <2> QED BY <1>1, <2>1 DEF Words, Value
<1>4. CASE IdAt(p, i, word)
  <2>1. PICK k \in 1..Length(p) : word = <<"id", tokens[p][k], 0>>
    BY <1>4 DEF IdAt
  <2>2. tokens[p][k] \in Token
    BY <1>1, ElementOfSeq DEF Length
  <2>3. tokens[p][k] \in Nat
    BY <1>1, <2>2
  <2> QED BY <2>1, <2>3 DEF Words, Value
<1> QED BY <1>2, <1>3, <1>4 DEF WordAt

(* What a rank sends is the next word of its stream.                       *)
LEMMA WordSent ==
  ASSUME Types, Progress, NEW r \in Rank, Sending(r)
  PROVE  WordAt(r, Sent(r) + 1, Word(r))
<1>1. Busy(r) /\ moved[r] < Size(r) /\ Sends(r)
  BY DEF Sending, Moving
<1>2. /\ phase[r] = "rows" <=> ~Ended(r)
      /\ step[r] \in 1..LastStep(Ended(r))
      /\ SendsAt(r, Ended(r), step[r])
      /\ Size(r) = SizeNow(r)
      /\ IsCount(r) <=> Ended(r) /\ step[r] \in {1, 3}
  BY <1>1, Doing
<1>3. /\ Length(r) \in Nat /\ moved[r] \in Nat /\ OfTokens(r, Length(r)) \in Nat
      /\ Length(r) = Len(tokens[r])
  BY Lists, TokensGrow DEF Length
<1>4. CASE ~Ended(r)
  <2>1. step[r] \in 1..2 * Gathers /\ SendsRows(r, step[r])
    BY <1>2, <1>4 DEF LastStep, SendsAt
  <2>2. moved[r] < Mine(r) /\ Mine(r) \in Nat
    BY <1>1, <1>2, <1>4, <2>1, Halves DEF SizeNow, SizeAt
  <2>3. moved[r] \in 0..Mine(r) - 1 /\ Length(r) \in 0..Length(r)
    BY <1>3, <2>2
  <2>4. Sent(r) = OfTokens(r, Length(r)) + OfRows(r, step[r], moved[r])
    BY <1>4 DEF Sent, Place, PlaceAt
  <2>5. Word(r) = Row(Length(r) + 1, step[r])
    BY <1>2, <1>3, <1>4 DEF Word, IsCount
  <2>6. RowAt(r, Sent(r) + 1, Word(r))
    BY <1>4, <2>1, <2>3, <2>4, <2>5 DEF RowAt
  <2> QED BY <2>6 DEF WordAt
<1>5. CASE Ended(r)
  <2>1. step[r] \in 1..4 /\ phase[r] # "rows"
    BY <1>2, <1>5 DEF LastStep
  <2>2. Sent(r) = OfTokens(r, Length(r)) + OfFinal(r, step[r], moved[r], Length(r))
    BY <1>5 DEF Sent, Place, PlaceAt
  <2>3. CASE step[r] \in {1, 3}
    <3>1. moved[r] = 0
      BY <1>1, <1>2, <1>3, <1>5, <2>3 DEF SizeNow, SizeAt
    <3>2. OfFinal(r, step[r], moved[r], Length(r)) = 0
      BY <3>1, <2>3, <1>2, <1>5 DEF OfFinal, SendsAt, Rank
    <3>3. Word(r) = <<"count", Length(r), 0>>
      BY <1>2, <1>3, <1>5, <2>1, <2>3 DEF Word
    <3>4. Sent(r) + 1 = OfTokens(r, Length(r)) + 1
      BY <1>3, <2>2, <3>2
    <3>5. CountAt(r, Sent(r) + 1, Word(r))
      BY <1>5, <3>3, <3>4 DEF CountAt
    <3> QED BY <3>5 DEF WordAt
  <2>4. CASE step[r] \in {2, 4}
    <3>1. moved[r] < Length(r)
      BY <1>1, <1>2, <1>5, <2>4 DEF SizeNow, SizeAt
    <3>2. OfFinal(r, step[r], moved[r], Length(r)) = 1 + moved[r]
      BY <2>4, <1>2, <1>5 DEF OfFinal, SendsAt, Rank
    <3>3. Word(r) = <<"id", tokens[r][moved[r] + 1], 0>>
      BY <1>2, <2>1, <2>4 DEF Word
    <3>4. moved[r] + 1 \in 1..Length(r) /\ Sent(r) + 1 = OfTokens(r, Length(r)) + 1 + (moved[r] + 1)
      BY <1>3, <2>2, <3>1, <3>2
    <3>5. IdAt(r, Sent(r) + 1, Word(r))
      BY <1>5, <3>3, <3>4 DEF IdAt
    <3> QED BY <3>5 DEF WordAt
  <2> QED BY <2>1, <2>3, <2>4
<1> QED BY <1>4, <1>5

(* Rows end where the list does, and the stream with its ids.              *)
LEMMA WordRange ==
  ASSUME Types, NEW p \in Rank, NEW i \in Nat, NEW word, WordAt(p, i, word)
  PROVE  /\ i >= 1
         /\ RowAt(p, i, word) => word[1] = "row"
         /\ RowAt(p, i, word) /\ Ended(p) => i <= OfTokens(p, Length(p))
         /\ ~RowAt(p, i, word) => /\ Ended(p) /\ i > OfTokens(p, Length(p))
                                  /\ i <= OfTokens(p, Length(p)) + 1 + Length(p)
                                  /\ word[1] # "row"
<1>1. Length(p) \in Nat /\ OfTokens(p, Length(p)) \in Nat
  BY Lists, TokensGrow
<1>2. CASE RowAt(p, i, word)
  <2>1. PICK n \in 0..Length(p), s \in 1..2 * Gathers, m \in 0..Mine(p) - 1 :
          /\ n < Length(p) \/ ~Ended(p)
          /\ SendsRows(p, s) /\ i = OfTokens(p, n) + OfRows(p, s, m) + 1 /\ word = Row(n + 1, s)
    BY <1>2 DEF RowAt
  <2>2. n \in Nat /\ m \in Nat /\ m < Mine(p) /\ Mine(p) \in Nat
    BY <1>1, Halves
  <2>3. OfRows(p, s, m) \in Nat /\ OfRows(p, s, m) + 1 <= Gathers * Mine(p)
    BY <2>1, <2>2, RowsBound
  <2>4. /\ OfTokens(p, n) \in Nat /\ Gathers * Mine(p) \in Nat
        /\ n < Length(p) => OfTokens(p, n) + Gathers * Mine(p) <= OfTokens(p, Length(p))
    BY <1>1, <2>2, TokensGrow
  <2>5. word[1] = "row"
    BY <2>1 DEF Row
  <2> QED BY <1>1, <1>2, <2>1, <2>3, <2>4, <2>5
<1>3. CASE CountAt(p, i, word)
  <2>1. Ended(p) /\ i = OfTokens(p, Length(p)) + 1 /\ word[1] = "count"
    BY <1>3 DEF CountAt
  <2>2. ~RowAt(p, i, word)
    BY <2>1 DEF RowAt, Row
  <2> QED BY <1>1, <2>1, <2>2
<1>4. CASE IdAt(p, i, word)
  <2>1. PICK k \in 1..Length(p) : i = OfTokens(p, Length(p)) + 1 + k /\ word[1] = "id" /\ Ended(p)
    BY <1>4 DEF IdAt
  <2>2. ~RowAt(p, i, word)
    BY <2>1 DEF RowAt, Row
  <2> QED BY <1>1, <2>1, <2>2
<1> QED BY <1>2, <1>3, <1>4 DEF WordAt

(* The rows that stand where the rank reads are those of its token.        *)
LEMMA RowsInStep ==
  ASSUME Types, Progress, NEW r \in Rank, Receiving(r), phase[r] = "rows",
         NEW word, WordAt(Peer(r), Taken(r) + 1, word)
  PROVE  word = Word(r) \/ Beyond(r)
<1> DEFINE p == Peer(r)
<1>1. Busy(r) /\ moved[r] < Size(r) /\ ~Sends(r) /\ p \in Rank
  BY Halves DEF Receiving, Moving
<1>2. /\ ~Ended(r) /\ step[r] \in 1..LastStep(Ended(r)) /\ Size(r) = SizeNow(r)
      /\ ~SendsAt(r, Ended(r), step[r]) /\ SendsAt(p, Ended(r), step[r])
  BY <1>1, Doing
<1>3. step[r] \in 1..2 * Gathers /\ SendsRows(p, step[r]) /\ ~SendsRows(r, step[r])
  BY <1>2 DEF LastStep, SendsAt
<1>4. moved[r] < Mine(p) /\ Mine(p) \in Nat /\ moved[r] \in Nat /\ Length(r) \in Nat /\ Length(p) \in Nat
  BY <1>1, <1>2, <1>3, Halves, Lists DEF SizeNow, SizeAt
<1>5. Taken(r) = OfTokens(p, Length(r)) + OfRows(p, step[r], moved[r])
  BY <1>2 DEF Taken, Place, PlaceAt
<1>6. OfRows(p, step[r], moved[r]) \in Nat /\ OfTokens(p, Length(r)) \in Nat
      /\ OfRows(p, step[r], moved[r]) + 1 <= Gathers * Mine(p)
  BY <1>1, <1>3, <1>4, RowsBound, TokensGrow
<1>7. CASE RowAt(p, Taken(r) + 1, word)
  <2>1. PICK n \in 0..Length(p), s \in 1..2 * Gathers, m \in 0..Mine(p) - 1 :
          SendsRows(p, s) /\ Taken(r) + 1 = OfTokens(p, n) + OfRows(p, s, m) + 1 /\ word = Row(n + 1, s)
    BY <1>7 DEF RowAt
  <2>2. n \in Nat /\ m \in Nat /\ m < Mine(p)
    BY <1>4
  <2>3. OfRows(p, s, m) \in Nat /\ OfTokens(p, n) \in Nat
    BY <1>1, <2>2, RowsBound, TokensGrow
  <2>4. OfTokens(p, n) + OfRows(p, s, m) = OfTokens(p, Length(r)) + OfRows(p, step[r], moved[r])
    BY <1>5, <1>6, <2>1, <2>3
  <2>5. n = Length(r) /\ s = step[r]
    <3> HIDE DEF p
    <3>1. \A n2 \in Nat, m2 \in Nat : \A s2 \in 1..2 * Gathers :
            SendsRows(p, s2) /\ m2 < Mine(p)
              /\ OfTokens(p, n) + OfRows(p, s, m) = OfTokens(p, n2) + OfRows(p, s2, m2)
            => n = n2 /\ s = s2
      BY <1>1, <2>1, <2>2, RowIsUnique
    <3> QED BY <1>3, <1>4, <2>4, <3>1
  <2>6. Word(r) = Row(Len(tokens[r]) + 1, step[r])
    BY DEF Word, IsCount
  <2> QED BY <2>1, <2>5, <2>6 DEF Length
<1>8. CASE ~RowAt(p, Taken(r) + 1, word)
  <2>1. Taken(r) + 1 \in Nat
    BY <1>5, <1>6
  <2>2. Ended(p) /\ Taken(r) + 1 > OfTokens(p, Length(p))
    BY <1>1, <1>8, <2>1, WordRange
  <2>3. /\ OfTokens(p, Length(r) + 1) = OfTokens(p, Length(r)) + Gathers * Mine(p)
        /\ OfTokens(p, Length(p)) \in Nat /\ Gathers * Mine(p) \in Nat
        /\ OfTokens(p, Length(r)) \in Nat
        /\ \A k \in Nat : Length(r) < k => OfTokens(p, Length(r)) + Gathers * Mine(p) <= OfTokens(p, k)
    BY <1>1, <1>4, TokensGrow
  <2>4. ~(Length(r) < Length(p))
    BY <1>4, <1>5, <1>6, <2>2, <2>3
  <2> QED BY <1>2, <1>4, <2>2, <2>4 DEF Beyond
<1> QED BY <1>7, <1>8

-----------------------------------------------------------------------------
(* Types.                                                                  *)
LEMMA WordValues ==
  ASSUME NEW word \in Words
  PROVE  /\ Value(word) \in Nat \cup {-1}
         /\ word[1] = "row" => Value(word) = -1
         /\ word[1] # "row" => Value(word) = word[2] /\ Value(word) \in Nat
<1>1. CASE word \in {"row"} \X Nat \X Nat
  <2>1. word[1] = "row"
    BY <1>1
  <2> QED BY <2>1 DEF Value
<1>2. CASE word \in {"count", "id"} \X Nat \X {0}
  <2>1. word[1] # "row" /\ word[2] \in Nat
    BY <1>2
  <2> QED BY <2>1 DEF Value
<1> QED BY <1>1, <1>2 DEF Words

LEMMA NextIdsType ==
  ASSUME Types, Progress, NEW r \in Rank, phase[r] = "rows"
  PROVE  NextIds(r) \subseteq Token /\ Length(r) + 1 <= budget[r]
<1>1. Length(r) \in Nat /\ budget[r] \in 1..MaxBudget /\ MaxBudget \in Nat /\ truth \in [1..MaxBudget -> Token]
  BY Lists, PeerAssumption DEF Types
<1>2. Length(r) <= budget[r] /\ Length(r) # budget[r]
  BY DEF Progress
<1>3. Length(r) + 1 \in 1..MaxBudget /\ Length(r) + 1 <= budget[r]
  BY <1>1, <1>2
<1> QED BY <1>1, <1>3 DEF NextIds, Length

LEMMA TypesStep ==
  ASSUME Types, Progress, Next
  PROVE  Types'
<1> DEFINE Opens == /\ phase' \in [Rank -> {"start", "listen", "dial", "dialing", "rows", "ids", "over"}]
                    /\ attempt' \in Nat \ {0} /\ queue' \in Seq(Nat) /\ link' \in [Rank -> Nat]
                    /\ outcome' \in [Rank -> {"running", "ok", "mismatch", "threw"}]
<1>1. ASSUME UNCHANGED <<input, data>>, Opens PROVE Types'
  BY <1>1 DEF Types, input, data
<1>2. 0 \in Rank /\ 1 \in Rank
  BY DEF Rank
<1>3. CASE Listen
  <2>1. Opens BY <1>3, <1>2 DEF Types, Listen, Goto, opening
  <2> QED BY <1>1, <1>3, <2>1 DEF Listen
<1>4. CASE ListenFails
  <2>1. Opens BY <1>4, <1>2 DEF Types, ListenFails, Leave, Goto, opening
  <2> QED BY <1>1, <1>4, <2>1 DEF ListenFails, data
<1>5. CASE Accept
  <2>1. Head(queue) \in Nat
    BY <1>5, HeadTailProperties DEF Types, Accept
  <2>2. PICK c \in Nat : link' = [link EXCEPT ![0] = c]
    BY <1>5, <2>1 DEF Accept
  <2>3. link' \in [Rank -> Nat]
    BY <2>2 DEF Types
  <2>4. phase' \in [Rank -> {"start", "listen", "dial", "dialing", "rows", "ids", "over"}]
    BY <1>5 DEF Types, Accept, Goto
  <2>5. Opens BY <1>5, <2>3, <2>4, EmptySeq DEF Types, Accept
  <2> QED BY <1>1, <1>5, <2>5 DEF Accept
<1>6. CASE AcceptTimeout
  <2>1. queue' \in Seq(Nat) /\ attempt' \in Nat \ {0}
    BY <1>6, EmptySeq DEF Types, AcceptTimeout
  <2>2. phase' = [phase EXCEPT ![0] = "over"] /\ link' = [link EXCEPT ![0] = 0]
        /\ outcome' = [outcome EXCEPT ![0] = "threw"]
    BY <1>6 DEF AcceptTimeout, Leave, Goto
  <2>3. Opens BY <2>1, <2>2, <1>2 DEF Types
  <2> QED BY <1>1, <1>6, <2>3 DEF AcceptTimeout
<1>7. CASE Dial
  <2>1. Opens BY <1>7, <1>2 DEF Types, Dial, Goto, opening
  <2> QED BY <1>1, <1>7, <2>1 DEF Dial
<1>8. CASE Establish
  <2>1. Append(queue, attempt) \in Seq(Nat)
    BY AppendProperties DEF Types
  <2>2. Opens BY <1>8, <1>2, <2>1 DEF Types, Establish
  <2> QED BY <1>1, <1>8, <2>2 DEF Establish
<1>9. CASE Connected
  <2>1. Opens BY <1>9, <1>2 DEF Types, Connected, Goto, opening
  <2> QED BY <1>1, <1>9, <2>1 DEF Connected
<1>10. CASE GiveUp
  <2>0. link \in [Rank -> Nat] /\ attempt \in Nat \ {0}
        /\ link' = [link EXCEPT ![1] = 0] /\ attempt' = attempt + 1
    BY <1>10 DEF Types, GiveUp
  <2>1. attempt' \in Nat \ {0} /\ link' \in [Rank -> Nat]
    BY <2>0, <1>2
  <2>2. phase' \in [Rank -> {"start", "listen", "dial", "dialing", "rows", "ids", "over"}]
    BY <1>10, <1>2 DEF Types, GiveUp, Goto
  <2>3. Opens BY <1>10, <2>1, <2>2 DEF Types, GiveUp
  <2> QED BY <1>1, <1>10, <2>3 DEF GiveUp
<1>11. CASE ConnectTimeout
  <2>1. Opens BY <1>11, <1>2 DEF Types, ConnectTimeout, Leave, Goto, opening
  <2> QED BY <1>1, <1>11, <2>1 DEF ConnectTimeout
<1>12. ASSUME NEW r \in Rank, Compare(r) PROVE Types'
  <2>1. Opens BY <1>12, <1>2 DEF Types, Compare, Leave, Goto, opening
  <2> QED BY <1>1, <1>12, <2>1 DEF Compare
<1>13. ASSUME NEW r \in Rank, Throw(r) PROVE Types'
  <2>1. Opens BY <1>13, <1>2 DEF Types, Throw, Leave, Goto, opening
  <2> QED BY <1>1, <1>13, <2>1 DEF Throw
<1>14. ASSUME NEW r \in Rank, SendWord(r) PROVE Types'
  <2>1. Sending(r) /\ Peer(r) \in Rank
    BY <1>14, Halves DEF SendWord
  <2>2. Word(r) \in Words
    BY <2>1, WordSent, WordTypes
  <2>3. Append(wire[Peer(r)], Word(r)) \in Seq(Words)
    BY <2>1, <2>2, AppendProperties DEF Types
  <2>4. wire' \in [Rank -> Seq(Words)]
    BY <1>14, <2>3 DEF Types, SendWord
  <2>5. moved' \in [Rank -> Nat]
    BY <1>14 DEF Types, SendWord
  <2> QED BY <1>14, <2>4, <2>5 DEF Types, SendWord, input, opening
<1>15. ASSUME NEW r \in Rank, RecvWord(r) PROVE Types'
  <2> DEFINE word == Head(wire[r])
  <2>1. word \in Words /\ Tail(wire[r]) \in Seq(Words)
    BY <1>15, HeadTailProperties DEF Types, RecvWord
  <2>2. Value(word) \in Nat \cup {-1} /\ (word[1] # "row" => Value(word) \in Nat)
    BY <2>1, WordValues
  <2>3. wire' \in [Rank -> Seq(Words)] /\ moved' \in [Rank -> Nat]
    BY <1>15, <2>1 DEF Types, RecvWord
  <2> HIDE DEF word
  <2>4. dirty' \in [Rank -> BOOLEAN] /\ claim' \in [Rank -> Nat] /\ got' \in [Rank -> Seq(Nat \cup {-1})]
    <3>1. CASE phase[r] = "rows"
      <4>1. dirty' = [dirty EXCEPT ![r] = @ \/ word # Word(r)] /\ claim' = claim /\ got' = got
        BY <1>15, <3>1 DEF RecvWord, IsCount, word
      <4> QED BY <4>1 DEF Types
    <3>2. CASE IsCount(r)
      <4>1. dirty' = dirty /\ got' = got
            /\ \E count \in Counts(r, word) : claim' = [claim EXCEPT ![r] = count]
        BY <1>15, <3>2 DEF RecvWord, IsCount, word
      <4>2. Counts(r, word) \subseteq Nat
        BY <2>2 DEF Counts
      <4> QED BY <4>1, <4>2 DEF Types
    <3>3. CASE phase[r] # "rows" /\ ~IsCount(r)
      <4>1. dirty' = dirty /\ claim' = claim /\ got' = [got EXCEPT ![r] = Append(@, Value(word))]
        BY <1>15, <3>3 DEF RecvWord, word
      <4>2. Append(got[r], Value(word)) \in Seq(Nat \cup {-1})
        BY <2>2, AppendProperties DEF Types
      <4> QED BY <4>1, <4>2 DEF Types
    <3> QED BY <3>1, <3>2, <3>3
  <2> QED BY <1>15, <2>3, <2>4 DEF Types, RecvWord, input, opening
<1>16. ASSUME NEW r \in Rank, NextTransfer(r) PROVE Types'
  <2>1. step' \in [Rank -> Nat \ {0}] /\ moved' \in [Rank -> Nat]
    BY <1>16 DEF Types, NextTransfer
  <2> QED BY <1>16, <2>1 DEF Types, NextTransfer, input, opening
<1>17. ASSUME NEW r \in Rank, NextToken(r) PROVE Types'
  <2>1. PICK id \in NextIds(r) :
          /\ tokens' = [tokens EXCEPT ![r] = Append(@, id)]
          /\ Goto(r, IF id \in Eos \/ Len(tokens[r]) + 1 = budget[r] THEN "ids" ELSE "rows")
    BY <1>17 DEF NextToken
  <2>2. id \in Token
    BY <1>17, <2>1, NextIdsType DEF NextToken
  <2>3. Append(tokens[r], id) \in Seq(Token)
    BY <2>2, AppendProperties DEF Types
  <2>4. tokens' \in [Rank -> Seq(Token)]
    BY <2>1, <2>3 DEF Types
  <2>5. phase' \in [Rank -> {"start", "listen", "dial", "dialing", "rows", "ids", "over"}]
    BY <2>1 DEF Goto, Types
  <2>6. step' \in [Rank -> Nat \ {0}] /\ moved' \in [Rank -> Nat]
    BY <1>17 DEF Types, NextToken
  <2> QED BY <1>17, <2>4, <2>5, <2>6 DEF Types, NextToken, input, opening
<1>18. CASE Stopped
  BY <1>18 DEF Types, Stopped, vars
<1>19. ASSUME NEW r \in Rank, Decode(r) PROVE Types'
  BY <1>12, <1>13, <1>14, <1>15, <1>16, <1>17, <1>19 DEF Decode
<1> QED BY <1>2, <1>3, <1>4, <1>5, <1>6, <1>7, <1>8, <1>9, <1>10, <1>11, <1>18, <1>19
        DEF Next, Rank0Next, Rank1Next

(* The steps of the two hosts, for the other parts of the invariant.       *)
LEMMA TypesThere == ASSUME Types, Progress, Next
  PROVE tokens' \in [Rank -> Seq(Token)] /\ claim' \in [Rank -> Nat]
BY TypesStep DEF Types

-----------------------------------------------------------------------------
(* The steps that move words, transfers or tokens. *)
DataStep(r) == SendWord(r) \/ RecvWord(r) \/ NextTransfer(r) \/ NextToken(r)

LEMMA DataStill ==
  ASSUME Types, Progress, NEW r \in Rank, DataStep(r), Next
  PROVE  /\ Busy(r) /\ Busy(r)' /\ phase'[Peer(r)] = phase[Peer(r)]
         /\ Still(Peer(r)) /\ UNCHANGED <<input, opening, link, outcome>>
<1>1. tokens' \in [Rank -> Seq(Token)] /\ claim' \in [Rank -> Nat]
  BY TypesThere
<1>2. CASE SendWord(r)
  BY <1>2, SendPlaces DEF SendWord, Sending, Moving, Busy
<1>3. CASE RecvWord(r)
  BY <1>1, <1>3, RecvPlaces DEF RecvWord, Receiving, Moving, Busy
<1>4. CASE NextTransfer(r)
  BY <1>4, NextPlaces DEF NextTransfer, Finished, Busy
<1>5. CASE NextToken(r)
  <2>1. phase[r] = "rows" /\ \E to \in {"ids", "rows"} : phase' = [phase EXCEPT ![r] = to]
    BY <1>5 DEF NextToken, Goto
  <2>2. Busy(r) /\ Busy(r)' /\ phase'[Peer(r)] = phase[Peer(r)]
    BY <2>1, Halves DEF Busy, Types
  <2>3. Still(Peer(r))
    BY <1>1, <1>5, TokenPlaces
  <2> QED BY <1>5, <2>2, <2>3 DEF NextToken
<1> QED BY <1>2, <1>3, <1>4, <1>5 DEF DataStep

(* Rank 1 connects to a host that has not accepted it, and then has        *)
(* nothing to send or to read.                                             *)
LEMMA Started ==
  ASSUME Types, Opening, Progress, NEW r \in Rank, DataStep(r)
  PROVE  phase[0] \notin {"start", "listen"} /\ Busy(r)
<1>1. Busy(r)
  BY DEF DataStep, SendWord, Sending, RecvWord, Receiving, Moving, NextTransfer, NextToken, Finished
<1>2. SUFFICES ASSUME phase[0] \in {"start", "listen"} PROVE FALSE
  BY <1>1
<1>3. r = 1 /\ Unstarted(1) /\ wire[1] = << >>
  BY <1>1, <1>2 DEF Opening, Busy, Rank
<1>4. ~Ended(1) /\ step[1] = 1 /\ moved[1] = 0
  BY <1>3 DEF Unstarted, Ended, Complete
<1>5. ~SendsRows(1, 1)
  BY DEF SendsRows
<1>6. ~Sends(1)
  BY <1>1, <1>3, <1>4, <1>5, Doing DEF SendsAt
<1>7. Size(1) = Mine(0)
  BY <1>1, <1>3, <1>4, <1>5, Doing DEF SizeNow, SizeAt, Peer
<1>8. moved[1] # Size(1)
  BY <1>4, <1>7, Halves DEF Rank
<1> QED BY <1>3, <1>6, <1>8 DEF DataStep, SendWord, Sending, RecvWord, NextTransfer, NextToken, Finished

-----------------------------------------------------------------------------
(* The connection.                                                         *)
LEMMA OpeningStep ==
  ASSUME Types, Opening, Progress, Next
  PROVE  Opening'
<1>1. /\ 0 \in Rank /\ 1 \in Rank /\ Rank = {0, 1} /\ attempt \in Nat \ {0} /\ link \in [Rank -> Nat]
      /\ queue \in Seq(Nat) /\ phase \in [Rank -> {"start", "listen", "dial", "dialing", "rows", "ids", "over"}]
      /\ outcome \in [Rank -> {"running", "ok", "mismatch", "threw"}]
      /\ step \in [Rank -> Nat \ {0}] /\ moved \in [Rank -> Nat]
  BY DEF Rank, Types
<1> DEFINE Fresh == /\ Unstarted(0) /\ Unstarted(1) /\ wire[0] = << >> /\ wire[1] = << >>
<1>2. UNCHANGED data => /\ (Unstarted(0) => Unstarted(0)') /\ (Unstarted(1) => Unstarted(1)')
                        /\ (Fresh => Fresh')
  BY DEF Unstarted, data
<1> HIDE DEF Fresh
<1>3. CASE Listen
  BY <1>1, <1>2, <1>3 DEF Listen, Goto, Opening, Busy, Fresh, opening
<1>4. CASE ListenFails
  BY <1>1, <1>2, <1>4 DEF ListenFails, Leave, Goto, Opening, Busy, Fresh, opening
<1>5. CASE Accept
  BY <1>1, <1>2, <1>5 DEF Accept, Goto, Opening, Busy, Fresh
<1>6. CASE AcceptTimeout
  BY <1>1, <1>2, <1>6 DEF AcceptTimeout, Leave, Goto, Opening, Busy, Fresh
<1>7. CASE Dial
  BY <1>1, <1>2, <1>7 DEF Dial, Goto, Opening, Busy, Fresh, opening
<1>8. CASE Establish
  BY <1>1, <1>2, <1>8 DEF Establish, Opening, Busy, Fresh
<1>9. CASE Connected
  BY <1>1, <1>2, <1>9 DEF Connected, Goto, Opening, Busy, Fresh, opening
<1>10. CASE GiveUp
  BY <1>1, <1>2, <1>10 DEF GiveUp, Goto, Opening, Busy, Fresh
<1>11. CASE ConnectTimeout
  BY <1>1, <1>2, <1>11 DEF ConnectTimeout, Leave, Goto, Opening, Busy, Fresh, opening
<1>12. ASSUME NEW r \in Rank, Busy(r), Leave(r, "threw") \/ Leave(r, "ok") \/ Leave(r, "mismatch"),
              UNCHANGED <<opening, data>>
       PROVE  Opening'
  BY <1>1, <1>2, <1>12 DEF Leave, Goto, Opening, Busy, Fresh, opening
<1>13. ASSUME NEW r \in Rank, Compare(r) PROVE Opening'
  BY <1>12, <1>13 DEF Compare, Busy
<1>14. ASSUME NEW r \in Rank, Throw(r) PROVE Opening'
  BY <1>12, <1>14 DEF Throw, Moving, PeerGone, ComputeFails, BadCount, IsCount, Busy
<1>15. ASSUME NEW r \in Rank, DataStep(r) PROVE Opening'
  <2>1. Busy(r) /\ phase[0] \notin {"start", "listen"}
    BY <1>15, Started
  <2>2. Still(Peer(r)) /\ UNCHANGED <<opening, link, outcome>>
        /\ phase'[Peer(r)] = phase[Peer(r)] /\ Busy(r)'
    BY <1>15, DataStill
  <2> QED BY <1>1, <2>1, <2>2 DEF Opening, Busy, Peer, opening, Unstarted, Still
<1>16. CASE Stopped
  BY <1>1, <1>2, <1>16 DEF Stopped, vars, Opening, Busy, Unstarted, data
<1>17. ASSUME NEW r \in Rank, Decode(r) PROVE Opening'
  BY <1>13, <1>14, <1>15, <1>17 DEF Decode, DataStep
<1> QED BY <1>1, <1>3, <1>4, <1>5, <1>6, <1>7, <1>8, <1>9, <1>10, <1>11, <1>16, <1>17
        DEF Next, Rank0Next, Rank1Next

(* Every other step leaves the data alone.  A rank begins with nothing and *)
(* ends by a verdict, and the two ends meet only at the start.             *)
LEMMA OtherSteps ==
  ASSUME Types, Opening, Next, ~DataStep(0), ~DataStep(1)
  PROVE  /\ UNCHANGED <<input, data>> /\ Still(0) /\ Still(1)
         /\ link'[0] = link'[1] /\ link'[0] # 0 =>
              (link[0] = link[1] /\ link[0] # 0) \/ (Unstarted(0) /\ Unstarted(1) /\ wire[0] = << >> /\ wire[1] = << >>)
         /\ \A r \in Rank :
              /\ phase'[r] = "rows" => phase[r] = "rows" \/ Unstarted(r)
              /\ phase'[r] = "ids" => phase[r] = "ids"
              /\ \/ outcome'[r] = outcome[r]
                 \/ outcome'[r] = "threw" /\ (Throw(r) \/ Unstarted(r))
                 \/ Compare(r)
<1> DEFINE Parts ==
      /\ UNCHANGED <<input, data>>
      /\ link'[0] = link'[1] /\ link'[0] # 0 =>
           (link[0] = link[1] /\ link[0] # 0) \/ (Unstarted(0) /\ Unstarted(1) /\ wire[0] = << >> /\ wire[1] = << >>)
      /\ \A r \in Rank :
           /\ phase'[r] = "rows" => phase[r] = "rows" \/ Unstarted(r)
           /\ phase'[r] = "ids" => phase[r] = "ids"
           /\ \/ outcome'[r] = outcome[r]
              \/ outcome'[r] = "threw" /\ (Throw(r) \/ Unstarted(r))
              \/ Compare(r)
<1>0. SUFFICES Parts
  BY DEF Still, data
<1>1. /\ 0 \in Rank /\ 1 \in Rank /\ Rank = {0, 1} /\ attempt \in Nat \ {0} /\ link \in [Rank -> Nat]
      /\ phase \in [Rank -> {"start", "listen", "dial", "dialing", "rows", "ids", "over"}]
      /\ outcome \in [Rank -> {"running", "ok", "mismatch", "threw"}]
  BY DEF Rank, Types
<1>2. /\ phase[0] \in {"start", "listen"} =>
           Unstarted(0) /\ Unstarted(1) /\ wire[0] = << >> /\ wire[1] = << >>
      /\ phase[1] \in {"dial", "dialing"} => Unstarted(1)
      /\ link[0] <= attempt /\ (phase[1] = "dial" => link[0] < attempt)
      /\ link[1] = IF phase[1] \in {"dialing", "rows", "ids"} THEN attempt ELSE 0
  BY DEF Opening
<1>3. CASE Listen
  BY <1>1, <1>2, <1>3 DEF Listen, Goto
<1>4. CASE ListenFails
  BY <1>1, <1>2, <1>4 DEF ListenFails, Leave, Goto
<1>5. CASE Accept
  BY <1>1, <1>2, <1>5 DEF Accept, Goto, input
<1>6. CASE AcceptTimeout
  BY <1>1, <1>2, <1>6 DEF AcceptTimeout, Leave, Goto
<1>7. CASE Dial
  BY <1>1, <1>2, <1>7 DEF Dial, Goto
<1>8. CASE Establish
  BY <1>1, <1>2, <1>8 DEF Establish
<1>9. CASE Connected
  BY <1>1, <1>2, <1>9 DEF Connected, Goto
<1>10. CASE GiveUp
  BY <1>1, <1>2, <1>10 DEF GiveUp, Goto
<1>11. CASE ConnectTimeout
  BY <1>1, <1>2, <1>11 DEF ConnectTimeout, Leave, Goto
<1>12. ASSUME NEW r \in Rank, Compare(r) PROVE Parts
  <2>1. \E result \in {"ok", "mismatch"} : Leave(r, result)
    BY <1>12 DEF Compare
  <2>2. UNCHANGED <<input, data>>
    BY <1>12 DEF Compare
  <2> QED BY <1>1, <1>12, <2>1, <2>2 DEF Leave, Goto
<1>13. ASSUME NEW r \in Rank, Throw(r) PROVE Parts
  <2>1. Leave(r, "threw") /\ UNCHANGED <<input, data>>
    BY <1>13 DEF Throw
  <2> QED BY <1>1, <1>13, <2>1 DEF Leave, Goto
<1>14. CASE Stopped
  BY <1>1, <1>14 DEF Stopped, vars, input, data
<1>15. ASSUME NEW r \in Rank, Decode(r) PROVE Parts
  <2>1. ~DataStep(r)
    BY <1>1
  <2> QED BY <1>12, <1>13, <1>15, <2>1 DEF Decode, DataStep
<1> QED
  BY <1>1, <1>3, <1>4, <1>5, <1>6, <1>7, <1>8, <1>9, <1>10, <1>11, <1>14, <1>15
     DEF Next, Rank0Next, Rank1Next

-----------------------------------------------------------------------------
(* Where a rank can be.                                                    *)
LEMMA SizeType ==
  ASSUME NEW r \in Rank, NEW n \in Nat, NEW ended \in BOOLEAN, NEW s, NEW count \in Nat
  PROVE  SizeAt(r, n, ended, s, count) \in Nat
BY Halves DEF SizeAt

LEMMA ProgressStep ==
  ASSUME Types, Opening, Progress, Next
  PROVE  Progress'
<1> DEFINE At(r) ==
      /\ Length(r) <= budget[r]
      /\ \A i \in 1..Length(r) - 1 : tokens[r][i] \notin Eos
      /\ Length(r) = budget[r] => Ended(r)
      /\ phase[r] = "rows" => ~Ended(r)
      /\ phase[r] = "ids" => Ended(r)
      /\ step[r] <= LastStep(Ended(r))
      /\ moved[r] <= SizeNow(r)
<1>1. \A r \in Rank : At(r)
  BY DEF Progress
<1>2. SUFFICES ASSUME NEW r \in Rank PROVE At(r)'
  BY DEF Progress
<1>3. At(r) /\ 0 \in Rank /\ 1 \in Rank
  BY <1>1 DEF Rank
<1>4. ASSUME Still(r), UNCHANGED budget,
             phase'[r] = "rows" => phase[r] = "rows" \/ Unstarted(r), phase'[r] = "ids" => phase[r] = "ids"
      PROVE  At(r)'
  <2>1. Ended(r)' = Ended(r) /\ Length(r)' = Length(r) /\ SizeNow(r)' = SizeNow(r)
    BY <1>4, StillThere
  <2>2. tokens'[r] = tokens[r] /\ step'[r] = step[r] /\ moved'[r] = moved[r]
    BY <1>4 DEF Still
  <2>3. Unstarted(r) => ~Ended(r)
    BY DEF Unstarted, Ended, Complete
  <2> QED BY <1>3, <1>4, <2>1, <2>2, <2>3
<1>5. CASE ~DataStep(0) /\ ~DataStep(1)
  <2>1. Still(r) /\ UNCHANGED budget
    BY <1>5, OtherSteps DEF Rank, input
  <2>2. /\ phase'[r] = "rows" => phase[r] = "rows" \/ Unstarted(r)
        /\ phase'[r] = "ids" => phase[r] = "ids"
    BY <1>5, OtherSteps
  <2> QED BY <1>4, <2>1, <2>2
<1>6. ASSUME NEW q \in Rank, DataStep(q) PROVE At(r)'
  <2>1. /\ Busy(q) /\ phase'[Peer(q)] = phase[Peer(q)]
        /\ Still(Peer(q)) /\ UNCHANGED <<input, opening, link, outcome>>
    BY <1>6, DataStill
  <2>2. CASE r # q
    <3>1. r = Peer(q)
      BY <2>2 DEF Rank, Peer
    <3> QED BY <1>4, <2>1, <3>1 DEF input
  <2>3. CASE r = q
    <3>1. tokens' \in [Rank -> Seq(Token)] /\ claim' \in [Rank -> Nat]
      BY TypesThere
    <3>2. CASE SendWord(r)
      <4>1. phase' = phase
        BY <3>2 DEF SendWord
      <4> QED BY <1>3, <3>2, <4>1, SendPlaces
    <3>3. CASE RecvWord(r)
      <4>1. phase' = phase
        BY <3>3 DEF RecvWord
      <4> QED BY <1>3, <3>1, <3>3, <4>1, RecvPlaces
    <3>4. CASE NextTransfer(r)
      <4>1. phase' = phase
        BY <3>4 DEF NextTransfer
      <4>2. Ended(r)' = Ended(r) /\ Length(r)' = Length(r) /\ step'[r] = step[r] + 1 /\ moved'[r] = 0
            /\ step[r] < LastStep(Ended(r)) /\ tokens'[r] = tokens[r] /\ UNCHANGED budget
            /\ claim'[r] = claim[r]
        BY <3>4, NextPlaces
      <4>3. SizeNow(r)' \in Nat
        BY <4>2, SizeType, Lists DEF SizeNow
      <4>4. step[r] \in Nat /\ LastStep(Ended(r)) \in Nat
        BY Lists, Halves DEF LastStep
      <4>5. step'[r] <= LastStep(Ended(r)) /\ moved'[r] <= SizeNow(r)'
        BY <4>2, <4>3, <4>4
      <4> QED BY <1>3, <4>1, <4>2, <4>5
    <3>5. CASE NextToken(r)
      <4>1. PICK id \in NextIds(r) :
              /\ tokens' = [tokens EXCEPT ![r] = Append(@, id)]
              /\ Goto(r, IF id \in Eos \/ Len(tokens[r]) + 1 = budget[r] THEN "ids" ELSE "rows")
        BY <3>5 DEF NextToken
      <4>2. /\ ~Ended(r) /\ Length(r)' = Length(r) + 1 /\ step'[r] = 1 /\ moved'[r] = 0
            /\ claim'[r] = claim[r] /\ UNCHANGED budget
        BY <3>1, <3>5, TokenPlaces
      <4>3. Length(r) + 1 <= budget[r] /\ id \in Token
        BY <3>5, <4>1, NextIdsType DEF NextToken
      <4>4. /\ tokens[r] \in Seq(Token) /\ Length(r) \in Nat /\ claim[r] \in Nat /\ Length(r) = Len(tokens[r])
        BY Lists DEF Length
      <4>5. tokens'[r] = Append(tokens[r], id)
            /\ phase'[r] = IF id \in Eos \/ Length(r) + 1 = budget[r] THEN "ids" ELSE "rows"
        BY <4>1, <4>4 DEF Goto, Types
      <4>6. /\ Len(tokens'[r]) = Length(r) + 1 /\ tokens'[r] # << >> /\ tokens'[r][Length(r) + 1] = id
            /\ \A i \in 1..Length(r) : tokens'[r][i] = tokens[r][i]
        BY <4>3, <4>4, <4>5, AppendProperties
      <4>7. Ended(r)' <=> id \in Eos \/ Length(r) + 1 = budget[r]
        BY <4>2, <4>6 DEF Ended, Complete
      <4>8. \A i \in 1..Length(r) : tokens[r][i] \notin Eos
        <5>1. Length(r) >= 1 => tokens[r][Length(r)] \notin Eos
          <6>1. Length(r) >= 1 => tokens[r] # << >>
            BY <4>4, EmptySeq
          <6> QED BY <4>2, <4>4, <6>1 DEF Ended, Complete
        <5>2. \A i \in 1..Length(r) : i \in 1..Length(r) - 1 \/ (i = Length(r) /\ Length(r) >= 1)
          BY <4>4
        <5> QED BY <1>3, <5>1, <5>2
      <4>9. \A i \in 1..Length(r)' - 1 : tokens'[r][i] \notin Eos
        <5>1. Length(r)' - 1 = Length(r)
          BY <4>2, <4>4
        <5> QED BY <4>6, <4>8, <5>1
      <4>10. step'[r] <= LastStep(Ended(r))'
        BY <4>2, Halves DEF LastStep
      <4>11. SizeNow(r)' \in Nat
        <5>1. Length(r)' \in Nat /\ Ended(r)' \in BOOLEAN /\ claim'[r] \in Nat
          BY <4>2, <4>4 DEF Ended, Complete
        <5> QED BY <5>1, SizeType DEF SizeNow
      <4>12. Length(r)' <= budget'[r] /\ (Length(r)' = budget'[r] => Ended(r)')
             /\ (phase'[r] = "rows" => ~Ended(r)') /\ (phase'[r] = "ids" => Ended(r)')
        BY <4>2, <4>3, <4>5, <4>7
      <4> QED BY <4>2, <4>9, <4>10, <4>11, <4>12
    <3> QED BY <1>6, <2>3, <3>2, <3>3, <3>4, <3>5 DEF DataStep
  <2> QED BY <2>2, <2>3
<1> QED BY <1>3, <1>5, <1>6

-----------------------------------------------------------------------------
(* The wires.                                                              *)
LEMMA NothingMoved ==
  ASSUME NEW p \in Rank, NEW r \in Rank, Unstarted(r)
  PROVE  Place(p, r) = 0
<1>1. ~Ended(r) /\ Length(r) = 0 /\ step[r] = 1 /\ moved[r] = 0
  BY DEF Unstarted, Ended, Complete, Length
<1>2. OfTokens(p, 0) = 0
  BY TokensGrow
<1>3. OfRows(p, 1, 0) = 0
  BY PlaceToken
<1> QED BY <1>1, <1>2, <1>3 DEF Place, PlaceAt

(* The same words remain after a step of either rank. *)
LEMMA WordsKept ==
  ASSUME Types, Opening, Progress, Next, NEW p \in Rank, NEW i, NEW word, WordAt(p, i, word)
  PROVE  WordAt(p, i, word)'
<1>1. CASE ~DataStep(0) /\ ~DataStep(1)
  <2>1. Still(p) /\ UNCHANGED budget
    BY <1>1, OtherSteps DEF Rank, input
  <2> QED BY <2>1, WordsSame DEF Still
<1>2. ASSUME NEW q \in Rank, DataStep(q) PROVE WordAt(p, i, word)'
  <2>1. Still(Peer(q)) /\ UNCHANGED budget
    BY <1>2, DataStill DEF input
  <2>2. CASE p # q
    <3>1. p = Peer(q)
      BY <2>2 DEF Rank, Peer
    <3> QED BY <2>1, <3>1, WordsSame DEF Still
  <2>3. CASE p = q
    <3>1. tokens' \in [Rank -> Seq(Token)] /\ claim' \in [Rank -> Nat]
      BY TypesThere
    <3>2. CASE NextToken(p)
      <4>1. ~Ended(p) /\ Length(p)' = Length(p) + 1 /\ Length(p) \in Nat
        BY <3>1, <3>2, TokenPlaces, Lists
      <4> QED BY <4>1, WordsStay
    <3>3. CASE ~NextToken(p)
      <4>1. tokens' = tokens
        BY <1>2, <2>3, <3>3 DEF DataStep, SendWord, RecvWord, NextTransfer
      <4> QED BY <2>1, <4>1, WordsSame
    <3> QED BY <3>2, <3>3
  <2> QED BY <2>2, <2>3
<1> QED BY <1>1, <1>2 DEF Rank

LEMMA InboundSame ==
  ASSUME Types, Opening, Progress, Next, NEW r \in Rank, Inbound(r), wire'[r] = wire[r],
         Taken(r)' = Taken(r), Sent(Peer(r))' = Sent(Peer(r)) \/ Sent(Peer(r))' = Sent(Peer(r)) + 1
  PROVE  Inbound(r)'
<1>1. Peer(r) \in Rank
  BY Halves
<1>2. Taken(r) \in Nat /\ Sent(Peer(r)) \in Nat /\ Len(wire[r]) \in Nat
  BY <1>1, Places, Lists DEF Taken, Sent
<1>3. Taken(r) + Len(wire[r]) <= Sent(Peer(r)) /\ \A k \in 1..Len(wire[r]) : WordAt(Peer(r), Taken(r) + k, wire[r][k])
  BY DEF Inbound
<1>4. \A k \in 1..Len(wire[r]) : WordAt(Peer(r), Taken(r) + k, wire[r][k])'
  BY <1>1, <1>3, WordsKept
<1> QED BY <1>2, <1>3, <1>4 DEF Inbound

(* A rank sends while its end is held, or after it was dropped.            *)
LEMMA HeldOrGone ==
  ASSUME Types, Opening, Progress, NEW r \in Rank, SendWord(r), ~Gone(r)
  PROVE  link[0] = link[1] /\ link[0] # 0
<1>1. Busy(r) /\ phase[0] \notin {"start", "listen"}
  BY Started DEF DataStep
<1>2. queue = << >>
  BY <1>1 DEF Opening
<1>3. link[Peer(r)] = link[r]
  BY <1>2 DEF Gone, Waiting
<1>4. link[r] # 0
  BY <1>1 DEF Opening, Types, Rank, Busy
<1> QED BY <1>3, <1>4 DEF Rank, Peer

LEMMA StreamsStep ==
  ASSUME Types, Opening, Progress, Streams, Next
  PROVE  Streams'
<1>1. /\ 0 \in Rank /\ 1 \in Rank /\ \A r \in Rank : Inbound(r)
      /\ link[0] = link[1] /\ link[0] # 0 => \A r \in Rank : Taken(r) + Len(wire[r]) = Sent(Peer(r))
  BY DEF Streams, Rank
<1>2. tokens' \in [Rank -> Seq(Token)] /\ claim' \in [Rank -> Nat]
  BY TypesThere
<1>3. \A r \in Rank : Peer(r) \in Rank /\ Peer(Peer(r)) = r /\ Taken(r) \in Nat /\ Sent(r) \in Nat
                      /\ Len(wire[r]) \in Nat /\ wire[r] \in Seq(Words)
  BY Halves, Places, Lists DEF Taken, Sent
<1>4. CASE ~DataStep(0) /\ ~DataStep(1)
  <2>1. Still(0) /\ Still(1) /\ UNCHANGED budget /\ wire' = wire
    BY <1>4, OtherSteps DEF input, data
  <2>2. \A r \in Rank : Taken(r)' = Taken(r) /\ Sent(r)' = Sent(r)
    BY <1>3, <2>1, StillThere DEF Taken, Sent, Rank
  <2>3. \A r \in Rank : Inbound(r)'
    BY <1>1, <1>3, <2>1, <2>2, InboundSame
  <2>4. ASSUME link'[0] = link'[1], link'[0] # 0, NEW r \in Rank
        PROVE  Taken(r)' + Len(wire'[r]) = Sent(Peer(r))'
    <3>1. CASE link[0] = link[1] /\ link[0] # 0
      <4>1. Peer(r) \in Rank /\ Taken(r) + Len(wire[r]) = Sent(Peer(r))
        BY <1>1, <1>3, <3>1
      <4> QED BY <2>1, <2>2, <4>1
    <3>2. CASE Unstarted(0) /\ Unstarted(1) /\ wire[0] = << >> /\ wire[1] = << >>
      <4>1. Taken(r) = 0 /\ Sent(Peer(r)) = 0
        BY <3>2, <1>3, NothingMoved DEF Taken, Sent, Rank
      <4>2. Len(wire'[r]) = 0
        BY <2>1, <3>2, EmptySeq DEF Rank
      <4> QED BY <1>3, <2>2, <4>1, <4>2
    <3> QED BY <1>4, <2>4, <3>1, <3>2, OtherSteps
  <2> QED BY <2>3, <2>4 DEF Streams
<1>5. ASSUME NEW q \in Rank, DataStep(q) PROVE Streams'
  <2> DEFINE p == Peer(q)
  <2>1. Still(p) /\ UNCHANGED <<budget, link>> /\ p \in Rank /\ Peer(p) = q /\ p # q /\ Rank = {q, p}
    BY <1>5, DataStill, Halves DEF input, Rank, Peer
  <2>2. Sent(p)' = Sent(p) /\ Taken(p)' = Taken(p)
    BY <2>1, StillThere DEF Sent, Taken
  <2>3. Inbound(q) /\ Inbound(p)
    BY <1>1, <2>1
  <2> HIDE DEF p
  <2>4. CASE SendWord(q)
    <3>1. Sent(q)' = Sent(q) + 1 /\ Taken(q)' = Taken(q)
      BY <2>4, SendPlaces DEF Sent, Taken
    <3>2. CASE Gone(q)
      <4>1. wire' = wire
        BY <2>4, <3>2 DEF SendWord
      <4>2. Inbound(p)' /\ Inbound(q)'
        BY <2>1, <2>2, <2>3, <3>1, <4>1, InboundSame DEF p
      <4>3. link[0] # link[1]
        BY <3>2 DEF Gone, Rank, Peer
      <4> QED BY <2>1, <4>2, <4>3 DEF Streams
    <3>3. CASE ~Gone(q)
      <4>1. link[0] = link[1] /\ link[0] # 0
        BY <2>4, <3>3, HeldOrGone
      <4>2. Taken(p) + Len(wire[p]) = Sent(q) /\ Taken(q) + Len(wire[q]) = Sent(p)
        BY <1>1, <2>1, <4>1 DEF p
      <4>3. wire'[q] = wire[q] /\ wire'[p] = Append(wire[p], Word(q))
        BY <2>1, <2>4, <3>3 DEF SendWord, Types, p
      <4>4. Sending(q)
        BY <2>4 DEF SendWord
      <4>5. WordAt(q, Sent(q) + 1, Word(q)) /\ Word(q) \in Words
        BY <4>4, WordSent, WordTypes
      <4>6. Len(wire'[p]) = Len(wire[p]) + 1 /\ wire'[p][Len(wire[p]) + 1] = Word(q)
            /\ \A k \in 1..Len(wire[p]) : wire'[p][k] = wire[p][k]
        BY <1>3, <2>1, <4>3, <4>5, AppendProperties
      <4>7. Inbound(q)'
        BY <2>1, <2>2, <2>3, <3>1, <4>3, InboundSame DEF p
      <4>8. Inbound(p)'
        <5>1. Taken(p)' + Len(wire'[p]) = Sent(q)'
          BY <1>3, <2>1, <2>2, <3>1, <4>2, <4>6
        <5>2. ASSUME NEW k \in 1..Len(wire'[p]) PROVE WordAt(q, Taken(p) + k, wire[p][k])'
          <6>1. CASE k \in 1..Len(wire[p])
            <7>1. WordAt(q, Taken(p) + k, wire[p][k])
              BY <2>1, <2>3, <6>1 DEF Inbound
            <7> QED BY <2>2, <4>6, <6>1, <7>1, WordsKept
          <6>2. CASE k = Len(wire[p]) + 1
            <7>1. Taken(p)' + k = Sent(q) + 1
              BY <1>3, <2>1, <2>2, <4>2, <6>2
            <7> QED BY <4>5, <4>6, <6>2, <7>1, WordsKept
          <6> QED BY <1>3, <2>1, <4>6, <6>1, <6>2
        <5>3. Taken(p)' + Len(wire'[p]) <= Sent(q)'
          BY <1>3, <2>1, <3>1, <5>1
        <5> QED BY <2>1, <5>2, <5>3 DEF Inbound
      <4>9. Taken(p)' + Len(wire'[p]) = Sent(q)' /\ Taken(q)' + Len(wire'[q]) = Sent(p)'
        BY <1>3, <2>1, <2>2, <3>1, <4>2, <4>3, <4>6
      <4> QED BY <2>1, <4>7, <4>8, <4>9 DEF Streams, p
    <3> QED BY <3>2, <3>3
  <2>5. CASE RecvWord(q)
    <3>1. Sent(q)' = Sent(q) /\ Taken(q)' = Taken(q) + 1
      BY <1>2, <2>5, RecvPlaces DEF Sent, Taken
    <3>2. wire[q] # << >> /\ wire'[q] = Tail(wire[q]) /\ wire'[p] = wire[p]
      BY <2>1, <2>5 DEF RecvWord, Types
    <3>3. Len(wire'[q]) = Len(wire[q]) - 1 /\ \A k \in 1..Len(wire'[q]) : wire'[q][k] = wire[q][k + 1]
      BY <1>3, <3>2, HeadTailProperties
    <3>4. Len(wire[q]) >= 1
      BY <1>3, <3>2, EmptySeq
    <3>5. Inbound(p)'
      BY <2>1, <2>2, <2>3, <3>1, <3>2, InboundSame
    <3>6. Inbound(q)'
      <4>1. Taken(q) + Len(wire[q]) <= Sent(p) /\ \A k \in 1..Len(wire[q]) : WordAt(p, Taken(q) + k, wire[q][k])
        BY <2>3 DEF Inbound, p
      <4>2. Taken(q)' + Len(wire'[q]) = Taken(q) + Len(wire[q])
        BY <1>3, <3>1, <3>3, <3>4
      <4>3. ASSUME NEW k \in 1..Len(wire'[q]) PROVE WordAt(p, Taken(q) + k, wire[q][k])'
        <5>1. k + 1 \in 1..Len(wire[q]) /\ Taken(q)' + k = Taken(q) + (k + 1)
          <6>1. Len(wire[q]) \in Nat /\ Taken(q) \in Nat /\ Len(wire'[q]) = Len(wire[q]) - 1
            BY <1>3, <3>3
          <6>2. k \in 1..Len(wire[q]) - 1
            BY <6>1
          <6> QED BY <3>1, <3>4, <6>1, <6>2
        <5>2. WordAt(p, Taken(q) + (k + 1), wire[q][k + 1])
          BY <4>1, <5>1
        <5> QED BY <2>1, <3>3, <5>1, <5>2, WordsKept
      <4> QED BY <2>2, <4>1, <4>2, <4>3 DEF Inbound, p
    <3>7. link[0] = link[1] /\ link[0] # 0 =>
            Taken(p)' + Len(wire'[p]) = Sent(q)' /\ Taken(q)' + Len(wire'[q]) = Sent(p)'
      <4>1. Taken(q)' + Len(wire'[q]) = Taken(q) + Len(wire[q])
        BY <1>3, <3>1, <3>3, <3>4
      <4> QED BY <1>1, <2>1, <2>2, <3>1, <3>2, <4>1 DEF p
    <3> QED BY <2>1, <3>5, <3>6, <3>7 DEF Streams, p
  <2>6. CASE NextTransfer(q) \/ NextToken(q)
    <3>1. Sent(q)' = Sent(q) /\ Taken(q)' = Taken(q)
      BY <1>2, <1>3, <2>6, NextPlaces, TokenPlaces DEF Sent, Taken
    <3>2. wire' = wire
      BY <2>6 DEF NextTransfer, NextToken
    <3>3. Inbound(p)' /\ Inbound(q)'
      BY <2>1, <2>2, <2>3, <3>1, <3>2, InboundSame DEF p
    <3> QED BY <1>1, <2>1, <2>2, <3>1, <3>2, <3>3 DEF Streams, p
  <2> QED BY <1>5, <2>4, <2>5, <2>6 DEF DataStep
<1> QED BY <1>1, <1>4, <1>5

-----------------------------------------------------------------------------
(* What a rank read.                                                       *)

(* A list only grows, and not once it has ended. *)
LEMMA ListGrows ==
  ASSUME Types, Opening, Progress, Next, NEW q \in Rank
  PROVE  \/ Ended(q)' = Ended(q) /\ Length(q)' = Length(q)
         \/ NextToken(q) /\ ~Ended(q) /\ Length(q)' = Length(q) + 1
<1>1. tokens' \in [Rank -> Seq(Token)] /\ claim' \in [Rank -> Nat]
  BY TypesThere
<1>2. ASSUME UNCHANGED <<tokens[q], budget>> PROVE Ended(q)' = Ended(q) /\ Length(q)' = Length(q)
  BY <1>2 DEF Ended, Complete, Length
<1>3. CASE ~DataStep(0) /\ ~DataStep(1)
  <2>1. Still(q) /\ UNCHANGED budget
    BY <1>3, OtherSteps DEF Rank, input
  <2> QED BY <1>2, <2>1 DEF Still
<1>4. ASSUME NEW r \in Rank, DataStep(r), ~NextToken(q) PROVE UNCHANGED <<tokens[q], budget>>
  <2>1. Still(Peer(r)) /\ UNCHANGED budget
    BY <1>4, DataStill DEF input
  <2>2. q = r \/ q = Peer(r)
    BY DEF Rank, Peer
  <2>3. q = r => tokens' = tokens
    BY <1>4 DEF DataStep, SendWord, RecvWord, NextTransfer
  <2> QED BY <2>1, <2>2, <2>3 DEF Still
<1>5. CASE NextToken(q)
  BY <1>1, <1>5, TokenPlaces
<1> QED BY <1>2, <1>3, <1>4, <1>5 DEF Rank

LEMMA BeyondStays ==
  ASSUME Types, Opening, Progress, Next, NEW r \in Rank, Beyond(r)
  PROVE  Beyond(r)'
<1> DEFINE p == Peer(r)
<1>1. p \in Rank
  BY Halves
<1>2. Length(r) \in Nat /\ Length(p) \in Nat
  BY <1>1, Lists
<1>3. Ended(p) /\ (Length(p) < Length(r) \/ (Length(p) = Length(r) /\ ~Ended(r)))
  BY DEF Beyond
<1>4. Ended(p)' /\ Length(p)' = Length(p)
  BY <1>1, <1>3, ListGrows
<1>5. CASE Ended(r)' = Ended(r) /\ Length(r)' = Length(r)
  BY <1>3, <1>4, <1>5 DEF Beyond
<1>6. CASE Length(r)' = Length(r) + 1
  <2>1. Length(p)' < Length(r)'
    BY <1>2, <1>3, <1>4, <1>6
  <2> QED BY <1>4, <2>1 DEF Beyond
<1> QED BY <1>5, <1>6, ListGrows

(* The first word that r takes for the count, and for an id. *)
From(r) == OfTokens(Peer(r), Length(r)) + 1

LEMMA ReadingSame ==
  ASSUME Types, Opening, Progress, Next, NEW r \in Rank, Reading(r),
         Length(r)' = Length(r), got'[r] = got[r], claim'[r] = claim[r], dirty'[r] => dirty[r] \/ Beyond(r),
         CountRead(r)' <=> CountRead(r), CountRead(r) => IdsRead(r)' = IdsRead(r)
  PROVE  Reading(r)'
<1> DEFINE p == Peer(r)
           from == OfTokens(p, Length(r)) + 1
<1>1. p \in Rank /\ from' = from
  BY Halves
<1>2. dirty'[r] => Beyond(r)'
  BY BeyondStays DEF Reading
<1>3. ~CountRead(r)' => got'[r] = << >>
  BY DEF Reading
<1>4. ASSUME CountRead(r)'
      PROVE  /\ Len(got'[r]) = IdsRead(r)'
             /\ \E word \in Words :
                  /\ WordAt(p, from, word)'
                  /\ word[1] # "row" => claim'[r] = word[2]
                  /\ word[1] = "row" /\ got'[r] # << >> => got'[r][1] = -1
             /\ \A k \in 1..Len(got'[r]) :
                  \E word \in Words : WordAt(p, from + k, word)' /\ got'[r][k] = Value(word)
  <2>1. /\ Len(got[r]) = IdsRead(r)
        /\ \E word \in Words :
             /\ WordAt(p, from, word)
             /\ word[1] # "row" => claim[r] = word[2]
             /\ word[1] = "row" /\ got[r] # << >> => got[r][1] = -1
        /\ \A k \in 1..Len(got[r]) :
             \E word \in Words : WordAt(p, from + k, word) /\ got[r][k] = Value(word)
    BY <1>4 DEF Reading
  <2>2. \A i, word : WordAt(p, i, word) => WordAt(p, i, word)'
    BY <1>1, WordsKept
  <2> HIDE DEF from, p
  <2>3. Len(got'[r]) = IdsRead(r)'
    BY <1>4, <2>1
  <2>4. \E word \in Words :
          /\ WordAt(p, from, word)'
          /\ word[1] # "row" => claim'[r] = word[2]
          /\ word[1] = "row" /\ got'[r] # << >> => got'[r][1] = -1
    <3>1. PICK word \in Words :
             /\ WordAt(p, from, word)
             /\ word[1] # "row" => claim[r] = word[2]
             /\ word[1] = "row" /\ got[r] # << >> => got[r][1] = -1
      BY <2>1
    <3>2. WordAt(p, from, word)'
      BY <1>1, <2>2, <3>1 DEF p
    <3> QED BY <3>1, <3>2
  <2>5. ASSUME NEW k \in 1..Len(got'[r])
        PROVE  \E word \in Words : WordAt(p, from + k, word)' /\ got'[r][k] = Value(word)
    <3>1. PICK word \in Words : WordAt(p, from + k, word) /\ got[r][k] = Value(word)
      BY <2>1
    <3>2. WordAt(p, from + k, word)'
      BY <1>1, <2>2, <3>1 DEF p
    <3> QED BY <3>1, <3>2
  <2> QED BY <2>3, <2>4, <2>5
<1> QED BY <1>1, <1>2, <1>3, <1>4 DEF Reading

(* A host that reads rows for the count reads a row for the first id too:  *)
(* the other host is at least a shard of two words ahead or behind.        *)
LEMMA FirstId ==
  ASSUME Types, Progress, Streams, NEW r \in Rank, Ended(r), r = 1 => step[r] = 2,
         NEW word, WordAt(Peer(r), From(r), word), word[1] = "row",
         NEW next, WordAt(Peer(r), From(r) + 1, next)
  PROVE  next[1] = "row"
<1> DEFINE p == Peer(r)
           T == Gathers * Mine(p)
<1>1. p \in Rank /\ Peer(p) = r /\ From(r) = OfTokens(p, Length(r)) + 1
  BY Halves DEF From
<1>2. Length(r) \in Nat /\ Length(p) \in Nat /\ OfTokens(p, Length(r)) \in Nat /\ OfTokens(p, Length(p)) \in Nat
      /\ From(r) \in Nat /\ T \in Nat /\ T >= Mine(p) /\ Mine(p) \in Nat /\ Mine(p) >= 1
  <2>1. Length(r) \in Nat /\ Length(p) \in Nat /\ Mine(p) \in Nat /\ Mine(p) >= 1
    BY <1>1, Lists, Halves
  <2>2. OfTokens(p, Length(r)) \in Nat /\ OfTokens(p, Length(p)) \in Nat
    BY <1>1, <2>1, TokensGrow
  <2>3. T \in Nat /\ T >= Mine(p)
    BY <1>1, <2>1, TokensGrow
  <2> QED BY <1>1, <2>1, <2>2, <2>3
<1>3. RowAt(p, From(r), word)
  BY <1>1, <1>2, WordRange
<1>4. CASE ~Ended(p)
  <2>1. RowAt(p, From(r) + 1, next)
    BY <1>4 DEF WordAt, CountAt, IdAt
  <2> QED BY <1>1, <1>2, <2>1, WordRange
<1>5. CASE Ended(p)
  <2>1. From(r) <= OfTokens(p, Length(p))
    BY <1>1, <1>2, <1>3, <1>5, WordRange
  <2>2. Length(r) < Length(p)
    <3>1. Length(p) < Length(r) => OfTokens(p, Length(p)) + T <= OfTokens(p, Length(r))
      BY <1>1, <1>2, TokensGrow
    <3>2. Length(p) = Length(r) => OfTokens(p, Length(p)) = OfTokens(p, Length(r))
      OBVIOUS
    <3> HIDE DEF T, p
    <3> QED BY <1>1, <1>2, <2>1, <3>1, <3>2
  <2>3. OfTokens(p, Length(r)) + T <= OfTokens(p, Length(p))
    BY <1>1, <1>2, <2>2, TokensGrow
  <2>4. CASE r = 0
    <3>1. T >= 2
      <4>1. p = 1
        BY <2>4 DEF Peer
      <4>2. Mine(1) >= 2 /\ Mine(1) \in Nat
        BY Halves DEF Rank
      <4> QED BY <1>2, <4>1, <4>2
    <3>2. From(r) + 1 <= OfTokens(p, Length(p)) /\ From(r) + 1 \in Nat
      <4> HIDE DEF T, p
      <4> QED BY <1>1, <1>2, <2>3, <3>1
    <3> QED BY <1>1, <1>2, <1>5, <3>2, WordRange
  <2>5. CASE r = 1
    <3>1. p = 0 /\ Peer(0) = 1 /\ 0 \in Rank /\ 1 \in Rank
      BY <2>5 DEF Peer, Rank
    <3>2. Taken(0) <= Sent(1)
      <4>1. Inbound(0) /\ Taken(0) \in Nat /\ Sent(1) \in Nat /\ Len(wire[0]) \in Nat
        BY <3>1, Places, Lists DEF Streams, Taken, Sent
      <4> QED BY <3>1, <4>1 DEF Inbound
    <3>3. Sent(1) = OfTokens(1, Length(1))
      <4>1. Sent(1) = OfTokens(1, Length(1)) + OfFinal(1, 2, moved[1], Length(1))
        BY <2>5 DEF Sent, Place, PlaceAt
      <4>2. OfFinal(1, 2, moved[1], Length(1)) = 0
        BY DEF OfFinal
      <4>3. OfTokens(1, Length(1)) \in Nat
        BY <3>1, TokensGrow, Lists
      <4> QED BY <4>1, <4>2, <4>3
    <3>4. Taken(0) >= OfTokens(1, Length(0))
      <4>1. Taken(0) = OfTokens(1, Length(0)) + OfFinal(1, step[0], moved[0], claim[0])
        BY <1>5, <3>1 DEF Taken, Place, PlaceAt
      <4>2. OfFinal(1, step[0], moved[0], claim[0]) \in Nat
        BY <3>1, Lists DEF OfFinal
      <4>3. OfTokens(1, Length(0)) \in Nat
        BY <3>1, Lists, TokensGrow
      <4> QED BY <4>1, <4>2, <4>3
    <3>5. OfTokens(1, Length(1)) + Gathers * Mine(1) <= OfTokens(1, Length(0))
      BY <1>2, <2>2, <2>5, <3>1, TokensGrow
    <3>6. Gathers * Mine(1) \in Nat /\ Gathers * Mine(1) >= Mine(1) /\ Mine(1) >= 2 /\ Mine(1) \in Nat
      BY <3>1, TokensGrow, Halves, Lists
    <3>7. /\ Taken(0) \in Nat /\ Sent(1) \in Nat
          /\ OfTokens(1, Length(1)) \in Nat /\ OfTokens(1, Length(0)) \in Nat
      BY <3>1, Places, Lists, TokensGrow DEF Taken, Sent
    <3> DEFINE U == Gathers * Mine(1)
    <3>8. U \in Nat /\ U >= 2 /\ OfTokens(1, Length(1)) + U <= OfTokens(1, Length(0))
      BY <3>5, <3>6
    <3> HIDE DEF U
    <3> QED BY <3>2, <3>3, <3>4, <3>7, <3>8
  <2> QED BY <2>4, <2>5 DEF Rank
<1> QED BY <1>4, <1>5

LEMMA ReadingStep ==
  ASSUME Types, Opening, Progress, Streams, NEW r \in Rank, Reading(r), Next
  PROVE  Reading(r)'
<1>1. tokens' \in [Rank -> Seq(Token)] /\ claim' \in [Rank -> Nat]
  BY TypesThere
<1>2. ASSUME Still(r), UNCHANGED budget PROVE Reading(r)'
  <2>1. /\ Length(r)' = Length(r) /\ got'[r] = got[r] /\ claim'[r] = claim[r] /\ dirty'[r] = dirty[r]
        /\ IdsRead(r)' = IdsRead(r)
    BY <1>2, StillThere DEF Still
  <2>2. CountRead(r)' <=> CountRead(r)
    BY <1>2, StillThere
  <2> QED BY <2>1, <2>2, ReadingSame
<1>3. CASE ~DataStep(0) /\ ~DataStep(1)
  <2>1. Still(r) /\ UNCHANGED budget
    BY <1>3, OtherSteps DEF Rank, input
  <2> QED BY <1>2, <2>1
<1>4. ASSUME DataStep(Peer(r)) PROVE Reading(r)'
  <2>1. Still(r) /\ UNCHANGED budget
    BY <1>4, DataStill, Halves DEF input
  <2> QED BY <1>2, <2>1
<1>5. CASE SendWord(r)
  <2>1. /\ Ended(r)' = Ended(r) /\ Length(r)' = Length(r) /\ moved'[r] = moved[r] + 1
        /\ step'[r] = step[r] /\ claim'[r] = claim[r] /\ got'[r] = got[r] /\ dirty'[r] = dirty[r]
    BY <1>5, SendPlaces
  <2>2. Busy(r) /\ Sends(r)
    BY <1>5 DEF SendWord, Sending, Moving
  <2>3. Ended(r) => (IF r = 0 THEN step[r] \in {1, 2} ELSE step[r] \in {3, 4})
    BY <2>2, Doing DEF SendsAt, LastStep, Rank
  <2>4. (CountRead(r)' <=> CountRead(r)) /\ (CountRead(r) => IdsRead(r)' = IdsRead(r))
    BY <2>1, <2>3 DEF CountRead, IdsRead, Rank
  <2> QED BY <2>1, <2>4, ReadingSame
<1>6. CASE NextTransfer(r)
  <2>1. /\ Ended(r)' = Ended(r) /\ Length(r)' = Length(r) /\ moved'[r] = 0 /\ moved[r] = SizeNow(r)
        /\ step'[r] = step[r] + 1 /\ claim'[r] = claim[r] /\ got'[r] = got[r] /\ dirty'[r] = dirty[r]
        /\ step[r] < LastStep(Ended(r))
    BY <1>6, NextPlaces
  <2>2. Ended(r) => step[r] \in {1, 2, 3} /\ (step[r] \in {1, 3} => moved[r] = 1)
                    /\ (step[r] = 2 /\ r = 1 => moved[r] = claim[r])
    <3>1. Ended(r) => step[r] \in Nat \ {0} /\ step[r] < 4
      BY <2>1, Lists DEF LastStep
    <3>2. Ended(r) => step[r] \in {1, 2, 3}
      BY <3>1
    <3> QED BY <2>1, <3>2 DEF SizeNow, SizeAt, SendsAt
  <2>3. (CountRead(r)' <=> CountRead(r)) /\ (CountRead(r) => IdsRead(r)' = IdsRead(r))
    BY <2>1, <2>2 DEF CountRead, IdsRead, Rank
  <2> QED BY <2>1, <2>3, ReadingSame
<1>7. CASE NextToken(r)
  <2>1. ~Ended(r) /\ step'[r] = 1 /\ moved'[r] = 0 /\ got'[r] = got[r] /\ dirty'[r] = dirty[r]
    BY <1>1, <1>7, TokenPlaces
  <2>2. ~CountRead(r) /\ ~CountRead(r)'
    BY <2>1 DEF CountRead
  <2>3. got'[r] = << >> /\ (dirty'[r] => Beyond(r)')
    BY <2>1, <2>2, BeyondStays DEF Reading
  <2> QED BY <2>2, <2>3 DEF Reading
<1>8. CASE RecvWord(r)
  <2> DEFINE p == Peer(r)
  <2>0. PICK word : word = Head(wire[r])
    OBVIOUS
  <2>1. /\ Ended(r)' = Ended(r) /\ Length(r)' = Length(r) /\ moved'[r] = moved[r] + 1
        /\ step'[r] = step[r] /\ UNCHANGED tokens
    BY <1>1, <1>8, RecvPlaces DEF RecvWord
  <2>2. Receiving(r) /\ Busy(r) /\ ~Sends(r) /\ moved[r] < Size(r) /\ wire[r] # << >> /\ p \in Rank
    BY <1>8, Halves DEF RecvWord, Receiving, Moving
  <2>3. /\ phase[r] = "rows" <=> ~Ended(r)
        /\ step[r] \in 1..LastStep(Ended(r)) /\ Size(r) = SizeNow(r)
        /\ ~SendsAt(r, Ended(r), step[r])
        /\ IsCount(r) <=> Ended(r) /\ step[r] \in {1, 3}
    BY <2>2, Doing
  <2>4. Length(r) \in Nat /\ moved[r] \in Nat /\ OfTokens(p, Length(r)) \in Nat
    BY <2>2, Lists, TokensGrow
  <2>5. WordAt(p, Taken(r) + 1, word) /\ word \in Words
    <3>1. Len(wire[r]) \in Nat /\ Len(wire[r]) >= 1 /\ word = wire[r][1]
      BY <2>0, <2>2, Lists, EmptySeq
    <3>2. 1 \in 1..Len(wire[r])
      BY <3>1
    <3>3. WordAt(p, Taken(r) + 1, word)
      BY <3>1, <3>2 DEF Streams, Inbound
    <3> QED BY <2>2, <3>3, WordTypes
  <2>6. Ended(r) => IF r = 0 THEN step[r] \in {3, 4} ELSE step[r] \in {1, 2}
    BY <2>3 DEF SendsAt, LastStep, Rank
  <2>7. Ended(r) /\ step[r] \in {1, 3} => Taken(r) = OfTokens(p, Length(r)) + moved[r]
    BY <2>6 DEF Taken, Place, PlaceAt, OfFinal, Rank, Peer
  <2>8. Ended(r) /\ step[r] \in {2, 4} => Taken(r) = OfTokens(p, Length(r)) + (1 + moved[r])
    BY <2>6 DEF Taken, Place, PlaceAt, OfFinal, Rank, Peer
  <2>9. CASE phase[r] = "rows"
    <3>1. dirty' = [dirty EXCEPT ![r] = @ \/ word # Word(r)] /\ claim' = claim /\ got' = got
      BY <1>8, <2>0, <2>9 DEF RecvWord, IsCount
    <3>2. dirty'[r] => dirty[r] \/ word # Word(r)
      BY <3>1 DEF Types
    <3>3. dirty'[r] => dirty[r] \/ Beyond(r)
      BY <2>2, <2>5, <2>9, <3>2, RowsInStep
    <3>4. ~CountRead(r) /\ ~CountRead(r)'
      BY <2>1, <2>3, <2>9 DEF CountRead
    <3> QED BY <2>1, <3>1, <3>3, <3>4, ReadingSame
  <2>10. CASE IsCount(r)
    <3>0. PICK from : from = OfTokens(p, Length(r)) + 1 /\ from = (OfTokens(p, Length(r)) + 1)'
      BY <2>1
    <3>1. /\ dirty' = dirty /\ got' = got
          /\ \E count \in Counts(r, word) : claim' = [claim EXCEPT ![r] = count]
      BY <1>8, <2>0, <2>10 DEF RecvWord, IsCount
    <3>2. claim'[r] \in Counts(r, word)
      BY <3>1 DEF Types
    <3>3. Ended(r) /\ step[r] \in {1, 3} /\ moved[r] = 0
      <4>1. SizeNow(r) = 1
        BY <2>3, <2>10 DEF SizeNow, SizeAt
      <4> QED BY <2>2, <2>3, <2>4, <2>10, <4>1
    <3>4. ~CountRead(r) /\ CountRead(r)' /\ IdsRead(r)' = 0
      BY <2>1, <2>6, <3>3 DEF CountRead, IdsRead, Rank
    <3>5. got'[r] = << >> /\ Len(got'[r]) = 0
      BY <3>1, <3>4, EmptySeq DEF Reading
    <3>6. word[1] # "row" => claim'[r] = word[2]
      BY <2>5, <3>2, WordValues DEF Counts
    <3>7. Taken(r) + 1 = from
      BY <2>4, <2>7, <3>0, <3>3
    <3>8. WordAt(p, from, word)'
      BY <2>2, <2>5, <3>7, WordsKept
    <3>9. dirty'[r] => Beyond(r)'
      BY <3>1, BeyondStays DEF Reading
    <3>10. \A k \in 1..Len(got'[r]) : FALSE
      BY <3>5
    <3> QED BY <2>5, <3>0, <3>4, <3>5, <3>6, <3>8, <3>9, <3>10 DEF Reading
  <2>11. CASE phase[r] # "rows" /\ ~IsCount(r)
    <3>0. PICK from : from = OfTokens(p, Length(r)) + 1 /\ from = (OfTokens(p, Length(r)) + 1)'
      BY <2>1
    <3>1. dirty' = dirty /\ claim' = claim /\ got' = [got EXCEPT ![r] = Append(@, Value(word))]
      BY <1>8, <2>0, <2>11 DEF RecvWord
    <3>2. Ended(r) /\ step[r] \in {2, 4} /\ (r = 1 => step[r] = 2)
      BY <2>3, <2>6, <2>11 DEF LastStep
    <3>3. CountRead(r) /\ CountRead(r)' /\ IdsRead(r) = moved[r] /\ IdsRead(r)' = moved[r] + 1
      BY <2>1, <2>6, <3>2 DEF CountRead, IdsRead, Rank
    <3>4. /\ Len(got[r]) = moved[r]
          /\ \A k \in 1..Len(got[r]) :
               \E given \in Words : WordAt(p, from + k, given) /\ got[r][k] = Value(given)
      BY <3>0, <3>3 DEF Reading
    <3>5. /\ Len(got'[r]) = moved[r] + 1 /\ got'[r][moved[r] + 1] = Value(word)
          /\ \A k \in 1..moved[r] : got'[r][k] = got[r][k]
      <4>1. got[r] \in Seq(Nat \cup {-1}) /\ Value(word) \in Nat \cup {-1}
        BY <2>5, WordValues DEF Types
      <4>2. got'[r] = Append(got[r], Value(word))
        BY <3>1 DEF Types
      <4> QED BY <3>4, <4>1, <4>2, AppendProperties
    <3>6. Taken(r) + 1 = from + (moved[r] + 1)
      BY <2>4, <2>8, <3>0, <3>2
    <3>7. \A k \in 1..Len(got'[r]) :
            \E given \in Words : WordAt(p, from + k, given)' /\ got'[r][k] = Value(given)
      <4>1. ASSUME NEW k \in 1..moved[r]
            PROVE  \E given \in Words : WordAt(p, from + k, given)' /\ got'[r][k] = Value(given)
        <5>1. PICK given \in Words : WordAt(p, from + k, given) /\ got[r][k] = Value(given)
          BY <3>4
        <5>2. WordAt(p, from + k, given)'
          BY <2>2, <5>1, WordsKept
        <5> QED BY <3>5, <5>1, <5>2
      <4>2. ASSUME NEW k, k = moved[r] + 1
            PROVE  \E given \in Words : WordAt(p, from + k, given)' /\ got'[r][k] = Value(given)
        <5>1. WordAt(p, from + k, word)'
          BY <2>2, <2>5, <3>6, <4>2, WordsKept
        <5> QED BY <2>5, <3>5, <4>2, <5>1
      <4>3. \A k \in 1..Len(got'[r]) : k \in 1..moved[r] \/ k = moved[r] + 1
        BY <2>4, <3>5
      <4> QED BY <4>1, <4>2, <4>3
    <3>8. \E given \in Words :
            /\ WordAt(p, from, given)'
            /\ given[1] # "row" => claim'[r] = given[2]
            /\ given[1] = "row" /\ got'[r] # << >> => got'[r][1] = -1
      <4>1. PICK given \in Words :
               /\ WordAt(p, from, given)
               /\ given[1] # "row" => claim[r] = given[2]
               /\ given[1] = "row" /\ got[r] # << >> => got[r][1] = -1
        BY <3>0, <3>3 DEF Reading
      <4>2. WordAt(p, from, given)'
        BY <2>2, <4>1, WordsKept
      <4>3. given[1] = "row" => got'[r][1] = -1
        <5>1. CASE moved[r] = 0
          <6>1. WordAt(p, from + 1, word)
            BY <2>5, <3>6, <5>1
          <6>2. given[1] = "row" => word[1] = "row"
            BY <3>0, <3>2, <4>1, <6>1, FirstId DEF From
          <6> QED BY <2>5, <3>5, <5>1, <6>2, WordValues
        <5>2. CASE moved[r] # 0
          <6>1. 1 \in 1..moved[r] /\ got[r] # << >>
            BY <2>4, <3>4, <5>2, EmptySeq
          <6> QED BY <3>5, <4>1, <6>1
        <5> QED BY <5>1, <5>2
      <4>4. claim'[r] = claim[r]
        BY <3>1
      <4> QED BY <4>1, <4>2, <4>3, <4>4
    <3>9. dirty'[r] => Beyond(r)'
      BY <3>1, BeyondStays DEF Reading
    <3>10. Len(got'[r]) = IdsRead(r)'
      BY <3>3, <3>5
    <3> QED BY <3>0, <3>3, <3>7, <3>8, <3>9, <3>10 DEF Reading
  <2> QED BY <2>9, <2>10, <2>11
<1> QED BY <1>3, <1>4, <1>5, <1>6, <1>7, <1>8 DEF DataStep, Rank, Peer

-----------------------------------------------------------------------------
(* The lists.                                                              *)

(* Of two hosts with one budget whose lists agree as far as both go, none  *)
(* reads past the end of the other's rows.                                 *)
LEMMA NoneBeyond ==
  ASSUME Types, Progress, budget[0] = budget[1], NEW r \in Rank,
         \A i \in Nat : i \in 1..Length(0) /\ i \in 1..Length(1) => tokens[0][i] = tokens[1][i]
  PROVE  ~Beyond(r)
<1> DEFINE p == Peer(r)
           n == Length(p)
<1>1. p \in Rank /\ budget[p] = budget[r]
      /\ \A i \in Nat : i \in 1..Length(p) /\ i \in 1..Length(r) => tokens[p][i] = tokens[r][i]
  BY DEF Rank, Peer
<1>2. SUFFICES ASSUME Beyond(r) PROVE FALSE
  OBVIOUS
<1>3. Ended(p) /\ (n < Length(r) \/ (n = Length(r) /\ ~Ended(r)))
  BY <1>2 DEF Beyond
<1>4. /\ n \in Nat /\ Length(r) \in Nat /\ n >= 1 /\ n = Len(tokens[p]) /\ Length(r) = Len(tokens[r])
      /\ budget[r] \in Nat
  BY <1>1, <1>3, Lists DEF Length
<1>5. /\ Length(r) <= budget[r] /\ (Length(r) = budget[r] => Ended(r))
      /\ \A i \in 1..Length(r) - 1 : tokens[r][i] \notin Eos
  BY DEF Progress
<1>6. n = budget[p] \/ tokens[p][n] \in Eos
  BY <1>3, <1>4 DEF Ended, Complete
<1> HIDE DEF n
<1>7. CASE n = budget[p]
  BY <1>1, <1>3, <1>4, <1>5, <1>7
<1>8. CASE tokens[p][n] \in Eos
  <2>1. n \in 1..Length(p) /\ n \in 1..Length(r)
    BY <1>3, <1>4 DEF n
  <2>2. tokens[r][n] \in Eos
    BY <1>1, <1>4, <1>8, <2>1
  <2>3. CASE n < Length(r)
    <3>1. n \in 1..Length(r) - 1
      BY <1>4, <2>3
    <3> QED BY <1>5, <2>2, <3>1
  <2>4. CASE n = Length(r) /\ ~Ended(r)
    <3>1. tokens[r] # << >>
      BY <1>4, <2>4, EmptySeq
    <3> QED BY <1>4, <2>2, <2>4, <3>1 DEF Ended, Complete
  <2> QED BY <1>3, <2>3, <2>4
<1> QED BY <1>6, <1>7, <1>8

LEMMA AlikeTogether ==
  ASSUME Types, Progress, Following, Alike, NEW r \in Rank
  PROVE  ~Beyond(r)
<1>1. budget[0] = budget[1] /\ 0 \in Rank /\ 1 \in Rank
  BY DEF Alike, Rank
<1>2. \A i \in Nat : i \in 1..Length(0) /\ i \in 1..Length(1) => tokens[0][i] = tokens[1][i]
  BY <1>1 DEF Following
<1> QED BY <1>1, <1>2, NoneBeyond

LEMMA FollowingStep ==
  ASSUME Types, Opening, Progress, Following, \A r \in Rank : Reading(r), Next
  PROVE  Following'
<1>1. tokens' \in [Rank -> Seq(Token)] /\ claim' \in [Rank -> Nat]
  BY TypesThere
<1>2. UNCHANGED input
  BY OtherSteps, DataStill DEF Rank
<1>3. SUFFICES ASSUME NEW r \in Rank, Alike, NEW i \in 1..Length(r)' PROVE tokens'[r][i] = truth[i]
  BY <1>2 DEF Following, Alike, input
<1>4. CASE tokens'[r] = tokens[r]
  BY <1>3, <1>4 DEF Following, Length
<1>5. CASE NextToken(r)
  <2>1. PICK id \in NextIds(r) : tokens'[r] = Append(tokens[r], id)
    BY <1>1, <1>5, TokenPlaces
  <2>2. id \in Token
    BY <1>5, <2>1, NextIdsType DEF NextToken
  <2>3. ~dirty[r] /\ ~odd
    BY <1>3, AlikeTogether DEF Reading, Alike
  <2>4. id = truth[Length(r) + 1]
    BY <2>1, <2>3 DEF NextIds, Length
  <2>5. tokens[r] \in Seq(Token) /\ Length(r) \in Nat /\ Length(r) = Len(tokens[r])
    BY Lists DEF Length
  <2>6. Length(r)' = Length(r) + 1 /\ tokens'[r][Length(r) + 1] = id
        /\ \A k \in 1..Length(r) : tokens'[r][k] = tokens[r][k]
    BY <2>1, <2>2, <2>5, AppendProperties DEF Length
  <2>7. i \in 1..Length(r) \/ i = Length(r) + 1
    BY <2>5, <2>6
  <2> QED BY <1>3, <2>4, <2>6, <2>7 DEF Following
<1>6. tokens'[r] = tokens[r] \/ NextToken(r)
  <2>1. CASE ~DataStep(0) /\ ~DataStep(1)
    BY <2>1, OtherSteps DEF data
  <2>2. ASSUME NEW q \in Rank, DataStep(q), ~NextToken(r) PROVE tokens'[r] = tokens[r]
    <3>1. Still(Peer(q))
      BY <2>2, DataStill
    <3>2. r = q \/ r = Peer(q)
      BY DEF Rank, Peer
    <3>3. r = q => tokens' = tokens
      BY <2>2 DEF DataStep, SendWord, RecvWord, NextTransfer
    <3> QED BY <3>1, <3>2, <3>3 DEF Still
  <2> QED BY <2>1, <2>2 DEF Rank
<1> QED BY <1>4, <1>5, <1>6

-----------------------------------------------------------------------------
(* What a rank that read everything knows of the other: that it has the    *)
(* same number of ids, and which; or else the two lists are not equally    *)
(* long, and what was read is not the rank's own list.                     *)
LEMMA Settled ==
  ASSUME Types, Progress, NEW r \in Rank, Reading(r), Judged(r)
  PROVE  \/ Ended(Peer(r)) /\ Length(Peer(r)) = Length(r) /\ got[r] = tokens[Peer(r)] /\ claim[r] = Length(r)
         \/ Beyond(Peer(r)) /\ got[r] # tokens[r]
         \/ Beyond(r) /\ got[r] # tokens[r]
<1> DEFINE p == Peer(r)
           n == Length(r)
           from == OfTokens(p, n) + 1
<1>1. p \in Rank /\ Peer(p) = r /\ Ended(r) /\ step[r] = 4 /\ moved[r] = SizeNow(r)
  BY Halves DEF Judged
<1>2. CountRead(r) /\ IdsRead(r) = claim[r]
  BY <1>1 DEF CountRead, IdsRead, SizeNow, SizeAt, SendsAt, Rank
<1>3. PICK word \in Words :
        /\ WordAt(p, from, word)
        /\ word[1] # "row" => claim[r] = word[2]
        /\ word[1] = "row" /\ got[r] # << >> => got[r][1] = -1
  BY <1>2 DEF Reading
<1>4. /\ Len(got[r]) = claim[r]
      /\ \A k \in 1..Len(got[r]) : \E given \in Words : WordAt(p, from + k, given) /\ got[r][k] = Value(given)
  BY <1>2 DEF Reading
<1>5. /\ n \in Nat /\ Length(p) \in Nat /\ n >= 1 /\ n = Len(tokens[r]) /\ Length(p) = Len(tokens[p])
      /\ tokens[r] \in Seq(Token) /\ tokens[p] \in Seq(Token) /\ Token \subseteq Nat
      /\ got[r] \in Seq(Nat \cup {-1}) /\ Len(got[r]) \in Nat
  BY <1>1, Lists, PeerAssumption DEF Length
<1>6. OfTokens(p, n) \in Nat /\ OfTokens(p, Length(p)) \in Nat /\ from \in Nat
      /\ Gathers * Mine(p) \in Nat /\ Gathers * Mine(p) >= 1
  <2>1. Mine(p) \in Nat /\ Mine(p) >= 1
    BY <1>1, Halves
  <2>2. OfTokens(p, n) \in Nat /\ Gathers * Mine(p) \in Nat /\ Gathers * Mine(p) >= Mine(p)
    BY <1>1, <1>5, TokensGrow
  <2>3. OfTokens(p, Length(p)) \in Nat
    BY <1>1, <1>5, TokensGrow
  <2>4. Gathers * Mine(p) >= 1
    BY <2>1, <2>2
  <2> QED BY <2>2, <2>3, <2>4
<1>7. /\ n < Length(p) => OfTokens(p, n) + Gathers * Mine(p) <= OfTokens(p, Length(p))
      /\ Length(p) < n => OfTokens(p, Length(p)) + Gathers * Mine(p) <= OfTokens(p, n)
  BY <1>1, <1>5, TokensGrow
<1> DEFINE T == Gathers * Mine(p)
           here == OfTokens(p, n)
           there == OfTokens(p, Length(p))
<1>8. /\ here \in Nat /\ there \in Nat /\ T \in Nat /\ T >= 1 /\ from = here + 1
      /\ (n < Length(p) => here + T <= there) /\ (Length(p) < n => there + T <= here)
      /\ (n = Length(p) => here = there)
  BY <1>6, <1>7
<1>9. CASE CountAt(p, from, word)
  <2>1. Ended(p) /\ from = there + 1 /\ word = <<"count", Length(p), 0>>
    BY <1>9 DEF CountAt
  <2>2. Length(p) = n
    <3> HIDE DEF here, there, T, from, n, p
    <3> QED BY <1>5, <1>8, <2>1
  <2>3. Len(got[r]) = Length(p) /\ claim[r] = Length(p)
    BY <1>3, <1>4, <2>1
  <2>4. ASSUME NEW k \in 1..Len(got[r]) PROVE got[r][k] = tokens[p][k]
    <3>1. PICK given \in Words : WordAt(p, from + k, given) /\ got[r][k] = Value(given)
      BY <1>4
    <3>2. ~RowAt(p, from + k, given) /\ ~CountAt(p, from + k, given)
      <4>1. from + k \in Nat /\ from + k > there + 1
        <5> HIDE DEF here, there, T, n, p
        <5> QED BY <1>5, <1>8, <2>1, <2>3, <2>4
      <4>2. ~CountAt(p, from + k, given)
        BY <1>8, <4>1 DEF CountAt
      <4>3. ~RowAt(p, from + k, given)
        BY <1>1, <1>8, <2>1, <3>1, <4>1, WordRange
      <4> QED BY <4>2, <4>3
    <3>3. PICK j \in 1..Length(p) : from + k = there + 1 + j /\ given = <<"id", tokens[p][j], 0>>
      BY <3>1, <3>2 DEF WordAt, IdAt
    <3>4. j = k
      <4> HIDE DEF here, there, T, n, p, from
      <4> QED BY <1>5, <1>8, <2>1, <2>3, <3>3
    <3> QED BY <3>1, <3>3, <3>4 DEF Value
  <2>5. got[r] = tokens[p]
    <3>1. tokens[p] \in Seq(Nat \cup {-1})
      BY <1>5, Token \subseteq Nat \cup {-1}, SeqMonotonic
    <3> QED BY <1>5, <2>3, <2>4, <3>1, SeqEqual
  <2> QED BY <2>1, <2>2, <2>3, <2>5
<1>10. CASE RowAt(p, from, word)
  <2>1. word[1] = "row"
    BY <1>1, <1>3, <1>6, <1>10, WordRange
  <2>2. got[r] # tokens[r]
    <3>1. tokens[r] # << >>
      BY <1>5, EmptySeq
    <3>2. tokens[r][1] \in Nat
      <4>1. 1 \in 1..Len(tokens[r])
        BY <1>5
      <4> QED BY <1>5, <4>1, ElementOfSeq
    <3> QED BY <1>3, <2>1, <3>1, <3>2
  <2>3. Ended(p) => n < Length(p)
    <3>1. Ended(p) => from <= there
      BY <1>1, <1>3, <1>6, <1>10, WordRange
    <3> HIDE DEF here, there, T, n, p, from
    <3> QED BY <1>5, <1>8, <3>1
  <2>4. ~Ended(p) => n <= Length(p)
    <3>1. PICK k \in 0..Length(p), s \in 1..2 * Gathers, m \in 0..Mine(p) - 1 :
            SendsRows(p, s) /\ from = OfTokens(p, k) + OfRows(p, s, m) + 1
      BY <1>10 DEF RowAt
    <3>2. k \in Nat /\ m \in Nat /\ m < Mine(p) /\ k <= Length(p)
      BY <1>1, <1>5, Halves
    <3>3. OfRows(p, s, m) \in Nat /\ OfRows(p, s, m) + 1 <= T
      BY <1>1, <3>1, <3>2, RowsBound
    <3>4. OfTokens(p, k) \in Nat /\ (k < n => OfTokens(p, k) + T <= here)
      BY <1>1, <1>5, <3>2, TokensGrow
    <3>5. n \in Nat /\ here \in Nat /\ T \in Nat /\ Length(p) \in Nat /\ from = here + 1
      BY <1>5, <1>8
    <3> HIDE DEF here, there, T, n, p, from
    <3>6. ~(k < n)
      BY <3>1, <3>2, <3>3, <3>4, <3>5
    <3> QED BY <3>2, <3>5, <3>6
  <2>5. Beyond(p)
    <3>1. n < Length(p) \/ (n = Length(p) /\ ~Ended(p))
      BY <1>5, <2>3, <2>4
    <3> QED BY <1>1, <3>1 DEF Beyond
  <2> QED BY <2>2, <2>5
<1>11. CASE IdAt(p, from, word)
  <2>1. PICK k \in 1..Length(p) : from = there + 1 + k /\ Ended(p)
    BY <1>11 DEF IdAt
  <2>2. Length(p) < n
    <3> HIDE DEF here, there, T, n, p, from
    <3> QED BY <1>5, <1>8, <2>1
  <2>3. Beyond(r)
    BY <2>1, <2>2 DEF Beyond
  <2>4. ASSUME got[r] = tokens[r] PROVE FALSE
    <3>1. n \in 1..Len(got[r])
      BY <1>5, <2>4
    <3>2. PICK given \in Words : WordAt(p, from + n, given)
      BY <1>4, <3>1
    <3>3. from + n \in Nat
      BY <1>5, <1>6
    <3>4. from + n <= there + 1 + Length(p)
      <4>1. ~RowAt(p, from + n, given) \/ from + n <= there
        BY <1>1, <2>1, <3>2, <3>3, WordRange
      <4>2. ~RowAt(p, from + n, given) => from + n <= there + 1 + Length(p)
        BY <1>1, <3>2, <3>3, WordRange
      <4>3. from + n <= there => from + n <= there + 1 + Length(p)
        BY <1>5, <1>8, <3>3
      <4> QED BY <4>1, <4>2, <4>3
    <3>5. from \in Nat /\ there \in Nat /\ n \in Nat /\ Length(p) \in Nat /\ from = there + 1 + k /\ Length(p) < n
      BY <1>5, <1>8, <2>1, <2>2
    <3> HIDE DEF here, there, T, n, p, from
    <3> QED BY <3>4, <3>5
  <2> QED BY <2>3, <2>4
<1> QED BY <1>3, <1>9, <1>10, <1>11 DEF WordAt

LEMMA VerdictsStep ==
  ASSUME Types, Opening, Progress, Verdicts, Next
  PROVE  Verdicts'
<1> DEFINE At(r) ==
      /\ outcome[r] = "ok" => Judged(r) /\ got[r] = tokens[r]
      /\ outcome[r] = "mismatch" => Judged(r) /\ got[r] # tokens[r]
      /\ outcome[r] = "threw" => ~Judged(r)
<1>1. SUFFICES ASSUME NEW r \in Rank PROVE At(r)'
  BY DEF Verdicts
<1>2. At(r) /\ outcome \in [Rank -> {"running", "ok", "mismatch", "threw"}]
      /\ (outcome[r] = "running" <=> phase[r] # "over")
  BY DEF Verdicts, Opening, Types
<1>3. ASSUME Still(r), UNCHANGED budget, outcome'[r] = outcome[r] PROVE At(r)'
  <2>1. (Judged(r)' <=> Judged(r)) /\ got'[r] = got[r] /\ tokens'[r] = tokens[r]
    BY <1>3, StillThere DEF Still
  <2> QED BY <1>2, <1>3, <2>1
<1>4. CASE ~DataStep(0) /\ ~DataStep(1)
  <2>1. Still(r) /\ UNCHANGED budget
    BY <1>4, OtherSteps DEF Rank, input
  <2>2. (Judged(r)' <=> Judged(r)) /\ got'[r] = got[r] /\ tokens'[r] = tokens[r]
    BY <2>1, StillThere DEF Still
  <2>3. CASE outcome'[r] = outcome[r]
    BY <1>3, <2>1, <2>3
  <2>4. CASE outcome'[r] = "threw" /\ Unstarted(r)
    BY <2>2, <2>4 DEF Unstarted, Judged
  <2>5. CASE outcome'[r] = "threw" /\ Throw(r)
    <3>1. ~Judged(r)
      <4>1. CASE Moving(r)
        <5>1. Busy(r) /\ moved[r] < Size(r)
          BY <4>1 DEF Moving
        <5>2. Size(r) = SizeNow(r) /\ Size(r) \in Nat /\ moved[r] \in Nat
          BY <5>1, Doing, Lists
        <5> QED BY <5>1, <5>2 DEF Judged
      <4>2. CASE phase[r] = "rows"
        BY <4>2 DEF Progress, Judged
      <4>3. CASE IsCount(r)
        BY <4>3 DEF IsCount, Judged
      <4> QED BY <2>5, <4>1, <4>2, <4>3 DEF Throw, PeerGone, ComputeFails, BadCount
    <3> QED BY <2>2, <2>5, <3>1
  <2>6. CASE Compare(r)
    <3>1. /\ phase[r] = "ids" /\ Busy(r) /\ moved[r] = Size(r) /\ step[r] = 4
          /\ outcome'[r] = IF got[r] = tokens[r] THEN "ok" ELSE "mismatch"
      BY <1>2, <2>6 DEF Compare, Finished, Leave, Matches
    <3>2. Judged(r)
      BY <3>1, Doing DEF Judged
    <3> QED BY <2>2, <3>1, <3>2
  <2> QED BY <1>4, <2>3, <2>4, <2>5, <2>6, OtherSteps
<1>5. ASSUME NEW q \in Rank, DataStep(q) PROVE At(r)'
  <2>1. Busy(q) /\ Still(Peer(q)) /\ UNCHANGED budget /\ outcome' = outcome
    BY <1>5, DataStill DEF input
  <2>2. r = q \/ r = Peer(q)
    BY DEF Rank, Peer
  <2>3. r = q => outcome[r] = "running"
    BY <1>2, <2>1 DEF Busy
  <2>4. CASE r = q
    BY <2>1, <2>3, <2>4
  <2> QED BY <1>3, <2>1, <2>2, <2>4
<1> QED BY <1>4, <1>5 DEF Rank

-----------------------------------------------------------------------------
(* The invariant holds in every state of every behaviour.                  *)
LEMMA InvariantInit == Init => PeerInvariant
<1>1. SUFFICES ASSUME Init PROVE PeerInvariant
  OBVIOUS
<1>2. 0 \in Rank /\ 1 \in Rank /\ Rank = {0, 1}
  BY DEF Rank
<1>3. Types
  BY <1>1, <1>2, PeerAssumption, EmptySeq DEF Init, Types
<1>4. Opening
  BY <1>1, <1>2 DEF Init, Opening, Busy, Unstarted
<1>5. \A r \in Rank : /\ Unstarted(r) /\ ~Ended(r) /\ Length(r) = 0 /\ wire[r] = << >> /\ ~dirty[r]
                      /\ got[r] = << >> /\ step[r] = 1 /\ moved[r] = 0 /\ claim[r] = 0
                      /\ outcome[r] = "running" /\ Len(wire[r]) = 0
  BY <1>1, <1>2, EmptySeq DEF Init, Unstarted, Ended, Complete, Length
<1>6. Progress
  <2>1. ASSUME NEW r \in Rank
        PROVE  /\ Length(r) <= budget[r] /\ Length(r) # budget[r]
               /\ phase[r] \notin {"rows", "ids"}
               /\ step[r] <= LastStep(Ended(r)) /\ moved[r] <= SizeNow(r)
    <3>1. budget[r] \in 1..MaxBudget /\ MaxBudget \in Nat
      BY <1>3, PeerAssumption DEF Types
    <3>2. LastStep(Ended(r)) >= 1
      BY <1>5, Halves DEF LastStep
    <3>3. SizeNow(r) \in Nat
      BY <1>3, SizeType, Lists DEF SizeNow
    <3>4. phase[r] \notin {"rows", "ids"}
      BY <1>1, <1>2 DEF Init
    <3> QED BY <1>5, <3>1, <3>2, <3>3, <3>4
  <2>2. \A r \in Rank : \A i \in 1..Length(r) - 1 : FALSE
    BY <1>5
  <2> QED BY <2>1, <2>2 DEF Progress
<1>7. Streams
  <2>1. \A r \in Rank : Taken(r) = 0 /\ Sent(Peer(r)) = 0
    BY <1>5, NothingMoved, Halves DEF Taken, Sent
  <2>2. \A r \in Rank : Inbound(r)
    BY <1>5, <2>1 DEF Inbound
  <2> QED BY <1>5, <2>1, <2>2 DEF Streams
<1>8. \A r \in Rank : Reading(r)
  BY <1>5 DEF Reading, CountRead
<1>9. Following
  BY <1>5 DEF Following
<1>10. Verdicts
  BY <1>5 DEF Verdicts
<1> QED BY <1>3, <1>4, <1>6, <1>7, <1>8, <1>9, <1>10 DEF PeerInvariant

LEMMA InvariantStep == PeerInvariant /\ [Next]_vars => PeerInvariant'
<1>1. ASSUME PeerInvariant, Next PROVE PeerInvariant'
  <2>1. Types /\ Opening /\ Progress /\ Streams /\ (\A r \in Rank : Reading(r)) /\ Following /\ Verdicts
    BY <1>1 DEF PeerInvariant
  <2>2. Types' /\ Opening' /\ Progress' /\ Streams'
    BY <1>1, <2>1, TypesStep, OpeningStep, ProgressStep, StreamsStep
  <2>3. (\A r \in Rank : Reading(r))'
    BY <1>1, <2>1, ReadingStep
  <2>4. Following' /\ Verdicts'
    BY <1>1, <2>1, FollowingStep, VerdictsStep
  <2> QED BY <2>2, <2>3, <2>4 DEF PeerInvariant
<1>2. ASSUME PeerInvariant, UNCHANGED vars PROVE PeerInvariant'
  <2>1. UNCHANGED <<budget, truth, odd, phase, attempt, queue, link, step, moved, wire, dirty, tokens,
                    claim, got, outcome>>
    BY <1>2 DEF vars
  <2>2. Types' /\ Opening'
    BY <1>2, <2>1 DEF PeerInvariant, Types, Opening, Busy, Unstarted
  <2>3. Progress' /\ Following' /\ Verdicts'
    BY <1>2, <2>1
       DEF PeerInvariant, Progress, Following, Verdicts, Ended, Complete, Length, SizeNow, Alike, Judged
  <2>4. Streams'
    BY <1>2, <2>1
       DEF PeerInvariant, Streams, Inbound, Taken, Sent, Place, Ended, Complete, Length,
           WordAt, RowAt, CountAt, IdAt
  <2>5. (\A r \in Rank : Reading(r))'
    BY <1>2, <2>1
       DEF PeerInvariant, Reading, Beyond, CountRead, IdsRead, Ended, Complete, Length,
           WordAt, RowAt, CountAt, IdAt
  <2> QED BY <2>2, <2>3, <2>4, <2>5 DEF PeerInvariant
<1> QED BY <1>1, <1>2

(* Both hosts' places, what is on the wires, and what each may have read,  *)
(* at every moment of a generation on two hosts.                           *)
THEOREM PeerInductive == Spec => []PeerInvariant
BY InvariantInit, InvariantStep, PTL DEF Spec

-----------------------------------------------------------------------------
(* ok on either host: both have the same complete list, from rows that     *)
(* were never mixed up.                                                    *)
LEMMA InvariantOk == PeerInvariant => OkMeansSameTokens
<1>1. SUFFICES ASSUME PeerInvariant, NEW r \in Rank, outcome[r] = "ok"
               PROVE  /\ tokens[0] = tokens[1] /\ Complete(0) /\ Complete(1)
                      /\ ~dirty[0] /\ ~dirty[1]
  BY DEF OkMeansSameTokens
<1>2. Types /\ Progress /\ \A q \in Rank : Reading(q)
  BY <1>1 DEF PeerInvariant
<1>3. Judged(r) /\ got[r] = tokens[r] /\ Ended(r)
  BY <1>1 DEF PeerInvariant, Verdicts, Judged
<1>4. Ended(Peer(r)) /\ Length(Peer(r)) = Length(r) /\ tokens[Peer(r)] = tokens[r]
  BY <1>2, <1>3, Settled
<1>5. ~Beyond(r) /\ ~Beyond(Peer(r))
  <2>1. Length(r) \in Nat /\ Peer(Peer(r)) = r
    BY <1>2, Lists, Halves
  <2> QED BY <1>3, <1>4, <2>1 DEF Beyond
<1>6. ~dirty[r] /\ ~dirty[Peer(r)]
  BY <1>2, <1>5, Halves DEF Reading
<1> QED BY <1>3, <1>4, <1>6 DEF Ended, Rank, Peer

(* Whatever becomes of the connection, whoever says ok is right: both      *)
(* hosts generated the same complete list (text_forward.cpp:1819-1848).    *)
THEOREM PeersAgree == Spec => []OkMeansSameTokens
BY PeerInductive, InvariantOk, PTL

(* Two verdicts do not contradict each other.                              *)
LEMMA InvariantVerdicts == PeerInvariant => VerdictsNeverContradict
<1>1. SUFFICES ASSUME PeerInvariant PROVE VerdictsNeverContradict
  OBVIOUS
<1>2. Types /\ Progress /\ Verdicts /\ (\A q \in Rank : Reading(q)) /\ (\A q \in Rank : Inbound(q))
  BY <1>1 DEF PeerInvariant, Streams
<1>3. ASSUME NEW r \in Rank, outcome[r] = "ok"
      PROVE  /\ Judged(r) /\ Ended(r) /\ Ended(Peer(r)) /\ Length(Peer(r)) = Length(r)
             /\ tokens[Peer(r)] = tokens[r] /\ claim[r] = Length(r)
  <2>1. Judged(r) /\ got[r] = tokens[r] /\ Ended(r)
    BY <1>2, <1>3 DEF Verdicts, Judged
  <2> QED BY <1>2, <2>1, Settled
<1>4. ASSUME NEW r \in Rank, outcome[r] = "ok", outcome[Peer(r)] = "mismatch" PROVE FALSE
  <2> DEFINE p == Peer(r)
  <2>1. p \in Rank /\ Peer(p) = r
    BY Halves
  <2>2. Ended(r) /\ Ended(p) /\ Length(p) = Length(r) /\ tokens[p] = tokens[r] /\ Length(r) \in Nat
    BY <1>2, <1>3, <1>4, Lists
  <2>3. Judged(p) /\ got[p] # tokens[p]
    BY <1>2, <1>4, <2>1 DEF Verdicts
  <2>4. ~Beyond(p) /\ ~Beyond(r)
    BY <2>1, <2>2 DEF Beyond
  <2> QED BY <1>2, <2>1, <2>2, <2>3, <2>4, Settled
<1>5. ASSUME outcome[0] = "ok" PROVE outcome[1] # "threw"
  <2> DEFINE n == Length(0)
  <2>1. 0 \in Rank /\ 1 \in Rank /\ Peer(0) = 1 /\ Peer(1) = 0
    BY DEF Rank, Peer
  <2>2. Judged(0) /\ Ended(0) /\ Ended(1) /\ Length(1) = n /\ claim[0] = n
    BY <1>3, <1>5, <2>1
  <2>3. n \in Nat /\ n >= 1 /\ OfTokens(1, n) \in Nat /\ moved[1] \in Nat /\ Len(wire[0]) \in Nat
    BY <1>2, <2>1, <2>2, Lists, TokensGrow
  <2>4. Taken(0) = OfTokens(1, n) + (1 + n)
    <3>1. step[0] = 4 /\ moved[0] = n
      BY <2>2 DEF Judged, SizeNow, SizeAt, SendsAt
    <3> QED BY <2>1, <2>2, <3>1 DEF Taken, Place, PlaceAt, OfFinal
  <2>5. Sent(1) = OfTokens(1, n) + OfFinal(1, step[1], moved[1], n)
    BY <2>2 DEF Sent, Place, PlaceAt
  <2>6. Taken(0) <= Sent(1)
    <3>1. Taken(0) + Len(wire[0]) <= Sent(1) /\ Taken(0) \in Nat /\ Sent(1) \in Nat
      BY <1>2, <2>1, Places DEF Inbound, Taken, Sent
    <3> QED BY <2>3, <3>1
  <2>7. OfFinal(1, step[1], moved[1], n) \in Nat /\ OfFinal(1, step[1], moved[1], n) >= 1 + n
    <3>1. OfFinal(1, step[1], moved[1], n) \in Nat
      BY <2>3 DEF OfFinal
    <3> QED BY <2>3, <2>4, <2>5, <2>6, <3>1
  <2>8. /\ step[1] = 3 => moved[1] <= 1
        /\ step[1] = 4 => moved[1] <= n /\ SizeNow(1) = n
    BY <1>2, <2>1, <2>2 DEF Progress, SizeNow, SizeAt, SendsAt
  <2>9. step[1] = 4 /\ moved[1] = n
    BY <2>3, <2>7, <2>8 DEF OfFinal
  <2>10. Judged(1)
    BY <2>2, <2>8, <2>9 DEF Judged
  <2> QED BY <1>2, <2>1, <2>10 DEF Verdicts
<1> QED BY <1>4, <1>5 DEF VerdictsNeverContradict

(* The exchange has no acknowledgement, and needs none for this: rank 0    *)
(* says ok only of a rank 1 that had everything it needed to agree         *)
(* (text_forward.cpp:1824-1848).                                           *)
THEOREM PeerVerdictsAgree == Spec => []VerdictsNeverContradict
BY PeerInductive, InvariantVerdicts, PTL

-----------------------------------------------------------------------------
(* What goes wrong between two hosts is about the hosts.                   *)
LEMMA ApartBeyond ==
  ASSUME Types, Progress, ~Apart, NEW r \in Rank
  PROVE  ~Beyond(r)
<1>1. budget[0] = budget[1] /\ 0 \in Rank /\ 1 \in Rank
  BY DEF Apart, Rank
<1>2. \A i \in Nat : i \in 1..Length(0) /\ i \in 1..Length(1) => tokens[0][i] = tokens[1][i]
  <2>1. Length(0) \in Nat /\ Length(1) \in Nat /\ Length(0) <= budget[0] /\ budget[0] \in 1..MaxBudget /\ MaxBudget \in Nat
    BY <1>1, Lists, PeerAssumption DEF Progress
  <2>2. SUFFICES ASSUME NEW i \in Nat, i \in 1..Length(0), i \in 1..Length(1) PROVE tokens[0][i] = tokens[1][i]
    OBVIOUS
  <2>3. i \in 1..MaxBudget /\ i <= Length(0) /\ i <= Length(1)
    BY <2>1, <2>2
  <2> QED BY <2>3 DEF Apart, Length
<1> QED BY <1>1, <1>2, NoneBeyond

(* A mismatch is of hosts that were started unlike. *)
LEMMA MismatchUnlike ==
  ASSUME PeerInvariant, NEW r \in Rank, outcome[r] = "mismatch"
  PROVE  ~Alike
<1> DEFINE p == Peer(r)
<1>1. Types /\ Progress /\ Verdicts /\ Following /\ Reading(r) /\ p \in Rank /\ Peer(p) = r
  BY Halves DEF PeerInvariant
<1>2. Judged(r) /\ got[r] # tokens[r] /\ Ended(r)
  BY <1>1 DEF Verdicts, Judged
<1>3. SUFFICES ASSUME Alike PROVE FALSE
  OBVIOUS
<1>4. ~Beyond(r) /\ ~Beyond(p)
  BY <1>1, <1>3, AlikeTogether
<1>5. Length(p) = Length(r) /\ got[r] = tokens[p]
  BY <1>1, <1>2, <1>4, Settled
<1>6. /\ tokens[p] \in Seq(Token) /\ tokens[r] \in Seq(Token)
      /\ Len(tokens[p]) = Len(tokens[r]) /\ Length(r) = Len(tokens[r])
  BY <1>1, <1>5, Lists DEF Length
<1>7. \A i \in 1..Len(tokens[p]) : tokens[p][i] = tokens[r][i]
  BY <1>1, <1>3, <1>5, <1>6 DEF Following
<1>8. tokens[p] = tokens[r]
  BY <1>6, <1>7, SeqEqual
<1> QED BY <1>2, <1>5, <1>8

(* How many shards of p's a rank in its rows is past. *)
Gathered(p, r) == Length(r) * Gathers + Shards(p, step[r])

LEMMA RowPlaces ==
  ASSUME Types, Progress, NEW p \in Rank, NEW r \in Rank, ~Ended(r)
  PROVE  /\ Gathered(p, r) \in Nat /\ Gathered(p, r) * Mine(p) \in Nat
         /\ Place(p, r) = Gathered(p, r) * Mine(p) + IF SendsRows(p, step[r]) THEN moved[r] ELSE 0
<1> DEFINE n == Length(r)
           k == Shards(p, step[r])
           M == Mine(p)
<1>1. n \in Nat /\ step[r] \in Nat \ {0} /\ M \in Nat /\ Gathers \in Nat /\ moved[r] \in Nat
  BY Lists, Halves
<1>2. k \in Nat
  BY <1>1, ShardsCount
<1>3. Gathered(p, r) = n * Gathers + k
  BY DEF Gathered
<1>4. Place(p, r) = n * (Gathers * M) + (k * M + IF SendsRows(p, step[r]) THEN moved[r] ELSE 0)
  BY DEF Place, PlaceAt, OfTokens, OfRows
<1> HIDE DEF n, k, M
<1>5. n * Gathers \in Nat /\ k * M \in Nat /\ Gathers * M \in Nat /\ n * (Gathers * M) \in Nat
  BY <1>1, <1>2, Products
<1>6. (n * Gathers + k) * M = n * (Gathers * M) + k * M
  BY <1>1, <1>2
<1>7. Gathered(p, r) \in Nat /\ Gathered(p, r) * M \in Nat
  <2>1. n * Gathers + k \in Nat
    BY <1>2, <1>5
  <2> QED BY <1>1, <1>3, <2>1, Products
<1>8. Place(p, r) = Gathered(p, r) * M + IF SendsRows(p, step[r]) THEN moved[r] ELSE 0
  <2>1. CASE SendsRows(p, step[r])
    BY <1>1, <1>3, <1>4, <1>5, <1>6, <2>1
  <2>2. CASE ~SendsRows(p, step[r])
    BY <1>1, <1>3, <1>4, <1>5, <1>6, <2>2
  <2> QED BY <2>1, <2>2
<1> QED BY <1>7, <1>8 DEF M

(* What two ranks that wait for each other have sent and taken. *)
LEMMA BlockedPlaces ==
  ASSUME PeerInvariant, Blocked(0), Blocked(1), link[0] = link[1]
  PROVE  /\ Sends(0) <=> Sends(1)
         /\ ~Sends(0) => Taken(0) = Sent(1) /\ Taken(1) = Sent(0)
         /\ Sends(0) => Taken(0) < Sent(1) /\ Taken(1) < Sent(0)
<1>1. Types /\ Opening /\ Progress /\ Streams
  BY DEF PeerInvariant
<1>2. 0 \in Rank /\ 1 \in Rank /\ Peer(0) = 1 /\ Peer(1) = 0
  BY DEF Rank, Peer
<1>3. Busy(0) /\ link[0] # 0
  BY <1>1 DEF Blocked, Moving, Opening
<1>4. Taken(0) + Len(wire[0]) = Sent(1) /\ Taken(1) + Len(wire[1]) = Sent(0)
  BY <1>1, <1>2, <1>3 DEF Streams
<1>5. /\ Taken(0) \in Nat /\ Taken(1) \in Nat /\ Sent(0) \in Nat /\ Sent(1) \in Nat
      /\ Len(wire[0]) \in Nat /\ Len(wire[1]) \in Nat
  BY <1>1, <1>2, Places, Lists DEF Taken, Sent
<1>6. \A r \in Rank : Len(wire[r]) >= Capacity => Len(wire[r]) >= 1
  BY <1>1, PeerAssumption, Lists
<1>7. /\ Sends(0) => Len(wire[1]) >= 1
      /\ Sends(1) => Len(wire[0]) >= 1
  BY <1>2, <1>6 DEF Blocked, Full
<1>8. /\ ~Sends(0) => Len(wire[0]) = 0
      /\ ~Sends(1) => Len(wire[1]) = 0
  BY <1>2, EmptySeq DEF Blocked
<1>9. Sends(0) <=> Sends(1)
  BY <1>7, <1>8
<1>10. CASE Sends(0)
  BY <1>4, <1>5, <1>7, <1>9, <1>10
<1>11. CASE ~Sends(0)
  BY <1>4, <1>5, <1>8, <1>9, <1>11
<1> QED BY <1>9, <1>10, <1>11

(* ... both in their rows ... *)
LEMMA RowsDoNotBlock ==
  ASSUME PeerInvariant, Blocked(0), Blocked(1), link[0] = link[1], ~Ended(0), ~Ended(1)
  PROVE  FALSE
<1> DEFINE a == Shards(0, step[0])
           b == Shards(0, step[1])
           c == Shards(1, step[0])
           d == Shards(1, step[1])
<1>1. Types /\ Progress /\ 0 \in Rank /\ 1 \in Rank /\ Peer(0) = 1 /\ Peer(1) = 0
  BY DEF PeerInvariant, Rank, Peer
<1>2. \A r \in Rank : /\ Busy(r) /\ moved[r] < Size(r) /\ Size(r) = SizeNow(r)
                      /\ Sends(r) <=> SendsRows(r, step[r])
                      /\ step[r] \in Nat \ {0} /\ moved[r] \in Nat
  BY <1>1, Doing, Lists DEF Blocked, Moving, SendsAt, Rank
<1>3. \A r \in Rank : moved[r] < (IF SendsRows(r, step[r]) THEN Mine(r) ELSE Mine(Peer(r)))
  BY <1>1, <1>2 DEF SizeNow, SizeAt, Rank
<1>4. /\ Mine(0) \in Nat /\ Mine(1) \in Nat /\ Length(0) \in Nat /\ Length(1) \in Nat /\ Gathers \in Nat
  BY <1>1, Halves, Lists
<1>5. /\ a \in Nat /\ b \in Nat /\ c \in Nat /\ d \in Nat
      /\ SendsRows(1, step[0]) <=> ~SendsRows(0, step[0])
      /\ SendsRows(1, step[1]) <=> ~SendsRows(0, step[1])
      /\ SendsRows(0, step[0]) => c = a
      /\ ~SendsRows(0, step[0]) => a = c + 1
      /\ SendsRows(1, step[1]) => b = d + 1
      /\ ~SendsRows(1, step[1]) => b = d
  <2>1. \A p \in Rank, r \in Rank :
          /\ Shards(p, step[r]) \in Nat
          /\ SendsRows(Peer(p), step[r]) <=> ~SendsRows(p, step[r])
          /\ SendsRows(p, step[r]) => step[r] = 2 * Shards(p, step[r]) + (IF p = 0 THEN 1 ELSE 2)
          /\ ~SendsRows(p, step[r]) => step[r] = 2 * Shards(p, step[r]) + (IF p = 0 THEN 0 ELSE 1)
    BY <1>2, ShardsCount
  <2>2. /\ a \in Nat /\ b \in Nat /\ c \in Nat /\ d \in Nat
        /\ SendsRows(1, step[0]) <=> ~SendsRows(0, step[0])
        /\ SendsRows(1, step[1]) <=> ~SendsRows(0, step[1])
    BY <1>1, <2>1
  <2>3. /\ SendsRows(0, step[0]) => step[0] = 2 * a + 1
        /\ ~SendsRows(0, step[0]) => step[0] = 2 * a
        /\ SendsRows(1, step[0]) => step[0] = 2 * c + 2
        /\ ~SendsRows(1, step[0]) => step[0] = 2 * c + 1
    BY <1>1, <2>1
  <2>4. /\ SendsRows(0, step[1]) => step[1] = 2 * b + 1
        /\ ~SendsRows(0, step[1]) => step[1] = 2 * b
        /\ SendsRows(1, step[1]) => step[1] = 2 * d + 2
        /\ ~SendsRows(1, step[1]) => step[1] = 2 * d + 1
    BY <1>1, <2>1
  <2> HIDE DEF a, b, c, d
  <2>5. CASE SendsRows(0, step[0])
    BY <2>2, <2>3, <2>4, <2>5
  <2>6. CASE ~SendsRows(0, step[0])
    BY <2>2, <2>3, <2>4, <2>6
  <2> QED BY <2>5, <2>6
<1> DEFINE x == Length(0) * Gathers
           y == Length(1) * Gathers
<1>6. x \in Nat /\ y \in Nat
  BY <1>4, Products
<1>7. /\ Taken(0) = (x + c) * Mine(1) + (IF SendsRows(1, step[0]) THEN moved[0] ELSE 0)
      /\ Taken(1) = (y + b) * Mine(0) + (IF SendsRows(0, step[1]) THEN moved[1] ELSE 0)
      /\ Sent(0) = (x + a) * Mine(0) + (IF SendsRows(0, step[0]) THEN moved[0] ELSE 0)
      /\ Sent(1) = (y + d) * Mine(1) + (IF SendsRows(1, step[1]) THEN moved[1] ELSE 0)
  BY <1>1, RowPlaces DEF Taken, Sent, Gathered
<1>8. /\ x + a \in Nat /\ y + b \in Nat /\ x + c \in Nat /\ y + d \in Nat
      /\ (x + a) * Mine(0) \in Nat /\ (y + b) * Mine(0) \in Nat
      /\ (x + c) * Mine(1) \in Nat /\ (y + d) * Mine(1) \in Nat
  <2>1. x + a \in Nat /\ y + b \in Nat /\ x + c \in Nat /\ y + d \in Nat
    BY <1>5, <1>6
  <2> QED BY <1>4, <2>1, Products
<1>9. /\ (x + a < y + b) => (x + a) * Mine(0) + Mine(0) <= (y + b) * Mine(0)
      /\ (y + d < x + c) => (y + d) * Mine(1) + Mine(1) <= (x + c) * Mine(1)
      /\ (x + c < y + d) => (x + c) * Mine(1) + Mine(1) <= (y + d) * Mine(1)
      /\ (y + b < x + a) => (y + b) * Mine(0) + Mine(0) <= (x + a) * Mine(0)
  BY <1>4, <1>8, Products
<1> DEFINE A == (x + a) * Mine(0)
           B == (y + b) * Mine(0)
           C == (x + c) * Mine(1)
           D == (y + d) * Mine(1)
<1>10. CASE Sends(0)
  <2>1. SendsRows(0, step[0]) /\ SendsRows(1, step[1]) /\ moved[0] < Mine(0) /\ moved[1] < Mine(1)
    BY <1>1, <1>2, <1>3, <1>10, BlockedPlaces
  <2>2. Taken(0) = C /\ Taken(1) = B /\ Sent(0) = A + moved[0] /\ Sent(1) = D + moved[1]
    BY <1>5, <1>7, <1>8, <2>1
  <2>3. Taken(0) < Sent(1) /\ Taken(1) < Sent(0)
    BY <1>10, BlockedPlaces
  <2>4. c = a /\ b = d + 1
    BY <1>5, <2>1
  <2>5. moved[0] \in Nat /\ moved[1] \in Nat
    BY <1>1, <1>2
  <2>6. /\ A \in Nat /\ B \in Nat /\ C \in Nat /\ D \in Nat
        /\ (x + a < y + b) => A + Mine(0) <= B
        /\ (y + d < x + c) => D + Mine(1) <= C
    BY <1>8, <1>9
  <2> HIDE DEF A, B, C, D, x, y, a, b, c, d
  <2>7. ~(x + a < y + b) /\ ~(y + d < x + c)
    BY <1>4, <2>1, <2>2, <2>3, <2>5, <2>6
  <2> QED BY <1>5, <1>6, <2>4, <2>7
<1>11. CASE ~Sends(0)
  <2>1. ~SendsRows(0, step[0]) /\ ~SendsRows(1, step[1]) /\ moved[0] < Mine(1) /\ moved[1] < Mine(0)
    BY <1>1, <1>2, <1>3, <1>11, BlockedPlaces
  <2>2. Taken(0) = C + moved[0] /\ Taken(1) = B + moved[1] /\ Sent(0) = A /\ Sent(1) = D
    BY <1>5, <1>7, <1>8, <2>1
  <2>3. Taken(0) = Sent(1) /\ Taken(1) = Sent(0)
    BY <1>11, BlockedPlaces
  <2>4. a = c + 1 /\ b = d
    BY <1>5, <2>1
  <2>5. moved[0] \in Nat /\ moved[1] \in Nat
    BY <1>1, <1>2
  <2>6. /\ A \in Nat /\ B \in Nat /\ C \in Nat /\ D \in Nat
        /\ (x + a < y + b) => A + Mine(0) <= B
        /\ (y + d < x + c) => D + Mine(1) <= C
        /\ (x + c < y + d) => C + Mine(1) <= D
        /\ (y + b < x + a) => B + Mine(0) <= A
    BY <1>8, <1>9
  <2> HIDE DEF A, B, C, D, x, y, a, b, c, d
  <2>7. ~(y + b < x + a) /\ ~(x + c < y + d)
    BY <1>4, <2>1, <2>2, <2>3, <2>5, <2>6
  <2> QED BY <1>5, <1>6, <2>4, <2>7
<1> QED BY <1>10, <1>11

(* ... one in its rows, the other in the final exchange ... *)
LEMMA RowsAndIdsDoNotBlock ==
  ASSUME PeerInvariant, Blocked(0), Blocked(1), link[0] = link[1], ~Apart,
         NEW r \in Rank, ~Ended(r), Ended(Peer(r))
  PROVE  FALSE
<1> DEFINE p == Peer(r)
<1>1. /\ Types /\ Progress /\ p \in Rank /\ Peer(p) = r /\ Blocked(r) /\ Blocked(p)
      /\ ((r = 0 /\ p = 1) \/ (r = 1 /\ p = 0))
  BY DEF PeerInvariant, Rank, Peer
<1>2. /\ Busy(r) /\ moved[r] < SizeNow(r) /\ step[r] \in 1..2 * Gathers
      /\ Sends(r) <=> SendsRows(r, step[r])
  BY <1>1, Doing DEF Blocked, Moving, SendsAt, LastStep
<1>3. /\ step[r] \in Nat \ {0} /\ moved[r] \in Nat /\ Length(r) \in Nat /\ Length(p) \in Nat
      /\ moved[p] \in Nat /\ claim[p] \in Nat
  BY <1>1, Lists
<1>4. Length(r) < Length(p)
  <2>1. ~Beyond(r)
    BY <1>1, ApartBeyond
  <2> QED BY <1>3, <2>1 DEF Beyond
<1>5. \A q \in Rank : /\ OfTokens(q, Length(r)) \in Nat /\ OfTokens(q, Length(p)) \in Nat
                      /\ Gathers * Mine(q) \in Nat
                      /\ OfTokens(q, Length(r)) + Gathers * Mine(q) <= OfTokens(q, Length(p))
  BY <1>3, <1>4, TokensGrow
<1>6. Sends(0) <=> Sends(1)
  BY BlockedPlaces
<1>7. CASE Sends(r)
  <2>1. SendsRows(r, step[r]) /\ moved[r] < Mine(r)
    BY <1>2, <1>7 DEF SizeNow, SizeAt
  <2>2. Sent(r) = OfTokens(r, Length(r)) + OfRows(r, step[r], moved[r])
    BY DEF Sent, Place, PlaceAt
  <2>3. OfRows(r, step[r], moved[r]) \in Nat /\ OfRows(r, step[r], moved[r]) + 1 <= Gathers * Mine(r)
    BY <1>2, <1>3, <2>1, RowsBound
  <2>4. Taken(p) = OfTokens(r, Length(p)) + OfFinal(r, step[p], moved[p], claim[p])
    BY <1>1 DEF Taken, Place, PlaceAt
  <2>5. OfFinal(r, step[p], moved[p], claim[p]) \in Nat
    BY <1>3 DEF OfFinal
  <2>6. Taken(p) < Sent(r)
    BY <1>1, <1>6, <1>7, BlockedPlaces
  <2>7. OfTokens(r, Length(r)) \in Nat /\ OfTokens(r, Length(p)) \in Nat /\ Gathers * Mine(r) \in Nat
        /\ OfTokens(r, Length(r)) + Gathers * Mine(r) <= OfTokens(r, Length(p))
    BY <1>5
  <2> DEFINE T == Gathers * Mine(r)
  <2>8. T \in Nat /\ OfTokens(r, Length(r)) + T <= OfTokens(r, Length(p)) /\ OfRows(r, step[r], moved[r]) + 1 <= T
    BY <2>3, <2>7
  <2> HIDE DEF T, p
  <2> QED BY <2>2, <2>3, <2>4, <2>5, <2>6, <2>7, <2>8
<1>8. CASE ~Sends(r)
  <2>1. ~SendsRows(r, step[r]) /\ SendsRows(p, step[r]) /\ moved[r] < Mine(p)
    <3>1. SendsRows(p, step[r]) <=> ~SendsRows(r, step[r])
      BY <1>3, ShardsCount
    <3> QED BY <1>2, <1>8, <3>1 DEF SizeNow, SizeAt
  <2>2. Taken(r) = OfTokens(p, Length(r)) + OfRows(p, step[r], moved[r])
    BY DEF Taken, Place, PlaceAt
  <2>3. OfRows(p, step[r], moved[r]) \in Nat /\ OfRows(p, step[r], moved[r]) + 1 <= Gathers * Mine(p)
    BY <1>1, <1>2, <1>3, <2>1, RowsBound
  <2>4. Sent(p) = OfTokens(p, Length(p)) + OfFinal(p, step[p], moved[p], Length(p))
    BY <1>1 DEF Sent, Place, PlaceAt
  <2>5. OfFinal(p, step[p], moved[p], Length(p)) \in Nat
    BY <1>3 DEF OfFinal
  <2>6. Taken(r) = Sent(p)
    BY <1>1, <1>6, <1>8, BlockedPlaces
  <2>7. OfTokens(p, Length(r)) \in Nat /\ OfTokens(p, Length(p)) \in Nat /\ Gathers * Mine(p) \in Nat
        /\ OfTokens(p, Length(r)) + Gathers * Mine(p) <= OfTokens(p, Length(p))
    BY <1>1, <1>5
  <2> DEFINE T == Gathers * Mine(p)
  <2>8. T \in Nat /\ OfTokens(p, Length(r)) + T <= OfTokens(p, Length(p)) /\ OfRows(p, step[r], moved[r]) + 1 <= T
    BY <2>3, <2>7
  <2> HIDE DEF T, p
  <2> QED BY <2>2, <2>3, <2>4, <2>5, <2>6, <2>7, <2>8
<1> QED BY <1>7, <1>8

(* ... and both in the final exchange. *)
LEMMA IdsDoNotBlock ==
  ASSUME PeerInvariant, Blocked(0), Blocked(1), link[0] = link[1], ~Apart, Ended(0), Ended(1)
  PROVE  FALSE
<1> DEFINE n == Length(0)
<1>1. Types /\ Progress /\ 0 \in Rank /\ 1 \in Rank /\ Peer(0) = 1 /\ Peer(1) = 0 /\ Reading(1)
  BY DEF PeerInvariant, Rank, Peer
<1>2. /\ n \in Nat /\ Length(1) \in Nat /\ n >= 1 /\ OfTokens(0, n) \in Nat /\ OfTokens(1, n) \in Nat
      /\ moved[0] \in Nat /\ moved[1] \in Nat /\ claim[0] \in Nat /\ claim[1] \in Nat
  BY <1>1, Lists, TokensGrow
<1>3. Length(1) = n
  <2>1. ~Beyond(0) /\ ~Beyond(1)
    BY <1>1, ApartBeyond
  <2> QED BY <1>1, <1>2, <2>1 DEF Beyond
<1>4. \A r \in Rank : /\ moved[r] < SizeNow(r) /\ step[r] \in 1..4
                      /\ Sends(r) <=> ((step[r] <= 2) <=> (r = 0))
  BY <1>1, Doing DEF Blocked, Moving, SendsAt, LastStep, Rank
<1>5. /\ Taken(0) = OfTokens(1, n) + OfFinal(1, step[0], moved[0], claim[0])
      /\ Taken(1) = OfTokens(0, n) + OfFinal(0, step[1], moved[1], claim[1])
      /\ Sent(0) = OfTokens(0, n) + OfFinal(0, step[0], moved[0], n)
      /\ Sent(1) = OfTokens(1, n) + OfFinal(1, step[1], moved[1], n)
  BY <1>1, <1>3 DEF Taken, Sent, Place, PlaceAt
<1>6. step[1] > 1 => claim[1] = n
  <2>1. SUFFICES ASSUME step[1] > 1 PROVE claim[1] = n
    OBVIOUS
  <2>2. CountRead(1)
    BY <2>1 DEF CountRead
  <2>3. PICK word \in Words :
          /\ WordAt(0, OfTokens(0, n) + 1, word)
          /\ word[1] # "row" => claim[1] = word[2]
    BY <1>1, <1>3, <2>2 DEF Reading
  <2>4. OfTokens(0, n) + 1 \in Nat
    BY <1>2
  <2>5. ~RowAt(0, OfTokens(0, n) + 1, word)
    <3>1. RowAt(0, OfTokens(0, n) + 1, word) => OfTokens(0, n) + 1 <= OfTokens(0, n)
      BY <1>1, <2>3, <2>4, WordRange
    <3>2. ~(OfTokens(0, n) + 1 <= OfTokens(0, n))
      BY <1>2
    <3> QED BY <3>1, <3>2
  <2>6. ~IdAt(0, OfTokens(0, n) + 1, word)
    <3>1. \A k \in 1..n : OfTokens(0, n) + 1 # OfTokens(0, n) + 1 + k
      BY <1>2
    <3> QED BY <3>1 DEF IdAt
  <2>7. word = <<"count", n, 0>>
    BY <2>3, <2>5, <2>6 DEF WordAt, CountAt
  <2> QED BY <2>3, <2>7
<1> DEFINE from0 == OfTokens(0, n)
           from1 == OfTokens(1, n)
<1>7. CASE Sends(0)
  <2>1. step[0] \in {1, 2} /\ step[1] \in {3, 4}
    BY <1>1, <1>4, <1>7, BlockedPlaces
  <2>2. OfFinal(0, step[0], moved[0], n) <= n /\ OfFinal(0, step[0], moved[0], n) \in Nat
    <3>1. CASE step[0] = 1
      <4>1. moved[0] < 1
        BY <1>1, <1>4, <3>1 DEF SizeNow, SizeAt
      <4> QED BY <1>2, <3>1, <4>1 DEF OfFinal
    <3>2. CASE step[0] = 2
      <4>1. moved[0] < n
        BY <1>1, <1>4, <3>2 DEF SizeNow, SizeAt, SendsAt
      <4> QED BY <1>2, <3>2, <4>1 DEF OfFinal
    <3> QED BY <2>1, <3>1, <3>2
  <2>3. OfFinal(0, step[1], moved[1], claim[1]) = 1 + n
    BY <1>6, <2>1 DEF OfFinal
  <2>4. Taken(1) < Sent(0)
    BY <1>7, BlockedPlaces
  <2> HIDE DEF n
  <2> QED BY <1>2, <1>5, <2>2, <2>3, <2>4
<1>8. CASE ~Sends(0)
  <2>1. step[0] \in {3, 4} /\ step[1] \in {1, 2}
    BY <1>1, <1>4, <1>8, BlockedPlaces
  <2>2. OfFinal(0, step[0], moved[0], n) = 1 + n
    BY <2>1 DEF OfFinal
  <2>3. OfFinal(0, step[1], moved[1], claim[1]) <= n /\ OfFinal(0, step[1], moved[1], claim[1]) \in Nat
    <3>1. CASE step[1] = 1
      <4>1. moved[1] < 1
        BY <1>1, <1>4, <3>1 DEF SizeNow, SizeAt
      <4> QED BY <1>2, <3>1, <4>1 DEF OfFinal
    <3>2. CASE step[1] = 2
      <4>1. moved[1] < claim[1] /\ claim[1] = n
        BY <1>1, <1>4, <1>6, <3>2 DEF SizeNow, SizeAt, SendsAt
      <4> QED BY <1>2, <3>2, <4>1 DEF OfFinal
    <3> QED BY <2>1, <3>1, <3>2
  <2>4. Taken(1) = Sent(0)
    BY <1>8, BlockedPlaces
  <2> HIDE DEF n
  <2> QED BY <1>2, <1>5, <2>2, <2>3, <2>4
<1> QED BY <1>7, <1>8

LEMMA InvariantUnalike == PeerInvariant => OnlyUnalikeHostsComeApart
<1>1. SUFFICES ASSUME PeerInvariant PROVE OnlyUnalikeHostsComeApart
  OBVIOUS
<1>2. Types /\ Progress /\ 0 \in Rank /\ 1 \in Rank /\ Peer(0) = 1 /\ Peer(1) = 0 /\ Reading(0) /\ Reading(1)
  BY <1>1 DEF PeerInvariant, Rank, Peer
<1>3. (\E r \in Rank : outcome[r] = "mismatch") => ~Alike
  BY <1>1, MismatchUnlike
<1>4. dirty[0] \/ dirty[1] => Apart
  BY <1>2, ApartBeyond DEF Reading
<1>5. ASSUME Blocked(0), Blocked(1), link[0] = link[1], ~Apart PROVE FALSE
  <2>1. CASE ~Ended(0) /\ ~Ended(1)
    BY <1>1, <1>5, <2>1, RowsDoNotBlock
  <2>2. CASE ~Ended(0) /\ Ended(1)
    BY <1>1, <1>2, <1>5, <2>2, RowsAndIdsDoNotBlock
  <2>3. CASE Ended(0) /\ ~Ended(1)
    BY <1>1, <1>2, <1>5, <2>3, RowsAndIdsDoNotBlock
  <2>4. CASE Ended(0) /\ Ended(1)
    BY <1>1, <1>5, <2>4, IdsDoNotBlock
  <2> QED BY <2>1, <2>2, <2>3, <2>4
<1> QED BY <1>3, <1>4, <1>5 DEF OnlyUnalikeHostsComeApart

(* Two hosts that were started alike never report a mismatch; a foreign    *)
(* word is taken for a row, and the two wait for each other, only after    *)
(* their lists came apart (text_forward.cpp:242-256, 1767-1815, 1847).     *)
THEOREM PeersComeApartUnlike == Spec => []OnlyUnalikeHostsComeApart
BY PeerInductive, InvariantUnalike, PTL
=============================================================================
