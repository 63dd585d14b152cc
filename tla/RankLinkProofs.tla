---------------------------- MODULE RankLinkProofs ----------------------------
(***************************************************************************)
(* The safety properties of the two-rank link, for every number of gathers *)
(* and rows, every report, size of a value and buffer capacity: the ranks  *)
(* never wait for each other, rows stay in step, a verdict is truthful and *)
(* nothing is left behind.                                                 *)
(***************************************************************************)
EXTENDS RankLinkInductive, SequenceTheorems, TLAPS

Positions == Nat \X Nat

LEMMA BeforeIsStrict ==
  ASSUME NEW c \in Positions, NEW d \in Positions
  PROVE  /\ ~(Before(c, d) /\ Before(d, c)) /\ ~Before(c, c)
         /\ c = d \/ Before(c, d) \/ Before(d, c)
<1>1. c = <<c[1], c[2]>> /\ d = <<d[1], d[2]>> /\ c[1] \in Nat /\ c[2] \in Nat /\ d[1] \in Nat /\ d[2] \in Nat
  BY DEF Positions
<1>2. ~(Before(c, d) /\ Before(d, c)) /\ ~Before(c, c)
  BY <1>1 DEF Before
<1>3. (c[1] = d[1] /\ c[2] = d[2]) \/ Before(c, d) \/ Before(d, c)
  BY <1>1 DEF Before
<1> QED
  BY <1>1, <1>2, <1>3

LEMMA BeforeIsTransitive ==
  ASSUME NEW c \in Positions, NEW d \in Positions, NEW e \in Positions, Before(c, d), Before(d, e)
  PROVE  Before(c, e)
<1>1. c[1] \in Nat /\ c[2] \in Nat /\ d[1] \in Nat /\ d[2] \in Nat /\ e[1] \in Nat /\ e[2] \in Nat
  BY DEF Positions
<1> QED
  BY <1>1 DEF Before

-----------------------------------------------------------------------------
(* What a wire carries, before and after one cell moves.                   *)
LEMMA CarriesNothing ==
  ASSUME NEW w \in Seq(Nat), NEW F, NEW g, Carries(w, F, g)
  PROVE  /\ g = 0 <=> F = {}
         /\ w = << >> => F = {}
         /\ g \in Nat /\ g <= Len(w)
<1>1. PICK q \in [1 .. g -> F] : \A c \in F : \E k \in 1 .. g : q[k] = c
  BY DEF Carries
<1>2. g \in 0 .. Len(w) /\ Len(w) \in Nat
  BY LenProperties DEF Carries
<1>3. g = 0 => F = {}
  BY <1>1
<1>4. g # 0 => F # {}
  <2>1. g # 0 => 1 \in 1 .. g
    BY <1>2
  <2> QED
    BY <1>1, <2>1
<1>5. w = << >> => g = 0
  BY <1>2
<1> QED
  BY <1>2, <1>3, <1>4, <1>5

LEMMA CarriesNone ==
  ASSUME NEW F, F = {}
  PROVE  Carries(<< >>, F, 0)
<1> DEFINE q == [k \in 1 .. 0 |-> {}]
<1>1. Len(<< >>) = 0 /\ q \in [1 .. 0 -> F] /\ 0 \in 0 .. 0 /\ 1 .. 0 = {} /\ 0 + 1 .. 0 = {}
  OBVIOUS
<1> QED
  BY <1>1 DEF Carries

LEMMA CarriesOneMore ==
  ASSUME NEW w \in Seq(Nat), NEW F \in SUBSET Positions, NEW c \in Positions, c \notin F,
         \A d \in F : Before(d, c), Carries(w, F, Len(w))
  PROVE  Carries(Append(w, c[1]), F \cup {c}, Len(w) + 1)
<1> DEFINE n == Len(w)
           u == Append(w, c[1])
<1>1. PICK q \in [1 .. n -> F] :
        /\ \A d \in F : \E k \in 1 .. n : q[k] = d
        /\ \A k, l \in 1 .. n : k < l => Before(q[k], q[l])
        /\ \A k \in 1 .. n : w[k] = q[k][1]
  BY DEF Carries
<1>2. n \in Nat /\ c[1] \in Nat
  BY LenProperties DEF Positions
<1>3. Len(u) = n + 1 /\ u[n + 1] = c[1] /\ \A k \in 1 .. n : u[k] = w[k]
  BY <1>2, AppendProperties
<1> DEFINE p == [k \in 1 .. n + 1 |-> IF k <= n THEN q[k] ELSE c]
<1> HIDE DEF n, u
<1>4. p \in [1 .. n + 1 -> F \cup {c}]
  <2> SUFFICES ASSUME NEW k \in 1 .. n + 1 PROVE (IF k <= n THEN q[k] ELSE c) \in F \cup {c}
    OBVIOUS
  <2>1. k <= n => k \in 1 .. n
    BY <1>2
  <2> QED
    BY <1>1, <2>1
<1>5. p[n + 1] = c /\ \A k \in 1 .. n : p[k] = q[k]
  BY <1>2
<1>6. \A k \in 1 .. n + 1 : k \in 1 .. n \/ k = n + 1
  BY <1>2
<1> HIDE DEF p
<1>7. \A d \in F \cup {c} : \E k \in 1 .. n + 1 : p[k] = d
  <2> SUFFICES ASSUME NEW d \in F \cup {c} PROVE \E k \in 1 .. n + 1 : p[k] = d
    OBVIOUS
  <2>1. CASE d = c
    BY <1>2, <1>5, <2>1
  <2>2. CASE d \in F
    <3>1. PICK k \in 1 .. n : q[k] = d
      BY <1>1, <2>2
    <3>2. k \in 1 .. n + 1 /\ p[k] = d
      BY <1>2, <1>5, <3>1
    <3> QED
      BY <3>2
  <2> QED
    BY <2>1, <2>2
<1>8. \A k, l \in 1 .. n + 1 : k < l => Before(p[k], p[l])
  <2> SUFFICES ASSUME NEW k \in 1 .. n + 1, NEW l \in 1 .. n + 1, k < l
               PROVE  Before(p[k], p[l])
    OBVIOUS
  <2>1. k \in 1 .. n /\ p[k] = q[k] /\ q[k] \in F
    BY <1>1, <1>2, <1>5, <1>6
  <2>2. CASE l \in 1 .. n
    BY <1>1, <1>5, <2>1, <2>2
  <2>3. CASE l = n + 1
    BY <1>5, <2>1, <2>3
  <2> QED
    BY <1>6, <2>2, <2>3
<1>9. \A k \in 1 .. n + 1 : u[k] = p[k][1]
  BY <1>1, <1>3, <1>5, <1>6
<1>10. n + 1 \in 0 .. Len(u) /\ (n + 1) + 1 .. Len(u) = {}
  BY <1>2, <1>3
<1>11. Carries(u, F \cup {c}, n + 1)
  BY <1>4, <1>7, <1>8, <1>9, <1>10 DEF Carries
<1> QED
  BY <1>11 DEF n, u

LEMMA CarriesMarker ==
  ASSUME NEW w \in Seq(Nat), NEW F, NEW g, Carries(w, F, g)
  PROVE  Carries(Append(w, Marker), F, g)
<1> DEFINE n == Len(w)
           u == Append(w, Marker)
<1>1. n \in Nat /\ Marker \in Nat /\ g \in 0 .. n
  BY LenProperties DEF Marker, Carries
<1>2. Len(u) = n + 1 /\ u[n + 1] = Marker /\ \A k \in 1 .. n : u[k] = w[k]
  BY <1>1, AppendProperties
<1>3. PICK q \in [1 .. g -> F] :
        /\ \A d \in F : \E k \in 1 .. g : q[k] = d
        /\ \A k, l \in 1 .. g : k < l => Before(q[k], q[l])
        /\ \A k \in 1 .. g : w[k] = q[k][1]
  BY DEF Carries
<1>4. \A k \in g + 1 .. n : w[k] = Marker
  BY DEF Carries
<1> HIDE DEF n, u
<1>5. \A k \in 1 .. g : k \in 1 .. n
  BY <1>1
<1>6. \A k \in g + 1 .. n + 1 : k = n + 1 \/ (k \in g + 1 .. n /\ k \in 1 .. n)
  BY <1>1
<1>7. \A k \in 1 .. g : u[k] = q[k][1]
  BY <1>2, <1>3, <1>5
<1>8. \A k \in g + 1 .. Len(u) : u[k] = Marker
  BY <1>2, <1>4, <1>6
<1>9. g \in 0 .. Len(u)
  BY <1>1, <1>2
<1>10. Carries(u, F, g)
  BY <1>3, <1>7, <1>8, <1>9 DEF Carries
<1> QED
  BY <1>10 DEF u

(* The first cell on a wire is the least one, and the rest is carried on.  *)
LEMMA CarriesHead ==
  ASSUME NEW w \in Seq(Nat), NEW F \in SUBSET Positions, NEW g, Carries(w, F, g), g # 0
  PROVE  \E c \in F :
           /\ w # << >> /\ Head(w) = c[1]
           /\ \A d \in F : d = c \/ Before(c, d)
           /\ Carries(Tail(w), F \ {c}, g - 1)
<1> DEFINE n == Len(w)
           u == Tail(w)
<1>1. PICK q \in [1 .. g -> F] :
        /\ \A d \in F : \E k \in 1 .. g : q[k] = d
        /\ \A k, l \in 1 .. g : k < l => Before(q[k], q[l])
        /\ \A k \in 1 .. g : w[k] = q[k][1]
  BY DEF Carries
<1>2. g \in Nat \ {0} /\ g <= n /\ n \in Nat \ {0} /\ w # << >>
  <2>1. g \in 0 .. n /\ n \in Nat
    BY LenProperties DEF Carries
  <2>2. n # 0
    BY <2>1
  <2> QED
    BY <2>1, <2>2, EmptySeq
<1>3. \A k \in g + 1 .. n : w[k] = Marker
  BY DEF Carries
<1>4. Head(w) = w[1] /\ Len(u) = n - 1 /\ \A k \in 1 .. n - 1 : u[k] = w[k + 1]
  BY <1>2, HeadTailProperties
<1> DEFINE c == q[1]
           p == [k \in 1 .. g - 1 |-> q[k + 1]]
<1> HIDE DEF n, u
<1>5. 1 \in 1 .. g /\ \A k \in 1 .. g : k = 1 \/ (1 < k /\ k - 1 \in 1 .. g - 1 /\ (k - 1) + 1 = k)
  BY <1>2
<1>6. \A k \in 1 .. g - 1 : k + 1 \in 1 .. g /\ 1 < k + 1 /\ k \in 1 .. n - 1
  BY <1>2
<1>7. c \in F /\ Head(w) = c[1]
  BY <1>1, <1>4, <1>5
<1>8. \A k \in 1 .. g : k = 1 \/ (Before(c, q[k]) /\ q[k] # c)
  <2> SUFFICES ASSUME NEW k \in 1 .. g, k # 1 PROVE Before(c, q[k]) /\ q[k] # c
    OBVIOUS
  <2>1. Before(c, q[k])
    BY <1>1, <1>5
  <2>2. c \in Positions
    BY <1>7
  <2> HIDE DEF c
  <2> QED
    BY <2>1, <2>2, BeforeIsStrict
<1>9. p \in [1 .. g - 1 -> F \ {c}]
  <2> SUFFICES ASSUME NEW k \in 1 .. g - 1 PROVE q[k + 1] \in F \ {c}
    OBVIOUS
  <2>1. k + 1 \in 1 .. g /\ k + 1 # 1
    BY <1>6
  <2> QED
    BY <1>1, <1>8, <2>1
<1>10. \A k \in 1 .. g - 1 : p[k] = q[k + 1]
  OBVIOUS
<1> HIDE DEF p, c
<1>11. \A d \in F \ {c} : \E k \in 1 .. g - 1 : p[k] = d
  <2> SUFFICES ASSUME NEW d \in F \ {c} PROVE \E k \in 1 .. g - 1 : p[k] = d
    OBVIOUS
  <2>1. PICK k \in 1 .. g : q[k] = d
    BY <1>1
  <2>2. k - 1 \in 1 .. g - 1 /\ (k - 1) + 1 = k
    BY <1>5, <2>1 DEF c
  <2>3. p[k - 1] = d
    BY <1>10, <2>1, <2>2
  <2> QED
    BY <2>2, <2>3
<1>12. \A k, l \in 1 .. g - 1 : k < l => Before(p[k], p[l])
  <2> SUFFICES ASSUME NEW k \in 1 .. g - 1, NEW l \in 1 .. g - 1, k < l
               PROVE  Before(p[k], p[l])
    OBVIOUS
  <2>1. k + 1 \in 1 .. g /\ l + 1 \in 1 .. g /\ k + 1 < l + 1
    BY <1>6
  <2> QED
    BY <1>1, <1>10, <2>1
<1>13. \A k \in 1 .. g - 1 : u[k] = p[k][1]
  BY <1>1, <1>4, <1>6, <1>10
<1>14. \A k \in (g - 1) + 1 .. Len(u) : u[k] = Marker
  <2> SUFFICES ASSUME NEW k \in (g - 1) + 1 .. n - 1 PROVE u[k] = Marker
    BY <1>4
  <2>1. k \in 1 .. n - 1 /\ k + 1 \in g + 1 .. n
    BY <1>2
  <2> QED
    BY <1>3, <1>4, <2>1
<1>15. g - 1 \in 0 .. Len(u)
  BY <1>2, <1>4
<1>16. Carries(u, F \ {c}, g - 1)
  BY <1>9, <1>11, <1>12, <1>13, <1>14, <1>15 DEF Carries
<1>17. \A d \in F : d = c \/ Before(c, d)
  BY <1>1, <1>8 DEF c
<1> QED
  BY <1>2, <1>7, <1>16, <1>17 DEF u

-----------------------------------------------------------------------------
(* What has been sent or taken, as a position moves.                       *)
LEMMA UptoNext ==
  ASSUME NEW X \in SUBSET Positions, NEW n \in Nat, NEW m \in Nat
  PROVE  Upto(X, n, m + 1) = Upto(X, n, m) \cup (X \cap {<<n, m>>})
<1>1. \A c \in X : Before(c, <<n, m + 1>>) <=> Before(c, <<n, m>>) \/ c = <<n, m>>
  <2> SUFFICES ASSUME NEW c \in X
               PROVE  Before(c, <<n, m + 1>>) <=> Before(c, <<n, m>>) \/ c = <<n, m>>
    OBVIOUS
  <2>1. c = <<c[1], c[2]>> /\ c[1] \in Nat /\ c[2] \in Nat
    BY DEF Positions
  <2>2. Before(c, <<n, m + 1>>) <=> Before(c, <<n, m>>) \/ (c[1] = n /\ c[2] = m)
    BY <2>1 DEF Before
  <2> QED
    BY <2>1, <2>2
<1> QED
  BY <1>1 DEF Upto

LEMMA UptoOver ==
  ASSUME NEW X \in SUBSET Positions, NEW n \in Nat, NEW m \in Nat,
         \A c \in X : c[1] = n => c[2] < m
  PROVE  Upto(X, n, m) = Upto(X, n + 1, 0)
<1>1. \A c \in X : Before(c, <<n, m>>) <=> Before(c, <<n + 1, 0>>)
  <2> SUFFICES ASSUME NEW c \in X PROVE Before(c, <<n, m>>) <=> Before(c, <<n + 1, 0>>)
    OBVIOUS
  <2>1. c[1] \in Nat /\ c[2] \in Nat /\ (c[1] = n => c[2] < m)
    BY DEF Positions
  <2> QED
    BY <2>1 DEF Before
<1> QED
  BY <1>1 DEF Upto

LEMMA UptoAway ==
  ASSUME NEW X \in SUBSET Positions, NEW n \in Nat, NEW m \in Nat, NEW k \in Nat,
         \A c \in X : c[1] # n
  PROVE  Upto(X, n, m) = Upto(X, n, k)
BY DEF Upto, Before

LEMMA UptoStart ==
  ASSUME NEW X \in SUBSET Positions, NEW n \in Nat, NEW m \in Nat
  PROVE  Upto(X, n, 0) \subseteq Upto(X, n, m)
<1>1. \A c \in X : Before(c, <<n, 0>>) => Before(c, <<n, m>>)
  BY DEF Before, Positions
<1> QED
  BY <1>1 DEF Upto

-----------------------------------------------------------------------------
(* The program of the two ranks.                                           *)
LEMMA Program ==
  ASSUME Types
  PROVE  /\ LastTransfer \in Nat /\ FirstReport \in Nat
         /\ LastTransfer = FirstReport + 4
         /\ \A r \in Rank : Peer(r) \in Rank /\ Peer(r) # r /\ Peer(Peer(r)) = r
         /\ \A r \in Rank, i \in Nat : Sends(Peer(r), i) <=> ~Sends(r, i)
         /\ \A r \in Rank, i \in 1 .. LastTransfer :
              Cells(r, i) \in Nat /\ Cells(r, i) = Cells(Parent, i)
<1>1. Len(Report) = 5 /\ LastTransfer = 2 * Gathers + 5 /\ Gathers \in Nat
  BY RankLinkAssumption DEF Report, LastTransfer
<1>2. LastTransfer \in Nat /\ FirstReport \in Nat /\ LastTransfer = FirstReport + 4
  BY <1>1 DEF FirstReport
<1>3. \A r \in Rank : Peer(r) \in Rank /\ Peer(r) # r /\ Peer(Peer(r)) = r
  BY DEF Rank, Peer
<1>4. ASSUME NEW r \in Rank, NEW i \in Nat PROVE Sends(Peer(r), i) <=> ~Sends(r, i)
  <2>1. CASE i < FirstReport
    BY <2>1 DEF Sends, Rank, Peer, Parent
  <2>2. CASE ~(i < FirstReport)
    BY <2>2 DEF Sends, Rank, Peer, Child
  <2> QED
    BY <2>1, <2>2
<1>5. ASSUME NEW r \in Rank PROVE Mine(r) \in Nat
  BY RankLinkAssumption DEF Mine
<1>6. ASSUME NEW r \in Rank, NEW i \in 1 .. LastTransfer
      PROVE  Cells(r, i) \in Nat /\ Cells(r, i) = Cells(Parent, i)
  <2>1. CASE i >= FirstReport
    <3> DEFINE place == i - FirstReport + 1
    <3>1. place \in 1 .. 5
      BY <1>2, <2>1
    <3>2. Report[1] \in Nat /\ Report[2] \in Nat /\ Report[3] \in Nat /\ Report[4] \in Nat /\ Report[5] \in Nat
      BY RankLinkAssumption DEF Report, Types
    <3> HIDE DEF place
    <3>3. Report[place] \in Nat
      BY <3>1, <3>2
    <3>4. WordCells * Report[place] \in Nat
      BY <3>3, RankLinkAssumption
    <3> QED
      BY <2>1, <3>4 DEF Cells, place
  <2>2. CASE ~(i >= FirstReport)
    <3>1. Sends(Child, i) <=> ~Sends(Parent, i)
      BY <1>4 DEF Rank, Peer, Parent, Child
    <3>2. WordCells * Mine(Parent) \in Nat /\ WordCells * Mine(Child) \in Nat
      <4>1. Mine(Parent) \in Nat /\ Mine(Child) \in Nat
        BY <1>5 DEF Rank, Parent, Child
      <4> QED
        BY <4>1, RankLinkAssumption
    <3>3. r = Parent \/ r = Child
      BY DEF Rank, Parent, Child
    <3>4. Peer(Parent) = Child /\ Peer(Child) = Parent
      BY DEF Peer, Parent, Child
    <3> QED
      BY <2>2, <3>1, <3>2, <3>3, <3>4 DEF Cells
  <2> QED
    BY <2>1, <2>2
<1> QED
  BY <1>2, <1>3, <1>4, <1>6

LEMMA OutgoingCells ==
  ASSUME Types, NEW r \in Rank
  PROVE  /\ Outgoing(r) \subseteq Positions
         /\ \A c \in Outgoing(r) : c[1] \in 1 .. LastTransfer
         /\ Sending(r) => /\ <<at[r], moved[r]>> \in Outgoing(r)
                          /\ \A c \in Outgoing(Peer(r)) : c[1] # at[r]
         /\ Receiving(r) => /\ <<at[r], moved[r]>> \in Outgoing(Peer(r))
                            /\ \A c \in Outgoing(r) : c[1] # at[r]
         /\ \A c \in Outgoing(r) \cup Outgoing(Peer(r)) : c[1] = at[r] => c[2] < Cells(r, at[r])
<1>1. /\ LastTransfer \in Nat /\ Peer(r) \in Rank
      /\ \A i \in Nat : Sends(Peer(r), i) <=> ~Sends(r, i)
      /\ \A i \in 1 .. LastTransfer : Cells(r, i) = Cells(Parent, i)
  BY Program
<1>2. at[r] \in Nat \ {0} /\ moved[r] \in Nat
  BY DEF Types
<1>3. \A s \in Rank : \A c \in Outgoing(s) :
        c \in Positions /\ c[1] \in 1 .. LastTransfer /\ Sends(s, c[1]) /\ c[2] < Cells(Parent, c[1])
  BY <1>1 DEF Outgoing, Positions
<1>4. Moving(r) => at[r] \in 1 .. LastTransfer /\ moved[r] < Cells(Parent, at[r])
  BY <1>1, <1>2 DEF Moving
<1>5. ASSUME NEW s \in Rank, Sends(s, at[r]), Moving(r) PROVE <<at[r], moved[r]>> \in Outgoing(s)
  BY <1>2, <1>4, <1>5 DEF Outgoing
<1>6. Sending(r) => /\ <<at[r], moved[r]>> \in Outgoing(r)
                    /\ \A c \in Outgoing(Peer(r)) : c[1] # at[r]
  BY <1>1, <1>2, <1>3, <1>5 DEF Sending
<1>7. Receiving(r) => /\ <<at[r], moved[r]>> \in Outgoing(Peer(r))
                      /\ \A c \in Outgoing(r) : c[1] # at[r]
  BY <1>1, <1>2, <1>3, <1>5 DEF Receiving
<1> QED
  BY <1>1, <1>3, <1>6, <1>7

LEMMA SameOutgoing ==
  ASSUME UNCHANGED drafts, NEW r
  PROVE  Outgoing(r)' = Outgoing(r)
BY DEF Outgoing, Cells, LastTransfer, Report

-----------------------------------------------------------------------------
(* One cell goes out. *)
LEMMA SendMoves ==
  ASSUME Types, NEW r \in Rank, SendCell(r), UNCHANGED drafts
  PROVE  LET c == <<at[r], moved[r]>> IN
         /\ c \in Outgoing(r) /\ c \in Positions /\ at[r] \in Nat
         /\ Sent(r, moved[r])' = Sent(r, moved[r]) \cup {c}
         /\ Taken(r)' = Taken(r)
         /\ \A m \in Nat : Sent(Peer(r), m)' = Sent(Peer(r), m)
         /\ Taken(Peer(r))' = Taken(Peer(r))
         /\ wire'[Peer(r)] = Append(wire[Peer(r)], at[r]) /\ wire'[r] = wire[r]
         /\ moved'[r] = moved[r] + 1 /\ moved'[Peer(r)] = moved[Peer(r)]
<1>1. /\ at[r] \in Nat /\ moved[r] \in Nat /\ at' = at
      /\ moved'[r] = moved[r] + 1 /\ moved'[Peer(r)] = moved[Peer(r)]
      /\ wire'[Peer(r)] = Append(wire[Peer(r)], at[r]) /\ wire'[r] = wire[r]
      /\ Sending(r) /\ Peer(r) \in Rank /\ Peer(Peer(r)) = r
  BY Program DEF SendCell, Types
<1>2. /\ <<at[r], moved[r]>> \in Outgoing(r) /\ <<at[r], moved[r]>> \in Positions
      /\ \A c \in Outgoing(Peer(r)) : c[1] # at[r]
      /\ Outgoing(r) \in SUBSET Positions /\ Outgoing(Peer(r)) \in SUBSET Positions
  BY <1>1, OutgoingCells
<1>3. Outgoing(r)' = Outgoing(r) /\ Outgoing(Peer(r))' = Outgoing(Peer(r))
  BY SameOutgoing
<1>4. Sent(r, moved[r])' = Sent(r, moved[r]) \cup {<<at[r], moved[r]>>}
  <2>1. Upto(Outgoing(r), at[r], moved[r] + 1)
          = Upto(Outgoing(r), at[r], moved[r]) \cup {<<at[r], moved[r]>>}
    <3>1. Outgoing(r) \cap {<<at[r], moved[r]>>} = {<<at[r], moved[r]>>}
      BY <1>2
    <3> QED
      BY <1>1, <1>2, <3>1, UptoNext
  <2>2. Sent(r, moved[r])' = Upto(Outgoing(r), at[r], moved[r] + 1)
    BY <1>1, <1>3 DEF Sent, Upto
  <2> QED
    BY <2>1, <2>2 DEF Sent
<1>5. Taken(r)' = Taken(r)
  <2>1. Upto(Outgoing(Peer(r)), at[r], moved[r] + 1) = Upto(Outgoing(Peer(r)), at[r], moved[r])
    BY <1>1, <1>2, UptoAway
  <2>2. Taken(r)' = Upto(Outgoing(Peer(r)), at[r], moved[r] + 1)
    BY <1>1, <1>3 DEF Taken, Upto
  <2> QED
    BY <2>1, <2>2 DEF Taken
<1>6. \A m \in Nat : Sent(Peer(r), m)' = Sent(Peer(r), m)
  BY <1>1, <1>3 DEF Sent, Upto
<1>7. Taken(Peer(r))' = Taken(Peer(r))
  BY <1>1, <1>3 DEF Taken, Upto
<1> QED
  BY <1>1, <1>2, <1>4, <1>5, <1>6, <1>7

(* One cell is taken. *)
LEMMA RecvMoves ==
  ASSUME Types, NEW r \in Rank, RecvCell(r), UNCHANGED drafts
  PROVE  LET c == <<at[r], moved[r]>> IN
         /\ c \in Outgoing(Peer(r)) /\ c \in Positions /\ at[r] \in Nat
         /\ Sent(r, moved[r])' = Sent(r, moved[r])
         /\ Taken(r)' = Taken(r) \cup {c}
         /\ \A m \in Nat : Sent(Peer(r), m)' = Sent(Peer(r), m)
         /\ Taken(Peer(r))' = Taken(Peer(r))
         /\ wire'[r] = Tail(wire[r]) /\ wire'[Peer(r)] = wire[Peer(r)]
         /\ moved'[r] = moved[r] + 1 /\ moved'[Peer(r)] = moved[Peer(r)]
<1>1. /\ at[r] \in Nat /\ moved[r] \in Nat /\ at' = at
      /\ moved'[r] = moved[r] + 1 /\ moved'[Peer(r)] = moved[Peer(r)]
      /\ wire'[r] = Tail(wire[r]) /\ wire'[Peer(r)] = wire[Peer(r)]
      /\ Receiving(r) /\ Peer(r) \in Rank /\ Peer(Peer(r)) = r
  BY Program DEF RecvCell, Types
<1>2. /\ <<at[r], moved[r]>> \in Outgoing(Peer(r)) /\ <<at[r], moved[r]>> \in Positions
      /\ \A c \in Outgoing(r) : c[1] # at[r]
      /\ Outgoing(r) \in SUBSET Positions /\ Outgoing(Peer(r)) \in SUBSET Positions
  BY <1>1, OutgoingCells
<1>3. Outgoing(r)' = Outgoing(r) /\ Outgoing(Peer(r))' = Outgoing(Peer(r))
  BY SameOutgoing
<1>4. Taken(r)' = Taken(r) \cup {<<at[r], moved[r]>>}
  <2>1. Upto(Outgoing(Peer(r)), at[r], moved[r] + 1)
          = Upto(Outgoing(Peer(r)), at[r], moved[r]) \cup {<<at[r], moved[r]>>}
    <3>1. Outgoing(Peer(r)) \cap {<<at[r], moved[r]>>} = {<<at[r], moved[r]>>}
      BY <1>2
    <3> QED
      BY <1>1, <1>2, <3>1, UptoNext
  <2>2. Taken(r)' = Upto(Outgoing(Peer(r)), at[r], moved[r] + 1)
    BY <1>1, <1>3 DEF Taken, Upto
  <2> QED
    BY <2>1, <2>2 DEF Taken
<1>5. Sent(r, moved[r])' = Sent(r, moved[r])
  <2>1. Upto(Outgoing(r), at[r], moved[r] + 1) = Upto(Outgoing(r), at[r], moved[r])
    BY <1>1, <1>2, UptoAway
  <2>2. Sent(r, moved[r])' = Upto(Outgoing(r), at[r], moved[r] + 1)
    BY <1>1, <1>3 DEF Sent, Upto
  <2> QED
    BY <2>1, <2>2 DEF Sent
<1>6. \A m \in Nat : Sent(Peer(r), m)' = Sent(Peer(r), m)
  BY <1>1, <1>3 DEF Sent, Upto
<1>7. Taken(Peer(r))' = Taken(Peer(r))
  BY <1>1, <1>3 DEF Taken, Upto
<1> QED
  BY <1>1, <1>2, <1>4, <1>5, <1>6, <1>7

(* A transfer is over and the next one begins: nothing moves. *)
LEMMA NextMoves ==
  ASSUME Types, NEW r \in Rank, NextTransfer(r), UNCHANGED drafts, at'[r] = at[r] + 1
  PROVE  /\ Sent(r, moved[r])' = Sent(r, moved[r])
         /\ Taken(r)' = Taken(r)
         /\ \A m \in Nat : Sent(Peer(r), m)' = Sent(Peer(r), m)
         /\ Taken(Peer(r))' = Taken(Peer(r))
<1>1. /\ at[r] \in Nat /\ moved[r] \in Nat /\ moved[r] = Cells(r, at[r])
      /\ at'[Peer(r)] = at[Peer(r)] /\ moved'[Peer(r)] = moved[Peer(r)] /\ moved'[r] = 0
      /\ Peer(r) \in Rank /\ Peer(Peer(r)) = r
  BY Program DEF NextTransfer, Types
<1>2. /\ Outgoing(r) \in SUBSET Positions /\ Outgoing(Peer(r)) \in SUBSET Positions
      /\ \A c \in Outgoing(r) : c[1] = at[r] => c[2] < moved[r]
      /\ \A c \in Outgoing(Peer(r)) : c[1] = at[r] => c[2] < moved[r]
  BY <1>1, OutgoingCells
<1>3. Outgoing(r)' = Outgoing(r) /\ Outgoing(Peer(r))' = Outgoing(Peer(r))
  BY SameOutgoing
<1>4. Sent(r, moved[r])' = Sent(r, moved[r])
  <2>1. Upto(Outgoing(r), at[r], moved[r]) = Upto(Outgoing(r), at[r] + 1, 0)
    BY <1>1, <1>2, UptoOver
  <2>2. Sent(r, moved[r])' = Upto(Outgoing(r), at[r] + 1, 0)
    BY <1>1, <1>3 DEF Sent, Upto
  <2> QED
    BY <2>1, <2>2 DEF Sent
<1>5. Taken(r)' = Taken(r)
  <2>1. Upto(Outgoing(Peer(r)), at[r], moved[r]) = Upto(Outgoing(Peer(r)), at[r] + 1, 0)
    BY <1>1, <1>2, UptoOver
  <2>2. Taken(r)' = Upto(Outgoing(Peer(r)), at[r] + 1, 0)
    BY <1>1, <1>3 DEF Taken, Upto
  <2> QED
    BY <2>1, <2>2 DEF Taken
<1>6. \A m \in Nat : Sent(Peer(r), m)' = Sent(Peer(r), m)
  BY <1>1, <1>3 DEF Sent, Upto
<1>7. Taken(Peer(r))' = Taken(Peer(r))
  BY <1>1, <1>3 DEF Taken, Upto
<1> QED
  BY <1>4, <1>5, <1>6, <1>7

-----------------------------------------------------------------------------
(* The cells on their way to a rank, as they are sent and taken. *)
LEMMA SameInbound ==
  ASSUME Types, NEW r \in Rank, UNCHANGED <<drafts, at>>, wire'[r] = wire[r], moved'[r] = moved[r],
         NEW m, NEW g
  PROVE  /\ Inbound(r, m, g)' <=> Inbound(r, m, g)
         /\ Sent(Peer(r), m)' = Sent(Peer(r), m)
<1>1. Outgoing(Peer(r))' = Outgoing(Peer(r))
  BY SameOutgoing
<1>2. Sent(Peer(r), m)' = Sent(Peer(r), m) /\ Taken(r)' = Taken(r)
  BY <1>1 DEF Sent, Taken, Upto
<1> QED
  BY <1>2 DEF Inbound, Carries

LEMMA InboundKept ==
  ASSUME NEW r, NEW m, NEW n, NEW g, Inbound(r, m, g),
         wire'[r] = wire[r], Taken(r)' = Taken(r), Sent(Peer(r), n)' = Sent(Peer(r), m)
  PROVE  Inbound(r, n, g)'
<1>1. Taken(r)' \subseteq Sent(Peer(r), n)'
  BY DEF Inbound
<1>2. Carries(wire'[r], Sent(Peer(r), n)' \ Taken(r)', g)
  BY DEF Inbound
<1> QED
  BY <1>1, <1>2 DEF Inbound, Carries

LEMMA InboundNow ==
  ASSUME NEW r, NEW m, NEW g, Inbound(r, m, g)', m = moved'[Peer(r)], g = Len(wire'[r])
  PROVE  Inbound(r, moved[Peer(r)], Len(wire[r]))'
<1>1. Sent(Peer(r), m)' = Sent(Peer(r), moved[Peer(r)])'
  BY DEF Sent
<1>2. Taken(r)' \subseteq Sent(Peer(r), m)' /\ Carries(wire'[r], Sent(Peer(r), m)' \ Taken(r)', g)
  BY DEF Inbound, Carries
<1>3. /\ Taken(r)' \subseteq Sent(Peer(r), moved[Peer(r)])'
      /\ Carries(wire'[r], Sent(Peer(r), moved[Peer(r)])' \ Taken(r)', Len(wire'[r]))
  BY <1>1, <1>2
<1> QED
  BY <1>3 DEF Inbound, Carries

LEMMA InboundSend ==
  ASSUME Types, NEW r \in Rank, SendCell(r), UNCHANGED drafts,
         Inbound(Peer(r), moved[r], Len(wire[Peer(r)]))
  PROVE  Inbound(Peer(r), moved[r], Len(wire[Peer(r)]))'
<1> DEFINE c == <<at[r], moved[r]>>
           F == Sent(r, moved[r]) \ Taken(Peer(r))
           w == wire[Peer(r)]
<1>1. /\ c \in Positions /\ at[r] \in Nat /\ c[1] = at[r]
      /\ Sent(r, moved[r])' = Sent(r, moved[r]) \cup {c}
      /\ Taken(Peer(r))' = Taken(Peer(r))
      /\ wire'[Peer(r)] = Append(w, at[r])
  BY SendMoves
<1>2. Peer(r) \in Rank /\ Peer(Peer(r)) = r /\ w \in Seq(Nat)
  BY Program DEF Types
<1>3. Taken(Peer(r)) \subseteq Sent(r, moved[r]) /\ Carries(w, F, Len(w))
  BY <1>2 DEF Inbound
<1>4. Sent(r, moved[r]) \subseteq Positions /\ \A d \in Sent(r, moved[r]) : Before(d, c)
  BY OutgoingCells DEF Sent, Upto
<1>5. c \notin Sent(r, moved[r])
  BY <1>1, <1>4, BeforeIsStrict
<1>6. F \in SUBSET Positions /\ c \notin F /\ \A d \in F : Before(d, c)
  BY <1>4, <1>5
<1>7. (Sent(r, moved[r]) \cup {c}) \ Taken(Peer(r)) = F \cup {c}
  BY <1>3, <1>5
<1>8. Len(Append(w, at[r])) = Len(w) + 1
  BY <1>1, <1>2, AppendProperties
<1> HIDE DEF c, F, w
<1>9. Carries(Append(w, at[r]), F \cup {c}, Len(w) + 1)
  BY <1>1, <1>2, <1>3, <1>6, CarriesOneMore
<1>10. Carries(wire'[Peer(r)], Sent(r, moved[r])' \ Taken(Peer(r))', Len(wire'[Peer(r)]))
  BY <1>1, <1>7, <1>8, <1>9
<1>11. Taken(Peer(r))' \subseteq Sent(r, moved[r])'
  BY <1>1, <1>3
<1>12. Sent(Peer(Peer(r)), moved[r])' = Sent(r, moved[r])'
  BY <1>2
<1> QED
  BY <1>10, <1>11, <1>12 DEF Inbound, Carries

LEMMA InboundRecv ==
  ASSUME Types, NEW r \in Rank, RecvCell(r), UNCHANGED drafts,
         NEW m \in Nat, NEW g, Inbound(r, m, g), g # 0
  PROVE  Head(wire[r]) = at[r] /\ Inbound(r, m, g - 1)'
<1> DEFINE c == <<at[r], moved[r]>>
           e == <<at[Peer(r)], m>>
           F == Sent(Peer(r), m) \ Taken(r)
           w == wire[r]
<1>1. /\ c \in Positions /\ c[1] = at[r] /\ c \in Outgoing(Peer(r))
      /\ Sent(Peer(r), m)' = Sent(Peer(r), m)
      /\ Taken(r)' = Taken(r) \cup {c}
      /\ wire'[r] = Tail(w)
  BY RecvMoves
<1>2. Peer(r) \in Rank /\ w \in Seq(Nat) /\ e \in Positions
  BY Program DEF Types, Positions
<1>3. Taken(r) \subseteq Sent(Peer(r), m) /\ Carries(w, F, g)
  BY DEF Inbound
<1>4. /\ \A d \in Outgoing(Peer(r)) : d \in Positions
      /\ \A d \in Outgoing(Peer(r)) : d \in Sent(Peer(r), m) <=> Before(d, e)
      /\ \A d \in Outgoing(Peer(r)) : d \in Taken(r) <=> Before(d, c)
      /\ Sent(Peer(r), m) \subseteq Outgoing(Peer(r))
  BY <1>2, OutgoingCells DEF Sent, Taken, Upto
<1>5. F \in SUBSET Positions
  BY <1>4
<1>6. \A d \in F : d \in Outgoing(Peer(r)) /\ d \in Positions /\ Before(d, e) /\ ~Before(d, c)
  BY <1>4
<1>7. Before(c, e) => c \in F
  BY <1>1, <1>4, BeforeIsStrict
<1> HIDE DEF c, e, F, w
<1>8. PICK d \in F :
        /\ Head(w) = d[1]
        /\ \A b \in F : b = d \/ Before(d, b)
        /\ Carries(Tail(w), F \ {d}, g - 1)
  BY <1>2, <1>3, <1>5, CarriesHead
<1>9. d = c
  <2>1. d = c \/ Before(c, d)
    BY <1>1, <1>6, BeforeIsStrict
  <2>2. CASE Before(c, d)
    <3>1. Before(c, e)
      BY <1>1, <1>2, <1>6, <2>2, BeforeIsTransitive
    <3> QED
      BY <1>6, <1>7, <1>8, <3>1
  <2> QED
    BY <2>1, <2>2
<1>10. Head(w) = at[r]
  BY <1>1, <1>8, <1>9
<1>11. Sent(Peer(r), m) \ (Taken(r) \cup {c}) = F \ {c}
  BY DEF F
<1>12. c \in Sent(Peer(r), m)
  BY <1>8, <1>9 DEF F
<1>13. Carries(wire'[r], Sent(Peer(r), m)' \ Taken(r)', g - 1)
  BY <1>1, <1>8, <1>9, <1>11
<1>14. Taken(r)' \subseteq Sent(Peer(r), m)'
  BY <1>1, <1>3, <1>12
<1> QED
  BY <1>10, <1>13, <1>14 DEF Inbound, Carries, w

(* A transfer that reads when nothing is on its way reads a marker, and    *)
(* the sender had not come to what the reader asks for.                    *)
LEMMA InboundOver ==
  ASSUME Types, NEW r \in Rank, Receiving(r), NEW m \in Nat, NEW g, Inbound(r, m, g),
         g = 0 \/ wire[r] = << >>
  PROVE  /\ at[Peer(r)] < at[r] \/ (at[Peer(r)] = at[r] /\ m <= moved[r])
         /\ \A i \in 1 .. Len(wire[r]) : wire[r][i] = Marker
<1> DEFINE c == <<at[r], moved[r]>>
           F == Sent(Peer(r), m) \ Taken(r)
<1>1. /\ c \in Positions /\ at[r] \in Nat /\ moved[r] \in Nat /\ wire[r] \in Seq(Nat)
      /\ at[Peer(r)] \in Nat /\ Peer(r) \in Rank
  BY Program DEF Types, Positions
<1>2. c \in Outgoing(Peer(r))
  BY OutgoingCells
<1>3. ~Before(c, c)
  BY <1>1, BeforeIsStrict
<1>4. c \notin Taken(r)
  BY <1>3 DEF Taken, Upto
<1>5. Carries(wire[r], F, g)
  BY DEF Inbound
<1> HIDE DEF F
<1>6. F = {} /\ g \in Nat /\ g <= Len(wire[r])
  BY <1>1, <1>5, CarriesNothing
<1>7. c \notin Sent(Peer(r), m)
  BY <1>4, <1>6 DEF F
<1>8. ~Before(c, <<at[Peer(r)], m>>)
  BY <1>2, <1>7 DEF Sent, Upto
<1>9. at[Peer(r)] < at[r] \/ (at[Peer(r)] = at[r] /\ m <= moved[r])
  BY <1>1, <1>8 DEF Before
<1>10. \A i \in g + 1 .. Len(wire[r]) : wire[r][i] = Marker
  BY <1>5 DEF Carries
<1>11. Len(wire[r]) \in Nat /\ (wire[r] = << >> => Len(wire[r]) = 0)
  BY <1>1, LenProperties
<1>12. g = 0
  BY <1>6, <1>11
<1> QED
  BY <1>9, <1>10, <1>12

(* What is on its way was sent for this transfer or a later one. *)
LEMMA InboundAhead ==
  ASSUME Types, NEW r \in Rank, NEW m \in Nat, NEW g, Inbound(r, m, g)
  PROVE  \A i \in 1 .. Len(wire[r]) :
           \/ wire[r][i] = Marker /\ ~(i \in 1 .. g)
           \/ wire[r][i] >= at[r] /\ (NextTransfer(r) => wire[r][i] >= at[r] + 1)
<1> DEFINE c == <<at[r], moved[r]>>
           F == Sent(Peer(r), m) \ Taken(r)
<1>1. /\ at[r] \in Nat /\ moved[r] \in Nat /\ Peer(r) \in Rank /\ Len(wire[r]) \in Nat
  BY Program, LenProperties DEF Types
<1>2. \A d \in F : /\ d \in Positions /\ ~Before(d, c)
                   /\ d[1] = at[r] => d[2] < Cells(r, at[r])
  BY <1>1, OutgoingCells DEF Sent, Taken, Upto
<1>3. Carries(wire[r], F, g)
  BY DEF Inbound
<1> SUFFICES ASSUME NEW i \in 1 .. Len(wire[r])
             PROVE  \/ wire[r][i] = Marker /\ ~(i \in 1 .. g)
                    \/ wire[r][i] >= at[r] /\ (NextTransfer(r) => wire[r][i] >= at[r] + 1)
  OBVIOUS
<1> HIDE DEF F
<1>4. CASE i \in 1 .. g
  <2>1. PICK d \in F : wire[r][i] = d[1]
    BY <1>3, <1>4 DEF Carries
  <2>2. d[1] \in Nat /\ d[2] \in Nat /\ ~(d[1] < at[r]) /\ ~(d[1] = at[r] /\ d[2] < moved[r])
    BY <1>2, <2>1 DEF Before, Positions
  <2>3. NextTransfer(r) => moved[r] = Cells(r, at[r])
    BY DEF NextTransfer
  <2>4. NextTransfer(r) => d[1] # at[r]
    BY <1>2, <2>1, <2>2, <2>3
  <2>5. d[1] >= at[r] /\ (d[1] # at[r] => d[1] >= at[r] + 1)
    BY <1>1, <2>2
  <2> QED
    BY <2>1, <2>4, <2>5
<1>5. CASE ~(i \in 1 .. g)
  <2>1. g \in 0 .. Len(wire[r]) /\ \A k \in g + 1 .. Len(wire[r]) : wire[r][k] = Marker
    BY <1>3 DEF Carries
  <2>2. i \in g + 1 .. Len(wire[r])
    BY <1>1, <1>5, <2>1
  <2> QED
    BY <1>5, <2>1, <2>2
<1> QED
  BY <1>4, <1>5

-----------------------------------------------------------------------------
(* Every step keeps the two streams in order. *)
LEMMA Peers ==
  /\ Parent \in Rank /\ Child \in Rank /\ Parent # Child
  /\ Peer(Parent) = Child /\ Peer(Child) = Parent
  /\ \A r \in Rank : r = Parent \/ r = Child
BY DEF Rank, Peer, Parent, Child

LEMMA WhileHealthy ==
  ASSUME Types, Streams, Healthy
  PROVE  /\ ~dirty[Parent]
         /\ Inbound(Parent, moved[Child], Len(wire[Parent]))
         /\ Inbound(Child, moved[Parent], Len(wire[Child]))
         /\ Upto(Outgoing(Parent), at[Child], 0) \subseteq Sent(Parent, moved[Parent])
BY DEF Streams, ToParent, ToChild

LEMMA StreamsStay ==
  ASSUME Types, Streams, UNCHANGED <<drafts, link>>, Healthy' => Healthy
  PROVE  Streams'
<1>1. /\ UNCHANGED drafts /\ UNCHANGED at /\ UNCHANGED moved /\ UNCHANGED wire /\ UNCHANGED dirty
  BY DEF link
<1>2. \A m, g : Inbound(Parent, m, g)' <=> Inbound(Parent, m, g)
  BY <1>1, Peers, SameInbound
<1>3. \A m, g : Inbound(Child, m, g)' <=> Inbound(Child, m, g)
  BY <1>1, Peers, SameInbound
<1>4. ToParent => ToParent'
  <2> SUFFICES ASSUME ToParent PROVE ToParent'
    OBVIOUS
  <2>1. PICK m \in Nat, g \in Nat :
          Inbound(Parent, m, g) /\ (Healthy => m = moved[Child] /\ g = Len(wire[Parent]))
    BY DEF ToParent
  <2>2. Inbound(Parent, m, g)' /\ (Healthy' => m = moved'[Child] /\ g = Len(wire'[Parent]))
    BY <1>1, <1>2, <2>1
  <2> QED
    BY <2>2 DEF ToParent
<1>5. ToChild => ToChild'
  <2>1. Upto(Outgoing(Parent), at[Child], 0)' = Upto(Outgoing(Parent), at[Child], 0)
    BY <1>1, SameOutgoing DEF Upto
  <2>2. Sent(Parent, moved[Parent])' = Sent(Parent, moved[Parent])
    BY <1>1, SameOutgoing DEF Sent, Upto
  <2>3. Inbound(Child, moved[Parent], Len(wire[Child])) => Inbound(Child, moved[Parent], Len(wire[Child]))'
    BY <1>1, <1>3
  <2> QED
    BY <2>1, <2>2, <2>3 DEF ToChild
<1> QED
  BY <1>1, <1>4, <1>5 DEF Streams

LEMMA ParentSends ==
  ASSUME Types, Streams, SendCell(Parent), UNCHANGED drafts
  PROVE  Streams'
<1> DEFINE c == <<at[Parent], moved[Parent]>>
<1>1. /\ UNCHANGED at /\ UNCHANGED dirty /\ UNCHANGED pc /\ UNCHANGED exit
      /\ at[Parent] \in Nat /\ at[Child] \in Nat /\ moved[Parent] \in Nat
      /\ wire[Child] \in Seq(Nat)
  BY Peers DEF SendCell, Types
<1>2. /\ c \in Outgoing(Parent) /\ c \in Positions
      /\ Sent(Parent, moved[Parent])' = Sent(Parent, moved[Parent]) \cup {c}
      /\ Taken(Parent)' = Taken(Parent)
      /\ \A m \in Nat : Sent(Child, m)' = Sent(Child, m)
      /\ wire'[Child] = Append(wire[Child], at[Parent]) /\ wire'[Parent] = wire[Parent]
      /\ moved'[Child] = moved[Child]
  BY SendMoves, Peers
<1>3. Healthy' <=> Healthy
  BY <1>1 DEF Healthy
<1>4. at[Parent] >= at[Child]
  <2>1. CASE dirty[Parent]
    BY <1>1, <2>1 DEF Streams
  <2>2. CASE ~dirty[Parent]
    <3>1. Upto(Outgoing(Parent), at[Child], 0) \subseteq Sent(Parent, moved[Parent])
      BY <2>2 DEF Streams, ToChild
    <3>2. c \notin Sent(Parent, moved[Parent])
      BY <1>2, BeforeIsStrict DEF Sent, Upto
    <3>3. ~Before(c, <<at[Child], 0>>)
      BY <1>2, <3>1, <3>2 DEF Upto
    <3> QED
      BY <1>1, <3>3 DEF Before
  <2> QED
    BY <2>1, <2>2
<1>5. \A i \in 1 .. Len(wire'[Child]) : wire'[Child][i] >= at'[Child]
  <2>1. /\ Len(wire'[Child]) = Len(wire[Child]) + 1 /\ Len(wire[Child]) \in Nat
        /\ wire'[Child][Len(wire[Child]) + 1] = at[Parent]
        /\ \A i \in 1 .. Len(wire[Child]) : wire'[Child][i] = wire[Child][i]
    BY <1>1, <1>2, AppendProperties, LenProperties
  <2>2. \A i \in 1 .. Len(wire[Child]) : wire[Child][i] >= at[Child]
    BY DEF Streams
  <2>3. \A i \in 1 .. Len(wire'[Child]) : i \in 1 .. Len(wire[Child]) \/ i = Len(wire[Child]) + 1
    BY <2>1
  <2> QED
    BY <1>1, <1>4, <2>1, <2>2, <2>3
<1>6. ToParent => ToParent'
  <2> SUFFICES ASSUME ToParent PROVE ToParent'
    OBVIOUS
  <2>1. PICK m \in Nat, g \in Nat :
          Inbound(Parent, m, g) /\ (Healthy => m = moved[Child] /\ g = Len(wire[Parent]))
    BY DEF ToParent
  <2>2. Inbound(Parent, m, g)'
    BY <1>2, <2>1, Peers, InboundKept
  <2>3. Healthy' => m = moved'[Child] /\ g = Len(wire'[Parent])
    BY <1>2, <1>3, <2>1
  <2> QED
    BY <2>2, <2>3 DEF ToParent
<1>7. ToChild => ToChild'
  <2>1. Upto(Outgoing(Parent), at[Child], 0)' = Upto(Outgoing(Parent), at[Child], 0)
    BY <1>1, SameOutgoing DEF Upto
  <2>2. Inbound(Child, moved[Parent], Len(wire[Child])) => Inbound(Child, moved[Parent], Len(wire[Child]))'
    BY InboundSend, Peers
  <2> QED
    BY <1>2, <1>3, <2>1, <2>2 DEF ToChild
<1> QED
  BY <1>1, <1>2, <1>3, <1>5, <1>6, <1>7 DEF Streams

LEMMA ChildSends ==
  ASSUME Types, Streams, Healthy, SendCell(Child), UNCHANGED drafts
  PROVE  Streams'
<1>1. /\ UNCHANGED at /\ UNCHANGED dirty /\ UNCHANGED pc /\ UNCHANGED exit
      /\ moved'[Child] = moved[Child] + 1 /\ moved[Child] \in Nat
      /\ wire' = [wire EXCEPT ![Parent] = Append(@, at[Child])]
      /\ wire \in [Rank -> Seq(Nat)] /\ at[Child] \in Nat
  BY Peers DEF SendCell, Types
<1>2. /\ Taken(Child)' = Taken(Child)
      /\ \A m \in Nat : Sent(Parent, m)' = Sent(Parent, m)
      /\ wire'[Child] = wire[Child] /\ moved'[Parent] = moved[Parent] /\ moved[Parent] \in Nat
  BY SendMoves, Peers DEF Types
<1>3. /\ ~dirty[Parent]
      /\ Inbound(Parent, moved[Child], Len(wire[Parent]))
      /\ Inbound(Child, moved[Parent], Len(wire[Child]))
      /\ Upto(Outgoing(Parent), at[Child], 0) \subseteq Sent(Parent, moved[Parent])
  BY WhileHealthy
<1>4. ToParent'
  <2>1. Inbound(Parent, moved[Child], Len(wire[Parent]))'
    BY <1>3, InboundSend, Peers
  <2>2. moved'[Child] \in Nat /\ Len(wire'[Parent]) \in Nat
    BY <1>1, Peers, AppendProperties, LenProperties
  <2> QED
    BY <2>1, <2>2 DEF ToParent
<1>5. ToChild'
  <2>1. Upto(Outgoing(Parent), at[Child], 0)' = Upto(Outgoing(Parent), at[Child], 0)
    BY <1>1, SameOutgoing DEF Upto
  <2>2. Sent(Parent, moved[Parent])' = Sent(Parent, moved[Parent])
    BY <1>2 DEF Sent
  <2>3. Inbound(Child, moved[Parent], Len(wire[Child]))'
    BY <1>2, <1>3, <2>2, Peers DEF Inbound, Carries
  <2> QED
    BY <1>3, <2>1, <2>2, <2>3 DEF ToChild
<1> QED
  BY <1>1, <1>2, <1>3, <1>4, <1>5 DEF Streams

LEMMA TailOf ==
  ASSUME NEW w \in Seq(Nat), w # << >>
  PROVE  /\ Tail(w) \in Seq(Nat) /\ Len(Tail(w)) = Len(w) - 1 /\ Len(w) \in Nat \ {0}
         /\ Head(w) = w[1] /\ Head(w) \in Nat /\ 1 \in 1 .. Len(w)
         /\ \A i \in 1 .. Len(Tail(w)) : Tail(w)[i] = w[i + 1] /\ i + 1 \in 1 .. Len(w)
<1>1. /\ Tail(w) \in Seq(Nat) /\ Len(Tail(w)) = Len(w) - 1
      /\ Head(w) = w[1] /\ Head(w) \in Nat
      /\ \A i \in 1 .. Len(Tail(w)) : Tail(w)[i] = w[i + 1]
  BY HeadTailProperties
<1>2. Len(w) \in Nat \ {0}
  BY LenProperties, EmptySeq
<1> QED
  BY <1>1, <1>2

LEMMA ParentReceives ==
  ASSUME Types, Streams, RecvCell(Parent), UNCHANGED drafts
  PROVE  Streams'
<1>1. /\ UNCHANGED at /\ UNCHANGED pc /\ UNCHANGED exit
      /\ dirty \in [Rank -> BOOLEAN]
      /\ dirty' = [dirty EXCEPT ![Parent] = @ \/ Head(wire[Parent]) # at[Parent]]
      /\ at[Parent] \in Nat \ {0} /\ at[Child] \in Nat
      /\ wire[Parent] \in Seq(Nat) /\ wire[Parent] # << >> /\ Receiving(Parent)
      /\ moved[Parent] \in Nat /\ moved'[Parent] = moved[Parent] + 1
  BY Peers DEF RecvCell, Types
<1>2. /\ Sent(Parent, moved[Parent])' = Sent(Parent, moved[Parent])
      /\ Taken(Child)' = Taken(Child)
      /\ wire'[Parent] = Tail(wire[Parent]) /\ wire'[Child] = wire[Child]
      /\ moved'[Child] = moved[Child]
  BY RecvMoves, Peers
<1>3. dirty'[Child] = dirty[Child] /\ dirty'[Parent] = (dirty[Parent] \/ Head(wire[Parent]) # at[Parent])
  BY <1>1, Peers
<1>4. Healthy' <=> Healthy
  BY <1>1 DEF Healthy
<1>5. ToChild => ToChild'
  <2>1. Upto(Outgoing(Parent), at[Child], 0)' = Upto(Outgoing(Parent), at[Child], 0)
    BY <1>1, SameOutgoing DEF Upto
  <2>2. PICK n \in Nat, h \in Nat : n = moved[Parent] + 1 /\ h = Len(wire[Child])
    BY <1>1, Peers, LenProperties DEF Types
  <2>3. ASSUME Inbound(Child, moved[Parent], Len(wire[Child]))
        PROVE  Inbound(Child, moved[Parent], Len(wire[Child]))'
    <3>1. n = moved'[Parent] /\ h = Len(wire'[Child])
      BY <1>1, <1>2, <2>2
    <3>2. Sent(Peer(Child), n)' = Sent(Peer(Child), moved[Parent])
      BY <1>2, <3>1, Peers DEF Sent
    <3>3. Inbound(Child, n, h)'
      BY <1>2, <2>2, <2>3, <3>2, InboundKept
    <3>4. Inbound(Child, moved[Peer(Child)], Len(wire[Child]))'
      BY <3>1, <3>3, InboundNow, Peers
    <3> QED
      BY <3>4, Peers
  <2> QED
    BY <1>2, <1>4, <2>1, <2>3 DEF ToChild
<1>6. CASE dirty[Parent]
  <2>1. ~Healthy /\ at[Child] <= at[Parent] /\ \A i \in 1 .. Len(wire[Parent]) : wire[Parent][i] = Marker
    BY <1>6 DEF Streams
  <2>2. \A i \in 1 .. Len(wire'[Parent]) : wire'[Parent][i] = Marker
    BY <1>1, <1>2, <2>1, TailOf
  <2> QED
    BY <1>1, <1>2, <1>3, <1>4, <1>6, <2>1, <2>2 DEF Streams
<1>7. CASE ~dirty[Parent]
  <2>1. PICK m \in Nat, g \in Nat :
          Inbound(Parent, m, g) /\ (Healthy => m = moved[Child] /\ g = Len(wire[Parent]))
    BY <1>7 DEF Streams, ToParent
  <2>2. CASE g # 0
    <3>1. Head(wire[Parent]) = at[Parent] /\ Inbound(Parent, m, g - 1)'
      BY <2>1, <2>2, Peers, InboundRecv
    <3>2. g - 1 \in Nat /\ Len(wire'[Parent]) = Len(wire[Parent]) - 1
      BY <1>1, <1>2, <2>2, TailOf
    <3>3. ToParent'
      BY <1>2, <1>4, <2>1, <3>1, <3>2 DEF ToParent
    <3>4. ~dirty'[Parent]
      BY <1>3, <1>7, <3>1
    <3> QED
      BY <1>1, <1>2, <1>3, <1>5, <1>7, <3>3, <3>4 DEF Streams
  <2>3. CASE g = 0
    <3>1. at[Child] <= at[Parent] /\ \A i \in 1 .. Len(wire[Parent]) : wire[Parent][i] = Marker
      <4>1. /\ at[Peer(Parent)] < at[Parent] \/ at[Peer(Parent)] = at[Parent]
            /\ \A i \in 1 .. Len(wire[Parent]) : wire[Parent][i] = Marker
        BY <1>1, <2>1, <2>3, Peers, InboundOver
      <4> QED
        BY <1>1, <4>1, Peers
    <3>2. Head(wire[Parent]) = Marker /\ \A i \in 1 .. Len(wire'[Parent]) : wire'[Parent][i] = Marker
      BY <1>1, <1>2, <3>1, TailOf
    <3>3. dirty'[Parent]
      BY <1>1, <1>3, <3>2 DEF Marker
    <3>4. ~Healthy
      BY <1>1, <2>1, <2>3, TailOf
    <3> QED
      BY <1>1, <1>2, <1>3, <1>4, <3>1, <3>2, <3>3, <3>4 DEF Streams
  <2> QED
    BY <2>2, <2>3
<1> QED
  BY <1>6, <1>7

LEMMA ChildReceives ==
  ASSUME Types, Streams, Healthy, RecvCell(Child), UNCHANGED drafts
  PROVE  Streams'
<1>1. /\ UNCHANGED at /\ UNCHANGED pc /\ UNCHANGED exit
      /\ dirty \in [Rank -> BOOLEAN]
      /\ dirty' = [dirty EXCEPT ![Child] = @ \/ Head(wire[Child]) # at[Child]]
      /\ moved[Parent] \in Nat /\ moved[Child] \in Nat
      /\ wire[Child] \in Seq(Nat) /\ wire[Child] # << >> /\ wire[Parent] \in Seq(Nat)
  BY Peers DEF RecvCell, Types
<1>2. /\ Sent(Child, moved[Child])' = Sent(Child, moved[Child])
      /\ Sent(Parent, moved[Parent])' = Sent(Parent, moved[Parent])
      /\ Taken(Parent)' = Taken(Parent)
      /\ wire'[Child] = Tail(wire[Child]) /\ wire'[Parent] = wire[Parent]
      /\ moved'[Child] = moved[Child] + 1 /\ moved'[Parent] = moved[Parent]
  <2>1. \A m \in Nat : Sent(Parent, m)' = Sent(Parent, m)
    BY RecvMoves, Peers
  <2>2. moved'[Parent] = moved[Parent]
    BY RecvMoves, Peers
  <2>3. Sent(Parent, moved[Parent])' = Sent(Parent, moved[Parent])
    BY <1>1, <2>1, <2>2 DEF Sent
  <2> QED
    BY <2>2, <2>3, RecvMoves, Peers
<1>3. /\ ~dirty[Parent]
      /\ Inbound(Parent, moved[Child], Len(wire[Parent]))
      /\ Inbound(Child, moved[Parent], Len(wire[Child]))
      /\ Upto(Outgoing(Parent), at[Child], 0) \subseteq Sent(Parent, moved[Parent])
  BY WhileHealthy
<1>4. /\ Len(wire'[Child]) = Len(wire[Child]) - 1 /\ Len(wire[Child]) # 0
      /\ \A i \in 1 .. Len(wire'[Child]) : wire'[Child][i] = wire[Child][i + 1] /\ i + 1 \in 1 .. Len(wire[Child])
  BY <1>1, <1>2, TailOf
<1>5. PICK m \in Nat, g \in Nat : m = moved[Parent] /\ g = Len(wire[Child])
  BY <1>1, LenProperties
<1>6. Inbound(Child, m, g) /\ g # 0
  BY <1>3, <1>4, <1>5
<1>7. Head(wire[Child]) = at[Child] /\ Inbound(Child, m, g - 1)'
  BY <1>6, Peers, InboundRecv
<1>8. Inbound(Child, moved[Parent], Len(wire[Child]))'
  <2>1. m = moved'[Peer(Child)] /\ g - 1 = Len(wire'[Child])
    BY <1>2, <1>4, <1>5, Peers
  <2>2. Inbound(Child, moved[Peer(Child)], Len(wire[Child]))'
    BY <1>7, <2>1, InboundNow
  <2> QED
    BY <2>2, Peers
<1>9. ~dirty'[Child] /\ ~dirty'[Parent]
  <2>1. ~dirty[Child]
    BY DEF Streams
  <2> QED
    BY <1>1, <1>3, <1>7, <2>1, Peers
<1>10. \A i \in 1 .. Len(wire'[Child]) : wire'[Child][i] >= at'[Child]
  <2>1. \A i \in 1 .. Len(wire[Child]) : wire[Child][i] >= at[Child]
    BY DEF Streams
  <2> QED
    BY <1>1, <1>4, <2>1
<1>11. ToParent'
  <2>1. PICK n \in Nat, h \in Nat : n = moved[Child] + 1 /\ h = Len(wire[Parent])
    BY <1>1, LenProperties
  <2>2. Sent(Peer(Parent), n)' = Sent(Peer(Parent), moved[Child])
    BY <1>2, <2>1, Peers DEF Sent
  <2>3. Inbound(Parent, n, h)'
    BY <1>2, <1>3, <2>1, <2>2, InboundKept
  <2>4. n = moved'[Child] /\ h = Len(wire'[Parent])
    BY <1>2, <2>1
  <2> QED
    BY <2>3, <2>4 DEF ToParent
<1>12. ToChild'
  <2>1. Upto(Outgoing(Parent), at[Child], 0)' = Upto(Outgoing(Parent), at[Child], 0)
    BY <1>1, SameOutgoing DEF Upto
  <2> QED
    BY <1>2, <1>3, <1>8, <2>1 DEF ToChild
<1> QED
  BY <1>9, <1>10, <1>11, <1>12 DEF Streams

(* A rank's next transfer: only one that took a marker may leave rows out. *)
LEMMA NextPosition ==
  ASSUME Types, NEW r \in Rank, NextTransfer(r)
  PROVE  at'[r] \in Nat /\ at'[r] >= at[r] + 1 /\ (~dirty[r] => at'[r] = at[r] + 1)
<1>1. at[r] \in Nat /\ FirstReport \in Nat /\ LastTransfer = FirstReport + 4
  BY Program DEF Types
<1>2. PICK to \in IF Negative(r) THEN {LastTransfer + 1}
                  ELSE IF dirty[r] /\ at[r] < FirstReport THEN {at[r] + 1, FirstReport}
                  ELSE {at[r] + 1} :
        at'[r] = to
  BY DEF NextTransfer, Types
<1>3. CASE Negative(r)
  <2>1. dirty[r] /\ (at[r] = FirstReport \/ at[r] = FirstReport + 3) /\ at'[r] = LastTransfer + 1
    BY <1>2, <1>3 DEF Negative
  <2>2. at'[r] = FirstReport + 5
    BY <1>1, <2>1
  <2>3. at'[r] \in Nat /\ at'[r] >= at[r] + 1
    BY <1>1, <2>1, <2>2
  <2> QED
    BY <2>1, <2>3
<1>4. CASE ~Negative(r) /\ dirty[r] /\ at[r] < FirstReport
  <2>1. at'[r] = at[r] + 1 \/ at'[r] = FirstReport
    BY <1>2, <1>4
  <2>2. at'[r] \in Nat /\ at'[r] >= at[r] + 1
    BY <1>1, <1>4, <2>1
  <2> QED
    BY <1>4, <2>2
<1>5. CASE ~Negative(r) /\ ~(dirty[r] /\ at[r] < FirstReport)
  <2>1. at'[r] = at[r] + 1
    BY <1>2, <1>5
  <2> QED
    BY <1>1, <2>1
<1> QED
  BY <1>3, <1>4, <1>5

LEMMA ParentGoesOn ==
  ASSUME Types, Streams, NextTransfer(Parent), UNCHANGED drafts
  PROVE  Streams'
<1>1. /\ UNCHANGED wire /\ UNCHANGED dirty /\ UNCHANGED pc /\ UNCHANGED exit
      /\ at'[Child] = at[Child] /\ moved'[Child] = moved[Child] /\ moved'[Parent] = 0
      /\ at[Parent] \in Nat /\ at[Child] \in Nat /\ wire[Child] \in Seq(Nat)
  BY Peers DEF NextTransfer, Types
<1>2. Healthy' <=> Healthy
  BY <1>1 DEF Healthy
<1>3. at'[Parent] \in Nat /\ at'[Parent] >= at[Parent] + 1 /\ (~dirty[Parent] => at'[Parent] = at[Parent] + 1)
  BY NextPosition, Peers
<1>4. CASE dirty[Parent]
  <2>1. at'[Child] <= at'[Parent]
    BY <1>1, <1>3, <1>4 DEF Streams
  <2> QED
    BY <1>1, <1>2, <1>4, <2>1 DEF Streams
<1>5. CASE ~dirty[Parent]
  <2>1. /\ Sent(Parent, moved[Parent])' = Sent(Parent, moved[Parent])
        /\ Taken(Parent)' = Taken(Parent)
        /\ \A m \in Nat : Sent(Child, m)' = Sent(Child, m)
        /\ Taken(Child)' = Taken(Child)
    BY <1>3, <1>5, NextMoves, Peers
  <2>2. ToParent'
    <3>1. PICK m \in Nat, g \in Nat :
            Inbound(Parent, m, g) /\ (Healthy => m = moved[Child] /\ g = Len(wire[Parent]))
      BY <1>5 DEF Streams, ToParent
    <3>2. Inbound(Parent, m, g)'
      BY <1>1, <2>1, <3>1, Peers, InboundKept
    <3>3. Healthy' => m = moved'[Child] /\ g = Len(wire'[Parent])
      BY <1>1, <1>2, <3>1
    <3> QED
      BY <3>2, <3>3 DEF ToParent
  <2>3. ToChild'
    <3>1. Upto(Outgoing(Parent), at[Child], 0)' = Upto(Outgoing(Parent), at[Child], 0)
      BY <1>1, SameOutgoing DEF Upto
    <3>2. ToChild
      BY <1>5 DEF Streams
    <3>3. Upto(Outgoing(Parent), at[Child], 0)' \subseteq Sent(Parent, moved[Parent])'
      BY <2>1, <3>1, <3>2 DEF ToChild
    <3>4. ASSUME Healthy' PROVE Inbound(Child, moved[Parent], Len(wire[Child]))'
      <4>1. Inbound(Child, moved[Parent], Len(wire[Child]))
        BY <1>2, <3>2, <3>4 DEF ToChild
      <4>2. PICK n \in Nat, h \in Nat : n = 0 /\ h = Len(wire[Child])
        BY <1>1, LenProperties
      <4>3. n = moved'[Parent] /\ h = Len(wire'[Child])
        BY <1>1, <4>2
      <4>4. Sent(Peer(Child), n)' = Sent(Peer(Child), moved[Parent])
        BY <2>1, <4>3, Peers DEF Sent
      <4>5. Inbound(Child, n, h)'
        BY <1>1, <2>1, <4>1, <4>2, <4>4, InboundKept
      <4>6. Inbound(Child, moved[Peer(Child)], Len(wire[Child]))'
        BY <4>3, <4>5, InboundNow, Peers
      <4> QED
        BY <4>6, Peers
    <3> QED
      BY <3>3, <3>4 DEF ToChild
  <2> QED
    BY <1>1, <1>2, <1>5, <2>2, <2>3 DEF Streams
<1> QED
  BY <1>4, <1>5

LEMMA ChildGoesOn ==
  ASSUME Types, Streams, Healthy, NextTransfer(Child), UNCHANGED drafts
  PROVE  Streams'
<1>1. /\ UNCHANGED wire /\ UNCHANGED dirty /\ UNCHANGED pc /\ UNCHANGED exit
      /\ at'[Parent] = at[Parent] /\ moved'[Parent] = moved[Parent] /\ moved'[Child] = 0
      /\ at[Parent] \in Nat /\ at[Child] \in Nat /\ moved[Child] \in Nat /\ moved[Parent] \in Nat
      /\ wire[Child] \in Seq(Nat) /\ wire[Parent] \in Seq(Nat)
  BY Peers DEF NextTransfer, Types
<1>2. /\ ~dirty[Parent]
      /\ Inbound(Parent, moved[Child], Len(wire[Parent]))
      /\ Inbound(Child, moved[Parent], Len(wire[Child]))
  BY WhileHealthy
<1>3. ~dirty[Child]
  BY DEF Streams
<1>4. at'[Child] = at[Child] + 1
  BY <1>3, NextPosition, Peers
<1>5. /\ Sent(Child, moved[Child])' = Sent(Child, moved[Child])
      /\ Taken(Child)' = Taken(Child)
      /\ \A m \in Nat : Sent(Parent, m)' = Sent(Parent, m)
      /\ Taken(Parent)' = Taken(Parent)
  BY <1>4, NextMoves, Peers
<1>6. \A i \in 1 .. Len(wire'[Child]) : wire'[Child][i] >= at'[Child]
  <2>1. \A i \in 1 .. Len(wire[Child]) : wire[Child][i] >= at[Child] + 1
    <3>1. PICK m \in Nat, g \in Nat : m = moved[Parent] /\ g = Len(wire[Child])
      BY <1>1, LenProperties
    <3>2. Inbound(Child, m, g)
      BY <1>2, <3>1
    <3>3. \A i \in 1 .. Len(wire[Child]) :
            ~(i \in 1 .. g) \/ (NextTransfer(Child) => wire[Child][i] >= at[Child] + 1)
      BY <3>1, <3>2, InboundAhead, Peers
    <3> QED
      BY <3>1, <3>3
  <2> QED
    BY <1>1, <1>4, <2>1
<1>7. ToParent'
  <2>1. PICK n \in Nat, h \in Nat : n = 0 /\ h = Len(wire[Parent])
    <3>1. 0 \in Nat /\ Len(wire[Parent]) \in Nat
      BY <1>1, LenProperties
    <3> QED
      BY <3>1
  <2>2. Sent(Peer(Parent), n)' = Sent(Peer(Parent), moved[Child])
    BY <1>1, <1>5, <2>1, Peers DEF Sent
  <2>3. Inbound(Parent, n, h)'
    BY <1>1, <1>2, <1>5, <2>1, <2>2, InboundKept
  <2>4. n = moved'[Child] /\ h = Len(wire'[Parent])
    BY <1>1, <2>1
  <2> QED
    BY <2>3, <2>4 DEF ToParent
<1>8. ToChild'
  <2>1. PICK n \in Nat, h \in Nat : n = moved[Parent] /\ h = Len(wire[Child])
    BY <1>1, LenProperties
  <2>2. Sent(Peer(Child), n)' = Sent(Peer(Child), moved[Parent])
    BY <1>1, <1>5, <2>1, Peers DEF Sent
  <2>3. Inbound(Child, n, h)'
    BY <1>1, <1>2, <1>5, <2>1, <2>2, InboundKept
  <2>4. n = moved'[Parent] /\ h = Len(wire'[Child])
    BY <1>1, <2>1
  <2>5. Inbound(Child, moved[Peer(Child)], Len(wire[Child]))'
    BY <2>3, <2>4, InboundNow, Peers
  <2>6. Upto(Outgoing(Parent), at[Child], 0)' = Taken(Child)'
    BY <1>1, Peers DEF Taken, Upto
  <2>7. Taken(Child)' \subseteq Sent(Parent, moved[Parent])'
    <3>1. Sent(Parent, moved[Parent])' = Sent(Parent, moved[Parent])
      BY <1>1, <1>5 DEF Sent
    <3> QED
      BY <1>2, <1>5, <3>1, Peers DEF Inbound
  <2> QED
    BY <2>5, <2>6, <2>7, Peers DEF ToChild
<1> QED
  BY <1>1, <1>2, <1>3, <1>6, <1>7, <1>8 DEF Streams

LEMMA ChildFails ==
  ASSUME Types, Control, Streams, ChildThrows, UNCHANGED drafts
  PROVE  Streams'
<1>1. /\ UNCHANGED wire /\ UNCHANGED dirty /\ UNCHANGED at /\ UNCHANGED exit
      /\ moved'[Parent] = moved[Parent]
      /\ moved[Child] \in Nat /\ wire[Parent] \in Seq(Nat)
      /\ pc[Child] = "run" /\ pc'[Child] = "abort"
  BY Peers DEF ChildThrows, Throws, DeadlinePasses, PeerGone, ComputeFails, Sending, Receiving, Moving, Goto, Types
<1>2. exit = "none" /\ Healthy /\ ~Healthy'
  BY <1>1 DEF Control, Healthy
<1>3. /\ ~dirty[Parent]
      /\ Inbound(Parent, moved[Child], Len(wire[Parent]))
      /\ Upto(Outgoing(Parent), at[Child], 0) \subseteq Sent(Parent, moved[Parent])
  BY <1>2, WhileHealthy
<1>4. ToParent'
  <2>1. PICK m \in Nat, g \in Nat : m = moved[Child] /\ g = Len(wire[Parent])
    BY <1>1, LenProperties
  <2>2. Inbound(Parent, m, g)'
    <3>1. Inbound(Parent, m, g)
      BY <1>3, <2>1
    <3> QED
      BY <1>1, <3>1, SameInbound, Peers
  <2> QED
    BY <1>2, <2>2 DEF ToParent
<1>5. ToChild'
  <2>1. Upto(Outgoing(Parent), at[Child], 0)' = Upto(Outgoing(Parent), at[Child], 0)
    BY <1>1, SameOutgoing DEF Upto
  <2>2. Sent(Parent, moved[Parent])' = Sent(Parent, moved[Parent])
    BY <1>1, SameOutgoing DEF Sent, Upto
  <2> QED
    BY <1>2, <1>3, <2>1, <2>2 DEF ToChild
<1> QED
  BY <1>1, <1>3, <1>4, <1>5 DEF Streams

LEMMA MarkerLeaves ==
  ASSUME Types, Control, Streams, SendMarker, UNCHANGED drafts
  PROVE  Streams'
<1>1. /\ UNCHANGED dirty /\ UNCHANGED at /\ UNCHANGED exit /\ UNCHANGED pc
      /\ moved'[Parent] = moved[Parent] /\ wire'[Child] = wire[Child]
      /\ wire'[Parent] = Append(wire[Parent], Marker) /\ wire[Parent] \in Seq(Nat)
      /\ pc[Child] = "abort"
  BY Peers DEF SendMarker, Types
<1>2. ~Healthy /\ ~Healthy'
  BY <1>1 DEF Control, Healthy
<1>3. /\ Len(wire'[Parent]) = Len(wire[Parent]) + 1 /\ Len(wire[Parent]) \in Nat
      /\ wire'[Parent][Len(wire[Parent]) + 1] = Marker
      /\ \A i \in 1 .. Len(wire[Parent]) : wire'[Parent][i] = wire[Parent][i]
  BY <1>1, AppendProperties, LenProperties DEF Marker
<1>4. \A i \in 1 .. Len(wire'[Parent]) : i \in 1 .. Len(wire[Parent]) \/ i = Len(wire[Parent]) + 1
  BY <1>3
<1>5. CASE dirty[Parent]
  <2>1. \A i \in 1 .. Len(wire[Parent]) : wire[Parent][i] = Marker
    BY <1>5 DEF Streams
  <2>2. \A i \in 1 .. Len(wire'[Parent]) : wire'[Parent][i] = Marker
    BY <1>3, <1>4, <2>1
  <2> QED
    BY <1>1, <1>2, <1>5, <2>2 DEF Streams
<1>6. CASE ~dirty[Parent]
  <2>1. ToParent'
    <3>1. PICK m \in Nat, g \in Nat : Inbound(Parent, m, g)
      BY <1>6 DEF Streams, ToParent
    <3>2. Sent(Child, m)' = Sent(Child, m) /\ Taken(Parent)' = Taken(Parent)
      BY <1>1, SameOutgoing DEF Sent, Taken, Upto
    <3>3. Taken(Parent) \subseteq Sent(Child, m) /\ Carries(wire[Parent], Sent(Child, m) \ Taken(Parent), g)
      BY <3>1, Peers DEF Inbound
    <3>4. Carries(wire'[Parent], Sent(Child, m) \ Taken(Parent), g)
      BY <1>1, <3>3, CarriesMarker
    <3>5. Taken(Parent)' \subseteq Sent(Child, m)' /\ Carries(wire'[Parent], Sent(Child, m)' \ Taken(Parent)', g)
      BY <3>2, <3>3, <3>4
    <3>6. Inbound(Parent, m, g)'
      BY <3>5, Peers DEF Inbound, Carries
    <3> QED
      BY <1>2, <3>6 DEF ToParent
  <2>2. ToChild'
    <3>1. Upto(Outgoing(Parent), at[Child], 0)' = Upto(Outgoing(Parent), at[Child], 0)
      BY <1>1, SameOutgoing DEF Upto
    <3>2. Sent(Parent, moved[Parent])' = Sent(Parent, moved[Parent])
      BY <1>1, SameOutgoing DEF Sent, Upto
    <3> QED
      BY <1>2, <1>6, <3>1, <3>2 DEF ToChild, Streams
  <2> QED
    BY <1>1, <1>6, <2>1, <2>2 DEF Streams
<1> QED
  BY <1>5, <1>6

-----------------------------------------------------------------------------
(* The actions of a step, rank by rank. *)
LEMMA Actions ==
  ASSUME [Next]_vars
  PROVE  /\ UNCHANGED drafts
         /\ \/ UNCHANGED vars
            \/ Fork \/ ForkFails \/ ParentThrows \/ ParentClosesLink \/ Reap
            \/ ChildThrows \/ SendMarker \/ ChildFinishes \/ ChildAborts \/ ChildKilled
            \/ \E r \in Rank : DropPeerEnd(r) \/ SendCell(r) \/ RecvCell(r) \/ NextTransfer(r)
<1>1. CASE ParentNext
  BY <1>1, Peers DEF ParentNext
<1>2. CASE ChildNext
  BY <1>2, Peers DEF ChildNext
<1>3. CASE ChildKilled /\ UNCHANGED drafts
  BY <1>3
<1>4. CASE Stopped
  BY <1>4 DEF Stopped, vars
<1>5. CASE UNCHANGED vars
  BY <1>5 DEF vars
<1> QED
  BY <1>1, <1>2, <1>3, <1>4, <1>5 DEF Next

LEMMA StreamsStep ==
  ASSUME Types, Control, Streams, [Next]_vars
  PROVE  Streams'
<1>1. UNCHANGED drafts
  BY Actions
<1>2. \A r \in Rank : pc[r] = "run" => r = Parent \/ Healthy
  BY Peers DEF Healthy
<1>3. CASE UNCHANGED vars
  BY <1>3, StreamsStay DEF vars, link, Healthy
<1>4. CASE Fork \/ ForkFails \/ ParentThrows \/ ParentClosesLink \/ Reap
  <2>1. UNCHANGED link /\ (Healthy' => Healthy)
    <3>1. CASE Fork
      BY <3>1 DEF Fork, Control, Healthy
    <3>2. CASE ForkFails \/ ParentThrows \/ ParentClosesLink \/ Reap
      BY <3>2, Peers DEF ForkFails, ParentThrows, ParentClosesLink, Reap, Goto, Types, Healthy
    <3> QED
      BY <1>4, <3>1, <3>2
  <2> QED
    BY <1>1, <2>1, StreamsStay
<1>5. CASE ChildFinishes \/ ChildAborts \/ ChildKilled
  <2>1. UNCHANGED link /\ (Healthy' => Healthy)
    <3>1. CASE ChildFinishes
      BY <3>1 DEF ChildFinishes, ChildLeaves, Healthy
    <3>2. CASE ChildAborts
      BY <3>2, Peers DEF ChildAborts, ChildLeaves, Goto, Types, Healthy
    <3>3. CASE ChildKilled
      BY <3>3, Peers DEF ChildKilled, ChildLeaves, Goto, Types, Healthy
    <3> QED
      BY <1>5, <3>1, <3>2, <3>3
  <2> QED
    BY <1>1, <2>1, StreamsStay
<1>6. CASE ChildThrows \/ SendMarker
  BY <1>1, <1>6, ChildFails, MarkerLeaves
<1>7. CASE \E r \in Rank : DropPeerEnd(r)
  <2>1. PICK r \in Rank : DropPeerEnd(r)
    BY <1>7
  <2>2. UNCHANGED link /\ (Healthy' => Healthy)
    BY <2>1, Peers DEF DropPeerEnd, Goto, Types, Healthy
  <2> QED
    BY <1>1, <2>2, StreamsStay
<1>8. CASE \E r \in Rank : SendCell(r) \/ RecvCell(r) \/ NextTransfer(r)
  <2>1. PICK r \in Rank : SendCell(r) \/ RecvCell(r) \/ NextTransfer(r)
    BY <1>8
  <2>2. pc[r] = "run"
    BY <2>1 DEF SendCell, RecvCell, NextTransfer, Sending, Receiving, Moving
  <2>3. CASE r = Parent
    BY <1>1, <2>1, <2>3, ParentSends, ParentReceives, ParentGoesOn
  <2>4. CASE r = Child
    BY <1>1, <1>2, <2>1, <2>2, <2>4, Peers, ChildSends, ChildReceives, ChildGoesOn
  <2> QED
    BY <2>3, <2>4, Peers
<1> QED
  BY <1>3, <1>4, <1>5, <1>6, <1>7, <1>8, Actions

LEMMA TypesStep ==
  ASSUME Types, [Next]_vars
  PROVE  Types'
<1> USE DEF Types
<1>1. CASE UNCHANGED vars
  BY <1>1 DEF vars
<1>2. CASE Fork
  <2>1. {Parent, Child} \in SUBSET Rank
    BY Peers
  <2>2. pc' \in [Rank -> {"reset"}] /\ holders' \in [Rank -> SUBSET Rank]
    BY <1>2, <2>1 DEF Fork
  <2> QED
    BY <1>2, <2>2, Actions DEF Fork, link
<1>3. CASE ForkFails \/ ParentThrows \/ ParentClosesLink \/ Reap
  <2>1. UNCHANGED <<drafts, link, exit>>
    BY <1>3, Actions DEF ForkFails, ParentThrows, ParentClosesLink, Reap
  <2>2. pc' \in [Rank -> {"fork", "absent", "reset", "run", "reap", "done", "abort", "exited"}]
    BY <1>3, Peers DEF ForkFails, ParentThrows, ParentClosesLink, Reap, Goto
  <2>3. holders' \in [Rank -> SUBSET Rank]
    <3>1. [r \in Rank |-> {}] \in [Rank -> SUBSET Rank]
      OBVIOUS
    <3> QED
      BY <1>3, <3>1 DEF ForkFails, ParentThrows, ParentClosesLink, Reap, Close
  <2>4. throwing' \in BOOLEAN /\ outcome' \in {"running", "ok", "mismatch", "threw", "refused"}
    BY <1>3 DEF ForkFails, ParentThrows, ParentClosesLink, Reap
  <2> QED
    BY <2>1, <2>2, <2>3, <2>4 DEF link
<1>4. CASE ChildThrows
  BY <1>4, Actions, Peers DEF ChildThrows, Goto
<1>5. CASE SendMarker
  <2>1. Append(wire[Parent], Marker) \in Seq(Nat) /\ moved[Child] + 1 \in Nat
    BY Peers, AppendProperties DEF Marker
  <2> QED
    BY <1>5, <2>1, Actions, Peers DEF SendMarker
<1>6. CASE ChildFinishes \/ ChildAborts \/ ChildKilled
  <2>1. PICK status \in {"ok", "failed", "killed"} : ChildLeaves(status)
    BY <1>6 DEF ChildFinishes, ChildAborts, ChildKilled
  <2> QED
    BY <2>1, Actions, Peers DEF ChildLeaves, link, Goto
<1>7. ASSUME NEW r \in Rank, DropPeerEnd(r) PROVE Types'
  BY <1>7, Actions, Program DEF DropPeerEnd, link, Goto, Close
<1>8. ASSUME NEW r \in Rank, SendCell(r) PROVE Types'
  <2>1. Append(wire[Peer(r)], at[r]) \in Seq(Nat) /\ moved[r] + 1 \in Nat
    <3>1. wire[Peer(r)] \in Seq(Nat) /\ at[r] \in Nat /\ moved[r] \in Nat
      BY Program
    <3> QED
      BY <3>1, AppendProperties
  <2>2. UNCHANGED <<drafts, pc, at, holders, dirty, payloadOk, throwing, exit, outcome>>
    BY <1>8, Actions DEF SendCell
  <2>3. wire' \in [Rank -> Seq(Nat)] /\ moved' \in [Rank -> Nat]
    BY <1>8, <2>1 DEF SendCell
  <2> QED
    BY <2>2, <2>3
<1>9. ASSUME NEW r \in Rank, RecvCell(r) PROVE Types'
  <2>1. Tail(wire[r]) \in Seq(Nat) /\ moved[r] + 1 \in Nat
    BY <1>9, TailOf DEF RecvCell
  <2>2. UNCHANGED <<drafts, pc, at, holders, payloadOk, throwing, exit, outcome>>
    BY <1>9, Actions DEF RecvCell
  <2>3. wire' \in [Rank -> Seq(Nat)] /\ moved' \in [Rank -> Nat]
    BY <1>9, <2>1 DEF RecvCell
  <2>4. dirty' \in [Rank -> BOOLEAN]
    BY <1>9, Zenon DEF RecvCell
  <2> QED
    BY <2>2, <2>3, <2>4
<1>10. ASSUME NEW r \in Rank, NextTransfer(r) PROVE Types'
  <2>1. at'[r] \in Nat \ {0}
    BY <1>10, NextPosition
  <2>2. at' \in [Rank -> Nat \ {0}] /\ moved' \in [Rank -> Nat] /\ payloadOk' \in BOOLEAN
    BY <1>10, <2>1 DEF NextTransfer
  <2> QED
    BY <1>10, <2>2, Actions DEF NextTransfer
<1> QED
  BY <1>1, <1>2, <1>3, <1>4, <1>5, <1>6, <1>7, <1>8, <1>9, <1>10, Actions

LEMMA ControlStep ==
  ASSUME Types, Control, [Next]_vars
  PROVE  Control'
<1> USE DEF Types, Control
<1>1. CASE UNCHANGED vars
  BY <1>1 DEF vars
<1>2. CASE Fork
  BY <1>2, Peers DEF Fork
<1>3. CASE ForkFails
  BY <1>3, Peers DEF ForkFails, Goto
<1>4. CASE ParentThrows
  BY <1>4, Peers DEF ParentThrows, Throws, DeadlinePasses, PeerGone, ComputeFails, Sending, Receiving, Moving, Goto, Close
<1>5. CASE ParentClosesLink
  BY <1>5, Peers DEF ParentClosesLink, Goto, Close
<1>6. CASE Reap
  BY <1>6, Peers DEF Reap, Goto
<1>7. CASE ChildThrows
  BY <1>7, Peers DEF ChildThrows, Throws, DeadlinePasses, PeerGone, ComputeFails, Sending, Receiving, Moving, Goto
<1>8. CASE SendMarker
  BY <1>8 DEF SendMarker
<1>9. CASE ChildFinishes \/ ChildAborts \/ ChildKilled
  <2>1. PICK status \in {"ok", "failed", "killed"} : ChildLeaves(status) /\ pc[Child] \in {"reset", "run", "abort"}
    BY <1>9 DEF ChildFinishes, ChildAborts, ChildKilled
  <2> QED
    BY <2>1, Peers DEF ChildLeaves, Goto
<1>10. ASSUME NEW r \in Rank, DropPeerEnd(r) PROVE Control'
  <2>1. CASE r = Parent
    BY <1>10, <2>1, Peers DEF DropPeerEnd, Goto, Close
  <2>2. CASE r = Child
    BY <1>10, <2>2, Peers DEF DropPeerEnd, Goto, Close
  <2> QED
    BY <2>1, <2>2, Peers
<1>11. ASSUME NEW r \in Rank, SendCell(r) \/ RecvCell(r) \/ NextTransfer(r) PROVE Control'
  BY <1>11 DEF SendCell, RecvCell, NextTransfer
<1> QED
  BY <1>1, <1>2, <1>3, <1>4, <1>5, <1>6, <1>7, <1>8, <1>9, <1>10, <1>11, Actions

(* Two finished ranks have left nothing on the wires. *)
LEMMA WiresRunDry ==
  ASSUME Types, Streams, Healthy, at[Parent] > LastTransfer, at[Child] > LastTransfer
  PROVE  wire = [r \in Rank |-> << >>]
<1>1. ASSUME NEW r \in Rank, Inbound(r, moved[Peer(r)], Len(wire[r])) PROVE wire[r] = << >>
  <2> DEFINE F == Sent(Peer(r), moved[Peer(r)]) \ Taken(r)
  <2>1. Peer(r) \in Rank /\ at[r] \in Nat /\ LastTransfer \in Nat /\ at[r] > LastTransfer
    BY Program, Peers DEF Types
  <2>2. \A c \in Outgoing(Peer(r)) : Before(c, <<at[r], moved[r]>>)
    <3>1. \A c \in Outgoing(Peer(r)) : c[1] \in 1 .. LastTransfer
      BY <2>1, OutgoingCells
    <3>2. \A c \in Outgoing(Peer(r)) : c[1] < at[r]
      BY <2>1, <3>1
    <3> QED
      BY <3>2 DEF Before
  <2>3. F = {}
    BY <2>2 DEF Sent, Taken, Upto
  <2>4. Carries(wire[r], F, Len(wire[r])) /\ wire[r] \in Seq(Nat)
    BY <1>1 DEF Inbound, Types
  <2> HIDE DEF F
  <2>5. Len(wire[r]) = 0
    BY <2>3, <2>4, CarriesNothing
  <2> QED
    BY <2>4, <2>5, EmptySeq
<1>2. wire[Parent] = << >> /\ wire[Child] = << >>
  BY <1>1, WhileHealthy, Peers
<1>3. \A r \in Rank : wire[r] = << >>
  BY <1>2, Peers
<1> QED
  BY <1>3 DEF Types

LEMMA VerdictsStep ==
  ASSUME Types, Control, Streams, Verdicts, [Next]_vars
  PROVE  Verdicts'
<1>1. UNCHANGED drafts /\ LastTransfer' = LastTransfer /\ LastTransfer \in Nat
  BY Actions, Program DEF LastTransfer, Report
<1>2. /\ at[Parent] \in Nat /\ at[Child] \in Nat
      /\ dirty[Parent] \in BOOLEAN /\ payloadOk \in BOOLEAN
      /\ ~dirty[Child]
  BY Peers DEF Types, Streams
<1>3. dirty[Parent] => exit # "ok"
  BY DEF Streams, Healthy
<1>4. CASE UNCHANGED vars
  BY <1>1, <1>4 DEF vars, Verdicts, VerdictIsTruthful
<1>5. CASE Reap
  <2>1. /\ UNCHANGED <<at, dirty, payloadOk, wire, exit, throwing>>
        /\ pc'[Parent] = "done" /\ pc[Parent] = "reap" /\ exit # "none"
        /\ outcome' = IF throwing THEN "threw" ELSE IF Agreed THEN "ok" ELSE "mismatch"
    BY <1>5, Peers DEF Reap, Goto, link, Types
  <2>2. CASE outcome' = "ok"
    <3>1. ~throwing /\ exit = "ok" /\ payloadOk /\ ~dirty[Parent]
      BY <2>1, <2>2 DEF Agreed
    <3>2. at[Parent] > LastTransfer /\ at[Child] > LastTransfer
      BY <2>1, <3>1 DEF Verdicts
    <3>3. wire = [r \in Rank |-> << >>]
      BY <3>1, <3>2, WiresRunDry DEF Healthy
    <3> QED
      BY <1>1, <1>2, <2>1, <2>2, <3>1, <3>2, <3>3 DEF Verdicts, VerdictIsTruthful
  <2>3. CASE outcome' = "mismatch"
    <3>1. exit # "ok"
      BY <1>3, <2>1, <2>3 DEF Agreed, Verdicts
    <3>2. exit \in {"failed", "killed"}
      BY <2>1, <3>1 DEF Types
    <3> QED
      BY <1>1, <2>1, <2>3, <3>1, <3>2 DEF Verdicts, VerdictIsTruthful
  <2>4. CASE outcome' = "threw"
    BY <1>1, <2>1, <2>4 DEF Verdicts, VerdictIsTruthful
  <2> QED
    BY <2>1, <2>2, <2>3, <2>4
<1>6. ASSUME outcome' = "running" \/ outcome' = "refused",
             exit' = "ok" => at'[Child] > LastTransfer,
             pc'[Parent] = "reap" /\ ~throwing' => at'[Parent] > LastTransfer,
             ~payloadOk' => dirty'[Parent]
      PROVE  Verdicts'
  BY <1>1, <1>6 DEF Verdicts, VerdictIsTruthful
<1>7. pc[Parent] # "done" => outcome = "running"
  BY DEF Control
<1>8. pc[Child] \in {"reset", "run", "abort"} => outcome = "running" /\ exit = "none"
  BY DEF Control
<1>9. CASE Fork \/ ForkFails
  BY <1>1, <1>6, <1>7, <1>9, Peers DEF Fork, ForkFails, Goto, link, Verdicts, Types
<1>10. CASE ParentThrows \/ ParentClosesLink
  <2>1. pc[Parent] = "run"
    BY <1>10 DEF ParentThrows, ParentClosesLink, Throws, DeadlinePasses, PeerGone, ComputeFails, Sending, Receiving, Moving
  <2>2. pc'[Parent] = "reap" /\ ~throwing' => at[Parent] > LastTransfer
    BY <1>10 DEF ParentThrows, ParentClosesLink
  <2> QED
    BY <1>6, <1>7, <1>10, <2>1, <2>2 DEF ParentThrows, ParentClosesLink, link, Verdicts
<1>11. CASE ChildThrows \/ SendMarker
  <2>1. pc[Child] \in {"run", "abort"} /\ pc'[Parent] = pc[Parent]
    BY <1>11, Peers DEF ChildThrows, SendMarker, Throws, DeadlinePasses, PeerGone, ComputeFails, Sending, Receiving, Moving, Goto, Types
  <2> QED
    BY <1>6, <1>8, <1>11, <2>1 DEF ChildThrows, SendMarker, Verdicts
<1>12. CASE ChildFinishes \/ ChildAborts \/ ChildKilled
  <2>1. PICK status \in {"ok", "failed", "killed"} :
          /\ ChildLeaves(status) /\ pc[Child] \in {"reset", "run", "abort"}
          /\ status = "ok" => at[Child] > LastTransfer
    BY <1>12 DEF ChildFinishes, ChildAborts, ChildKilled
  <2>2. pc'[Parent] = pc[Parent]
    BY <2>1, Peers DEF ChildLeaves, Goto, Types
  <2> QED
    BY <1>6, <1>8, <2>1, <2>2 DEF ChildLeaves, link, Verdicts
<1>13. ASSUME NEW r \in Rank, DropPeerEnd(r) PROVE Verdicts'
  <2>1. outcome = "running" /\ pc'[Parent] \in {pc[Parent], "run"}
    BY <1>13, <1>7, <1>8, Peers DEF DropPeerEnd, Goto, Types
  <2> QED
    BY <1>6, <1>13, <2>1 DEF DropPeerEnd, link, Verdicts
<1>14. ASSUME NEW r \in Rank, SendCell(r) \/ RecvCell(r) \/ NextTransfer(r) PROVE Verdicts'
  <2>1. pc[r] = "run" /\ UNCHANGED <<pc, exit, throwing, outcome>>
    BY <1>14 DEF SendCell, RecvCell, NextTransfer, Sending, Receiving, Moving
  <2>2. outcome = "running" /\ (r = Parent => pc[Parent] # "reap") /\ (r = Child => exit = "none")
    <3>1. CASE r = Parent
      BY <1>7, <2>1, <3>1, Peers
    <3>2. CASE r = Child
      BY <1>8, <2>1, <3>2, Peers
    <3> QED
      BY <3>1, <3>2, Peers
  <2>3. CASE SendCell(r) \/ RecvCell(r)
    <3>1. at' = at /\ payloadOk' = payloadOk /\ (dirty[Parent] => dirty'[Parent])
      BY <2>3, Peers, Zenon DEF SendCell, RecvCell, Types
    <3> QED
      BY <1>6, <2>1, <2>2, <3>1 DEF Verdicts
  <2>4. CASE NextTransfer(r)
    <3>1. dirty' = dirty /\ payloadOk' = (payloadOk /\ ~Negative(r))
      BY <2>4 DEF NextTransfer
    <3>2. Negative(r) => dirty[Parent]
      BY <1>2, Peers DEF Negative
    <3>3. ~payloadOk' => dirty'[Parent]
      BY <3>1, <3>2 DEF Verdicts
    <3>4. CASE r = Parent
      <4>1. at'[Child] = at[Child] /\ pc[Parent] # "reap"
        BY <2>1, <2>4, <3>4, Peers DEF NextTransfer, Types
      <4> QED
        BY <1>6, <1>7, <2>1, <3>3, <3>4, <4>1 DEF Verdicts
    <3>5. CASE r = Child
      <4>1. at'[Parent] = at[Parent] /\ exit = "none" /\ outcome = "running"
        BY <1>8, <2>1, <2>4, <3>5, Peers DEF NextTransfer, Types
      <4> QED
        BY <1>6, <2>1, <3>3, <4>1 DEF Verdicts
    <3> QED
      BY <3>4, <3>5, Peers
  <2> QED
    BY <1>14, <2>3, <2>4
<1> QED
  BY <1>4, <1>5, <1>9, <1>10, <1>11, <1>12, <1>13, <1>14, Actions

-----------------------------------------------------------------------------
LEMMA InitHolds ==
  ASSUME Init
  PROVE  LinkInvariant
<1>1. Types /\ Control
  <2>1. Control
    BY Peers DEF Init, Control
  <2>2. holders \in [Rank -> SUBSET Rank]
    BY Peers DEF Init
  <2>3. wire \in [Rank -> Seq(Nat)]
    BY EmptySeq DEF Init
  <2>4. /\ pc \in [Rank -> {"fork", "absent", "reset", "run", "reap", "done", "abort", "exited"}]
        /\ at \in [Rank -> Nat \ {0}] /\ moved \in [Rank -> Nat] /\ dirty \in [Rank -> BOOLEAN]
    BY DEF Init
  <2>5. /\ drafts \in DraftCounts /\ payloadOk \in BOOLEAN /\ throwing \in BOOLEAN
        /\ exit = "none" /\ outcome = "running"
    BY DEF Init
  <2> QED
    BY <2>1, <2>2, <2>3, <2>4, <2>5 DEF Types
<1>2. /\ drafts \in DraftCounts /\ Healthy
      /\ at[Parent] = 1 /\ at[Child] = 1 /\ moved[Parent] = 0 /\ moved[Child] = 0
      /\ wire[Parent] = << >> /\ wire[Child] = << >>
      /\ ~dirty[Parent] /\ ~dirty[Child]
      /\ pc[Parent] = "fork" /\ payloadOk /\ exit = "none" /\ outcome = "running"
  BY Peers DEF Init, Healthy
<1>3. Verdicts
  BY <1>2 DEF Verdicts, VerdictIsTruthful
<1>4. ASSUME NEW r \in Rank PROVE Upto(Outgoing(r), 1, 0) = {}
  <2>1. \A c \in Outgoing(r) : c \in Positions /\ c[1] \in 1 .. LastTransfer
    BY <1>1, OutgoingCells
  <2>2. LastTransfer \in Nat
    BY <1>1, Program
  <2>3. \A c \in Outgoing(r) : ~Before(c, <<1, 0>>)
    <3> SUFFICES ASSUME NEW c \in Outgoing(r) PROVE ~Before(c, <<1, 0>>)
      OBVIOUS
    <3>1. c[1] \in Nat /\ c[2] \in Nat /\ c[1] >= 1
      BY <2>1, <2>2 DEF Positions
    <3> QED
      BY <3>1 DEF Before
  <2> QED
    BY <2>3 DEF Upto
<1>5. ASSUME NEW r \in Rank PROVE Inbound(r, 0, 0)
  <2>1. Peer(r) \in Rank /\ at[r] = 1 /\ moved[r] = 0 /\ at[Peer(r)] = 1 /\ wire[r] = << >>
    BY <1>2, Peers
  <2>2. Sent(Peer(r), 0) = {} /\ Taken(r) = {}
    BY <1>4, <2>1 DEF Sent, Taken
  <2>3. Carries(<< >>, Sent(Peer(r), 0) \ Taken(r), 0)
    BY <2>2, CarriesNone
  <2> QED
    BY <2>1, <2>2, <2>3 DEF Inbound
<1>6. Len(wire[Parent]) = 0 /\ Len(wire[Child]) = 0
  BY <1>2
<1>7. ToParent
  BY <1>2, <1>5, <1>6, Peers DEF ToParent
<1>8. ToChild
  BY <1>2, <1>4, <1>5, <1>6, Peers DEF ToChild
<1> QED
  BY <1>1, <1>2, <1>3, <1>6, <1>7, <1>8 DEF LinkInvariant, Streams

(* Between any two steps of the ranks the cells on the two wires are those *)
(* that were sent and not taken, in their order.                           *)
THEOREM LinkInductive == Spec => []LinkInvariant
<1>1. Init => LinkInvariant
  BY InitHolds
<1>2. LinkInvariant /\ [Next]_vars => LinkInvariant'
  BY TypesStep, ControlStep, StreamsStep, VerdictsStep DEF LinkInvariant
<1> QED
  BY <1>1, <1>2, PTL DEF Spec

-----------------------------------------------------------------------------
(* A sender something is on its way to is behind the other rank. *)
LEMMA SenderIsBehind ==
  ASSUME Types, NEW r \in Rank, NEW m \in Nat, NEW g, Inbound(r, m, g),
         Sending(r), g = Len(wire[r]), wire[r] # << >>
  PROVE  at[r] < at[Peer(r)]
<1> DEFINE F == Sent(Peer(r), m) \ Taken(r)
<1>1. /\ at[r] \in Nat /\ moved[r] \in Nat /\ at[Peer(r)] \in Nat /\ wire[r] \in Seq(Nat)
  BY Program DEF Types
<1>2. \A c \in F : /\ c \in Positions /\ c[1] # at[r]
                   /\ Before(c, <<at[Peer(r)], m>>) /\ ~Before(c, <<at[r], moved[r]>>)
  BY OutgoingCells, Program DEF Sent, Taken, Upto
<1>3. Carries(wire[r], F, g)
  BY DEF Inbound
<1> HIDE DEF F
<1>4. g # 0
  BY <1>1, EmptySeq
<1>5. PICK c \in F : TRUE
  BY <1>1, <1>3, <1>4, CarriesNothing
<1>6. /\ c[1] \in Nat /\ c[1] # at[r]
      /\ c[1] <= at[Peer(r)] /\ c[1] >= at[r]
  BY <1>1, <1>2, <1>5 DEF Before, Positions
<1> QED
  BY <1>1, <1>6

LEMMA MutualWaitNever ==
  ASSUME LinkInvariant
  PROVE  NoMutualWait
<1> SUFFICES ASSUME Blocked(Parent), Blocked(Child) PROVE FALSE
  BY DEF NoMutualWait
<1> USE DEF LinkInvariant
<1>1. /\ at[Parent] \in Nat /\ at[Child] \in Nat /\ moved[Parent] \in Nat /\ moved[Child] \in Nat
      /\ wire[Parent] \in Seq(Nat) /\ wire[Child] \in Seq(Nat)
  BY Peers DEF Types
<1>2. Healthy
  BY DEF Blocked, Sending, Receiving, Moving, Healthy
<1>3. PICK m \in Nat, g \in Nat : m = moved[Child] /\ g = Len(wire[Parent])
  BY <1>1, LenProperties
<1>4. PICK n \in Nat, h \in Nat : n = moved[Parent] /\ h = Len(wire[Child])
  BY <1>1, LenProperties
<1>5. Inbound(Parent, m, g) /\ Inbound(Child, n, h)
  BY <1>2, <1>3, <1>4, WhileHealthy
<1>6. \A r \in Rank : Full(r) => wire[r] # << >>
  <2>1. Len(<< >>) = 0 /\ Capacity \in Nat \ {0}
    BY RankLinkAssumption
  <2> QED
    BY <2>1 DEF Full
<1>7. CASE Sending(Parent) /\ Sending(Child)
  <2>1. wire[Parent] # << >> /\ wire[Child] # << >>
    BY <1>6, <1>7, Peers DEF Blocked, Receiving, Sending
  <2>2. at[Parent] < at[Child]
    BY <1>3, <1>5, <1>7, <2>1, SenderIsBehind, Peers
  <2>3. at[Child] < at[Parent]
    BY <1>4, <1>5, <1>7, <2>1, SenderIsBehind, Peers
  <2> QED
    BY <1>1, <2>2, <2>3
<1>8. CASE Receiving(Parent) /\ Receiving(Child)
  <2>1. wire[Parent] = << >> /\ wire[Child] = << >>
    BY <1>8 DEF Blocked, Receiving, Sending
  <2>2. at[Child] < at[Parent] \/ at[Child] = at[Parent]
    BY <1>5, <1>8, <2>1, InboundOver, Peers
  <2>3. at[Parent] < at[Child] \/ at[Child] = at[Parent]
    BY <1>5, <1>8, <2>1, InboundOver, Peers
  <2>4. at[Child] # at[Parent]
    <3>1. Sends(Peer(Parent), at[Parent]) <=> ~Sends(Parent, at[Parent])
      BY <1>1, Program, Peers
    <3> QED
      BY <1>8, <3>1, Peers DEF Receiving
  <2> QED
    BY <1>1, <2>2, <2>3, <2>4
<1>9. CASE Sending(Parent) /\ Receiving(Child)
  BY <1>6, <1>9, Peers DEF Blocked, Receiving, Sending
<1>10. CASE Receiving(Parent) /\ Sending(Child)
  BY <1>6, <1>10, Peers DEF Blocked, Receiving, Sending
<1> QED
  BY <1>7, <1>8, <1>9, <1>10 DEF Blocked

LEMMA GoneIsSeen ==
  ASSUME LinkInvariant
  PROVE  GonePeerIsNoticed
<1>1. Types /\ Control
  BY DEF LinkInvariant
<1>2. holders[Parent] \subseteq Rank /\ holders[Child] \subseteq Rank
  BY <1>1, Peers DEF Types
<1>3. ASSUME pc[Parent] \in {"reap", "done"}, Blocked(Child) PROVE FALSE
  <2>1. pc[Child] = "run" /\ ~Gone(Parent)
    BY <1>3, Peers DEF Blocked, Sending, Receiving, Moving
  <2>2. Parent \notin holders[Parent] /\ Child \notin holders[Parent]
    BY <1>1, <1>3, <2>1 DEF Control
  <2> QED
    BY <1>2, <2>1, <2>2, Peers DEF Gone
<1>4. ASSUME pc[Child] = "exited", Blocked(Parent) PROVE FALSE
  <2>1. pc[Parent] = "run" /\ ~Gone(Child)
    BY <1>4, Peers DEF Blocked, Sending, Receiving, Moving
  <2>2. Parent \notin holders[Child] /\ Child \notin holders[Child]
    BY <1>1, <1>4, <2>1 DEF Control
  <2> QED
    BY <1>2, <2>1, <2>2, Peers DEF Gone
<1> QED
  BY <1>3, <1>4 DEF GonePeerIsNoticed

LEMMA RowsInStep ==
  ASSUME LinkInvariant
  PROVE  RowsStayInStep
<1>1. Types /\ Control /\ Streams
  BY DEF LinkInvariant
<1>2. dirty[Parent] => pc[Child] = "abort" \/ exit \in {"failed", "killed"}
  <2>1. dirty[Parent] => pc[Child] \notin {"absent", "reset", "run"} /\ exit # "ok"
    BY <1>1 DEF Streams, Healthy
  <2>2. pc[Child] \in {"absent", "reset", "run", "abort", "exited"} /\ (pc[Child] = "exited" => exit # "none")
    BY <1>1 DEF Control
  <2>3. exit \in {"none", "ok", "failed", "killed"}
    BY <1>1 DEF Types
  <2> QED
    BY <2>1, <2>2, <2>3
<1>3. \A i \in 1 .. Len(wire[Child]) : wire[Child][i] >= at[Child]
  BY <1>1 DEF Streams
<1>4. \A i \in 1 .. Len(wire[Parent]) : wire[Parent][i] # Marker => wire[Parent][i] >= at[Parent]
  <2>1. CASE dirty[Parent]
    BY <1>1, <2>1 DEF Streams
  <2>2. CASE ~dirty[Parent]
    <3>1. PICK m \in Nat, g \in Nat : Inbound(Parent, m, g)
      BY <1>1, <2>2 DEF Streams, ToParent
    <3> QED
      BY <1>1, <3>1, InboundAhead, Peers
  <2> QED
    BY <2>1, <2>2
<1>5. \A r \in Rank : \A i \in 1 .. Len(wire[r]) : wire[r][i] # Marker => wire[r][i] >= at[r]
  BY <1>3, <1>4, Peers
<1> QED
  BY <1>1, <1>2, <1>5 DEF RowsStayInStep, Streams

LEMMA NothingLeft ==
  ASSUME LinkInvariant
  PROVE  NothingLeftBehind
<1> SUFFICES ASSUME outcome # "running"
             PROVE  holders = [r \in Rank |-> {}] /\ pc[Child] \in {"absent", "exited"}
  BY DEF NothingLeftBehind
<1>1. Types /\ Control
  BY DEF LinkInvariant
<1>2. pc[Parent] = "done" /\ pc[Child] \in {"absent", "exited"}
  BY <1>1 DEF Control
<1>3. /\ Parent \notin holders[Parent] /\ Child \notin holders[Parent]
      /\ Parent \notin holders[Child] /\ Child \notin holders[Child]
  BY <1>1, <1>2 DEF Control
<1>4. \A r \in Rank : holders[r] = {}
  <2>1. holders[Parent] \subseteq Rank /\ holders[Child] \subseteq Rank
    BY <1>1, Peers DEF Types
  <2>2. holders[Parent] = {} /\ holders[Child] = {}
    BY <1>3, <2>1, Peers
  <2> QED
    BY <2>2, Peers
<1>5. holders = [r \in Rank |-> {}]
  BY <1>1, <1>4 DEF Types
<1> QED
  BY <1>2, <1>5

(* However small the buffers are next to a shard, the two ranks never wait *)
(* for each other (text_forward.cpp:242-256).                              *)
THEOREM RanksNeverDeadlock == Spec => []NoMutualWait
<1>1. LinkInvariant => NoMutualWait
  BY MutualWaitNever
<1> QED
  BY <1>1, LinkInductive, PTL

(* A rank whose peer has left the link is told so at once                  *)
(* (text_forward.cpp:1912, 1944, 1975, 2024).                              *)
THEOREM PeerIsNeverMissedSilently == Spec => []GonePeerIsNoticed
<1>1. LinkInvariant => GonePeerIsNoticed
  BY GoneIsSeen
<1> QED
  BY <1>1, LinkInductive, PTL

(* A cell is only ever taken by the transfer it was sent for, the -1 of a  *)
(* failing child excepted (text_forward.cpp:1933-1940).                    *)
THEOREM RowsAreNeverMixedUp == Spec => []RowsStayInStep
<1>1. LinkInvariant => RowsStayInStep
  BY RowsInStep
<1> QED
  BY <1>1, LinkInductive, PTL

(* ok means two complete runs, and a mismatch a child that failed          *)
(* (text_forward.cpp:1953-1995).                                           *)
THEOREM LinkVerdictIsTruthful == Spec => []VerdictIsTruthful
<1>1. LinkInvariant => VerdictIsTruthful
  BY DEF LinkInvariant, Verdicts
<1> QED
  BY <1>1, LinkInductive, PTL

(* On every way out the child is reaped and the link is closed             *)
(* (text_forward.cpp:1975-1976, 2023-2027).                                *)
THEOREM LinkIsAlwaysReleased == Spec => []NothingLeftBehind
<1>1. LinkInvariant => NothingLeftBehind
  BY NothingLeft
<1> QED
  BY <1>1, LinkInductive, PTL
=============================================================================
