----------------------------- MODULE RankingProofs -----------------------------
(***************************************************************************)
(* Ranks, elo scores and graphs, for any number of players.  First the     *)
(* safety properties of Ranking, for any servers and games too: the elo    *)
(* scores need no type there, what the properties say holds whatever       *)
(* compute_new_elo() returns.  Then the elo scores of the players of a     *)
(* server, for any answers: the sums, of which a recursive function is the *)
(* definition, then the deltas and their averages.  Last the graph of a    *)
(* player, for any records: both curves fit the axes they share, and no    *)
(* label is on a curve.                                                    *)
(***************************************************************************)
EXTENDS Games, Graph, Ranking, ListLemmas

\* The tables of a database, its functions defined where they should be.
Shape(d) ==
    /\ d = [known |-> d.known, elo |-> d.elo, rank |-> d.rank, seen |-> d.seen,
            pending |-> d.pending, historic |-> d.historic,
            server |-> d.server, _ledger |-> d._ledger, _applied |-> d._applied,
            _late |-> d._late, _rated |-> d._rated]
    /\ d.known \subseteq Names
    /\ d.elo = [n \in Names |-> d.elo[n]]
    /\ d.rank \in [Names -> Nat]
    /\ d.seen = [n \in Names |-> d.seen[n]]
    /\ d._ledger = [n \in Names |-> d._ledger[n]]

\* RanksFollowElo, of any database, and no rank for who is not known.
RanksOf(d) ==
    /\ \A n \in Names \ d.known : d.rank[n] = Unranked
    /\ \A p, q \in Ranked(d) : /\ d.elo[p] > d.elo[q] => d.rank[p] < d.rank[q]
                               /\ p # q => d.rank[p] # d.rank[q]
    /\ {d.rank[n] : n \in Ranked(d)} = 1..Cardinality(Ranked(d))

\* HistoricIsCurrent, of any database and of unknown players too.
Historic(d) ==
    \A n \in Names :
        \/ d.elo[n] = IF n \in DOMAIN d.historic THEN d.historic[n].elo ELSE DefaultElo
        \/ n \in d._late \cap DOMAIN d.pending

\* PendingAppliedWhole, of any database.
Applied(d) == d.elo = d._applied

Ledger(d) == \A n \in Names : LatestElo(d, n) = d._ledger[n]

Good(d) == Shape(d) /\ RanksOf(d) /\ Historic(d) /\ Ledger(d) /\ Applied(d)

\* The games rated with at most one more, of server s.
Rates(counted, more, s, since, to) ==
    \/ more = counted
    \/ \E names : more = counted \cup {[server |-> s, since |-> since,
                                      to |-> to, names |-> names]}

\* What is committed is good, and whatever the next commit may make of it.
IInv == Good(db) /\ Good(tx)

-----------------------------------------------------------------------------

\* An empty database is good.
LEMMA InitGood == ASSUME RankingAssumption PROVE Good(EmptyDatabase)
<1> DEFINE E == EmptyDatabase
<1>1. Shape(E)
  BY RankingAssumption DEF Shape, EmptyDatabase, Unranked
<1>2. Ranked(E) = {}
  BY DEF Ranked, EmptyDatabase
<1>3. RanksOf(E)
  <2>1. \A n \in Names \ E.known : E.rank[n] = Unranked
    BY DEF EmptyDatabase
  <2>2. {E.rank[n] : n \in Ranked(E)} = 1..Cardinality(Ranked(E))
    <3>1. Cardinality(Ranked(E)) = 0
      BY <1>2, FS_EmptySet
    <3>2. 1..0 = {}
      OBVIOUS
    <3>3. {E.rank[n] : n \in Ranked(E)} = {}
      BY <1>2
    <3> QED
      BY <3>1, <3>2, <3>3
  <2> HIDE DEF E
  <2> QED
    BY <1>2, <2>1, <2>2 DEF RanksOf
<1>4. Historic(E)
  BY DEF Historic, EmptyDatabase, Empty
<1>5. Ledger(E)
  BY DEF Ledger, LatestElo, EmptyDatabase, Empty
<1>6. Applied(E)
  BY DEF Applied, EmptyDatabase
<1> QED
  BY <1>1, <1>3, <1>4, <1>5, <1>6 DEF Good

\* Ranks and records stay right while only players without rank are added.
LEMMA FrameGood ==
  ASSUME NEW d, NEW e, RanksOf(d), Historic(d), Applied(d), Shape(e),
         e.elo = d.elo, e.rank = d.rank, e.historic = d.historic,
         d.known \subseteq e.known,
         e._applied = d._applied, e._late = d._late,
         DOMAIN d.pending \subseteq DOMAIN e.pending
  PROVE  RanksOf(e) /\ Historic(e) /\ Applied(e)
<1>1. Ranked(e) = Ranked(d)
  BY DEF RanksOf, Ranked, Shape
<1>2. RanksOf(e)
  BY <1>1 DEF RanksOf
<1>3. Historic(e)
  BY DEF Historic
<1>4. Applied(e)
  BY DEF Applied
<1> QED
  BY <1>2, <1>3, <1>4

\* The answers of servers name players.
LEMMA InfoNames ==
  ASSUME InfosAssumption, NEW info \in Infos
  PROVE  /\ info.clients \in Seq([name : Names, score : Int, ingame : BOOLEAN])
         /\ NamesOf(info.clients) \subseteq Names
         /\ Len(info.clients) \in Nat
         /\ \A i \in 1..Len(info.clients) : info.clients[i].name \in Names
<1>1. info.clients \in Seq([name : Names, score : Int, ingame : BOOLEAN])
  BY DEF InfosAssumption
<1>2. \A i \in 1..Len(info.clients) : info.clients[i].name \in Names
  <2> DEFINE CL == [name : Names, score : Int, ingame : BOOLEAN]
  <2>1. \A c \in CL : c.name \in Names
    OBVIOUS
  <2>2. ASSUME NEW i \in 1..Len(info.clients) PROVE info.clients[i] \in CL
    <3>1. info.clients \in Seq(CL)
      BY <1>1
    <3> HIDE DEF CL
    <3> QED
      BY <3>1
  <2> QED
    BY <2>1, <2>2
<1>3. Len(info.clients) \in Nat
  BY <1>1
<1> QED
  BY <1>1, <1>2, <1>3 DEF NamesOf

LEMMA UpdatePlayersGood ==
  ASSUME NEW d, Good(d), NEW clients, NamesOf(clients) \subseteq Names
  PROVE  /\ Good(UpdatePlayers(d, clients))
         /\ UpdatePlayers(d, clients).server = d.server
         /\ UpdatePlayers(d, clients)._rated = d._rated
<1> DEFINE e == UpdatePlayers(d, clients)
<1>1. Shape(d)
  BY DEF Good
<1> DEFINE S == [n \in Names |-> IF n \in NamesOf(clients) THEN now ELSE d.seen[n]]
<1>2. e = [known |-> d.known \cup NamesOf(clients), elo |-> d.elo,
             rank |-> d.rank, seen |-> S, pending |-> d.pending,
             historic |-> d.historic, server |-> d.server,
             _ledger |-> d._ledger,
             _applied |-> d._applied, _late |-> d._late, _rated |-> d._rated]
  <2>1. e = [d EXCEPT !.known = d.known \cup NamesOf(clients), !.seen = S]
    BY DEF UpdatePlayers
  <2>2. d = [known |-> d.known, elo |-> d.elo, rank |-> d.rank, seen |-> d.seen,
             pending |-> d.pending, historic |-> d.historic,
             server |-> d.server, _ledger |-> d._ledger,
             _applied |-> d._applied, _late |-> d._late, _rated |-> d._rated]
    BY <1>1 DEF Shape
  <2> HIDE DEF S, e
  <2> QED
    BY <2>1, <2>2
<1> HIDE DEF e
<1>6. Shape(e)
  BY <1>1, <1>2 DEF Shape
<1>3. /\ e.elo = d.elo /\ e.rank = d.rank /\ e.historic = d.historic
      /\ d.known \subseteq e.known
      /\ e.pending = d.pending /\ e._ledger = d._ledger
      /\ e.server = d.server /\ e._rated = d._rated
      /\ e._applied = d._applied /\ e._late = d._late
  BY <1>2
<1>4. RanksOf(e) /\ Historic(e) /\ Applied(e)
  BY <1>6, <1>3, FrameGood DEF Good
<1>5. Ledger(e)
  BY <1>3 DEF Good, Ledger, LatestElo
<1> QED
  BY <1>6, <1>3, <1>4, <1>5 DEF Good, e

LEMMA WriteServerGood ==
  ASSUME NEW d, Good(d), NEW sv
  PROVE  /\ Good([d EXCEPT !.server = sv])
         /\ [d EXCEPT !.server = sv].server = sv
         /\ [d EXCEPT !.server = sv]._rated = d._rated
<1> DEFINE e == [d EXCEPT !.server = sv]
<1>1. Shape(d)
  BY DEF Good
<1>2. Shape(e)
  BY <1>1 DEF Shape
<1>3. /\ e.elo = d.elo /\ e.rank = d.rank /\ e.historic = d.historic
      /\ d.known = e.known
      /\ e.pending = d.pending /\ e._ledger = d._ledger
      /\ e.server = sv /\ e._rated = d._rated
      /\ e._applied = d._applied /\ e._late = d._late
  BY <1>1 DEF Shape
<1> HIDE DEF e
<1>4. RanksOf(e) /\ Historic(e) /\ Applied(e)
  BY <1>2, <1>3, FrameGood DEF Good
<1>5. Ledger(e)
  BY <1>3 DEF Good, Ledger, LatestElo
<1> QED
  BY <1>2, <1>3, <1>4, <1>5 DEF Good, e

\* Every gain is added to the latest elo of the player it belongs to.
LEMMA UpdateElosGood ==
  ASSUME RankingAssumption, NEW d, Good(d), NEW prev, NEW info, NEW s,
         NEW rankable \in SUBSET (1..Len(info.clients)),
         Len(info.clients) \in Nat,
         \A i \in 1..Len(info.clients) : info.clients[i].name \in Names
  PROVE  /\ Good(UpdateElos(d, prev, info, rankable, s))
         /\ UpdateElos(d, prev, info, rankable, s).server = d.server
         /\ Rates(d._rated, UpdateElos(d, prev, info, rankable, s)._rated,
                  s, prev._captured, now)
<1> DEFINE C       == info.clients
           elos    == [i \in rankable |-> LatestElo(d, C[i].name)]
           diff    == [i \in rankable |-> C[i].score - prev.clients[C[i].name].score]
           counted == {C[i].name : i \in rankable}
           last(n) == Max({i \in rankable : C[i].name = n})
           P       == [n \in DOMAIN d.pending \cup counted |->
                         IF n \in counted
                           THEN ComputeNewElo(last(n), rankable, elos, diff)
                           ELSE d.pending[n]]
           L       == [n \in Names |->
                         IF n \in counted
                           THEN d._ledger[n] + EloGain(last(n), rankable, elos, diff)
                           ELSE d._ledger[n]]
           G       == IF rankable = {} THEN d._rated ELSE
                        d._rated \cup {[server |-> s, since |-> prev._captured,
                                        to |-> now, names |-> counted]}
           e       == UpdateElos(d, prev, info, rankable, s)
<1>1. e = [d EXCEPT !.pending = P, !._ledger = L, !._rated = G]
  BY DEF UpdateElos
<1>2. d = [known |-> d.known, elo |-> d.elo, rank |-> d.rank, seen |-> d.seen,
           pending |-> d.pending, historic |-> d.historic,
           server |-> d.server, _ledger |-> d._ledger,
           _applied |-> d._applied, _late |-> d._late, _rated |-> d._rated]
  BY DEF Good, Shape
<1>3. e = [known |-> d.known, elo |-> d.elo, rank |-> d.rank, seen |-> d.seen,
           pending |-> P, historic |-> d.historic,
           server |-> d.server, _ledger |-> L,
           _applied |-> d._applied, _late |-> d._late, _rated |-> G]
  <2> HIDE DEF P, L, G, e
  <2> QED
    BY <1>1, <1>2
<1>4. L = [n \in Names |-> L[n]]
  OBVIOUS
<1>5. Shape(e)
  <2> HIDE DEF P, L, G, e
  <2> QED
    BY <1>3, <1>4 DEF Shape, Good
<1>6. RanksOf(e) /\ Historic(e) /\ Applied(e)
  <2>1. DOMAIN d.pending \subseteq DOMAIN P
    OBVIOUS
  <2> HIDE DEF P, L, G, e
  <2> QED
    BY <1>3, <1>5, <2>1, FrameGood DEF Good
<1>7. ASSUME NEW n \in Names PROVE LatestElo(e, n) = e._ledger[n]
  <2>0. LatestElo(d, n) = d._ledger[n]
    BY DEF Good, Ledger
  <2>1. CASE n \in counted
    <3>1. last(n) \in rankable /\ C[last(n)].name = n
      <4> DEFINE S == {i \in rankable : C[i].name = n}
      <4>1. S \in SUBSET (1..Len(C)) /\ S # {}
        BY <2>1
      <4>2. Max(S) \in S
        <5> HIDE DEF S
        <5> QED
          BY <4>1, GreatestIndex
      <4> QED
        BY <4>2
    <3>2. elos[last(n)] = d._ledger[n]
      BY <3>1, <2>0
    <3>3. P[n] = ComputeNewElo(last(n), rankable, elos, diff)
      BY <2>1
    <3>4. L[n] = d._ledger[n] + EloGain(last(n), rankable, elos, diff)
      BY <2>1
    <3>5. P[n] = L[n]
      <4> HIDE DEF elos, diff, counted, last, P, L
      <4> QED
        BY <3>2, <3>3, <3>4 DEF ComputeNewElo
    <3>6. n \in DOMAIN P
      BY <2>1
    <3> QED
      <4> HIDE DEF P, L, G, e, counted
      <4> QED
        BY <1>3, <3>5, <3>6 DEF LatestElo
  <2>2. CASE n \notin counted
    <3>1. L[n] = d._ledger[n] /\ (n \in DOMAIN P <=> n \in DOMAIN d.pending)
      BY <2>2
    <3>2. n \in DOMAIN d.pending => P[n] = d.pending[n]
      BY <2>2
    <3> QED
      <4> HIDE DEF P, L, G, e, counted
      <4> QED
        BY <1>3, <2>0, <3>1, <3>2 DEF LatestElo
  <2> QED
    BY <2>1, <2>2
<1>8. Rates(d._rated, G, s, prev._captured, now)
  BY DEF Rates
<1> QED
  <2> HIDE DEF P, L, G, e
  <2>4. e.server = d.server /\ e._rated = G
    BY <1>3
  <2>1. Ledger(e)
    BY <1>7 DEF Ledger
  <2>2. Good(e)
    BY <1>5, <1>6, <2>1 DEF Good
  <2> QED
    BY <1>8, <2>2, <2>4 DEF e

LEMMA RankablePlayersLoaded ==
  ASSUME NEW prev, NEW info, NEW garbage
  PROVE  RankablePlayers(prev, info, LoadPlayers(info.clients, garbage))
            \in SUBSET (1..Len(info.clients))
<1> DEFINE loaded == LoadPlayers(info.clients, garbage)
           marked == {i \in {k \in loaded : info.clients[k].name \in DOMAIN prev.clients} :
                         info.clients[i].ingame}
<1>1. RankablePlayers(prev, info, loaded) \in {marked, {}}
  BY DEF RankablePlayers
<1>2. marked \subseteq 1..Len(info.clients)
  BY DEF LoadPlayers
<1> QED
  BY <1>1, <1>2

\* recompute_ranks() makes ranks, elos and records agree, and keeps pending
\* whoever its last walk did not reach.
LEMMA RecomputeGood ==
  ASSUME RankingAssumption, NEW d, Good(d), NEW r,
         IsRanking(ApplyPendingElo(d), r),
         NEW recorded \in SUBSET DOMAIN d.pending, NEW ended \in BOOLEAN,
         ended => recorded = DOMAIN d.pending
  PROVE  /\ Good(RecomputeRanks(d, r, recorded, ended))
         /\ RecomputeRanks(d, r, recorded, ended).server = d.server
         /\ RecomputeRanks(d, r, recorded, ended)._rated = d._rated
<1> DEFINE E == [n \in Names |-> LatestElo(d, n)]
           R == [n \in Names |-> IF n \in d.known THEN r[n] ELSE d.rank[n]]
           H == [n \in DOMAIN d.historic \cup recorded |->
                   IF n \in recorded
                     THEN [elo |-> E[n], rank |-> R[n]]
                     ELSE d.historic[n]]
           P == IF ended THEN Empty ELSE d.pending
           T == IF ended THEN {} ELSE DOMAIN d.pending \ recorded
           a == ApplyPendingElo(d)
           w == WriteRanks(a, r)
           e == RecomputeRanks(d, r, recorded, ended)
<1>1. d = [known |-> d.known, elo |-> d.elo, rank |-> d.rank, seen |-> d.seen,
           pending |-> d.pending, historic |-> d.historic,
           server |-> d.server, _ledger |-> d._ledger,
           _applied |-> d._applied, _late |-> d._late, _rated |-> d._rated]
  BY DEF Good, Shape
<1>2. a = [known |-> d.known, elo |-> E, rank |-> d.rank, seen |-> d.seen,
           pending |-> d.pending, historic |-> d.historic,
           server |-> d.server, _ledger |-> d._ledger,
           _applied |-> d._ledger, _late |-> d._late, _rated |-> d._rated]
  <2>1. a = [d EXCEPT !.elo = E, !._applied = d._ledger]
    BY DEF ApplyPendingElo
  <2> HIDE DEF E, a
  <2> QED
    BY <1>1, <2>1
<1>3. w = [known |-> d.known, elo |-> E, rank |-> R, seen |-> d.seen,
           pending |-> d.pending, historic |-> d.historic,
           server |-> d.server, _ledger |-> d._ledger,
           _applied |-> d._ledger, _late |-> d._late, _rated |-> d._rated]
  <2> HIDE DEF E, a
  <2>1. a.known = d.known /\ a.rank = d.rank
    BY <1>2
  <2>2. w = [a EXCEPT !.rank = R]
    BY <2>1 DEF WriteRanks
  <2> HIDE DEF R, w
  <2> QED
    BY <1>2, <2>2
<1>4. e = [known |-> d.known, elo |-> E, rank |-> R, seen |-> d.seen,
           pending |-> P, historic |-> H,
           server |-> d.server, _ledger |-> d._ledger,
           _applied |-> d._ledger, _late |-> T, _rated |-> d._rated]
  <2>0. e = RecordChanges(w, recorded, ended)
    BY DEF RecomputeRanks
  <2> HIDE DEF E, R, a, w, e
  <2>1. /\ w.historic = d.historic /\ w.pending = d.pending
        /\ w.elo = E /\ w.rank = R
    BY <1>3
  <2>2. e = [w EXCEPT !.historic = H, !.pending = P, !._late = T]
    BY <2>0, <2>1 DEF RecordChanges
  <2> HIDE DEF H, P, T
  <2> QED
    BY <1>3, <2>2
<1>5. /\ r \in [d.known -> 1..Cardinality(d.known)]
      /\ \A p, q \in d.known : p # q => r[p] # r[q]
      /\ \A t \in 1..Cardinality(d.known) : \E n \in d.known : r[n] = t
      /\ \A p, q \in d.known : SortedBefore(a, p, q) => r[p] < r[q]
  <2> HIDE DEF E, a
  <2>1. a.known = d.known
    BY <1>2
  <2> QED
    BY <2>1 DEF IsRanking, Bijection, Injection, Surjection, IsInjective, a
<1>6. Cardinality(d.known) \in Nat /\ d.known \subseteq Names
  BY RankingAssumption, FS_Subset, FS_CardinalityType DEF Good, Shape
<1>7. Shape(e)
  <2>1. R \in [Names -> Nat]
    BY <1>5, <1>6 DEF Good, Shape
  <2>2. E = [n \in Names |-> E[n]]
    OBVIOUS
  <2> HIDE DEF E, R, H, P, T, e
  <2> QED
    BY <1>4, <2>1, <2>2 DEF Shape, Good
<1>8. Ranked(e) = d.known
  <2>1. \A n \in d.known : R[n] = r[n] /\ r[n] # 0
    BY <1>5, <1>6
  <2> HIDE DEF E, R, H, P, T, e
  <2> QED
    BY <1>4, <2>1 DEF Ranked, Unranked
<1>9. RanksOf(e)
  <2>1. \A n \in Names \ d.known : R[n] = Unranked
    BY DEF Good, RanksOf
  <2>2. \A n \in d.known : R[n] = r[n]
    BY <1>6
  <2>3. ASSUME NEW p \in d.known, NEW q \in d.known, E[p] > E[q]
        PROVE  R[p] < R[q]
    <3>1. SortedBefore(a, p, q)
      <4> HIDE DEF E, a
      <4> QED
        BY <1>2, <2>3 DEF SortedBefore
    <3> QED
      BY <1>5, <2>2, <3>1
  <2>4. {R[n] : n \in d.known} = 1..Cardinality(d.known)
    <3>1. \A n \in d.known : R[n] \in 1..Cardinality(d.known)
      BY <1>5, <2>2
    <3>2. \A t \in 1..Cardinality(d.known) : \E n \in d.known : R[n] = t
      BY <1>5, <2>2
    <3> HIDE DEF R
    <3> QED
      BY <3>1, <3>2
  <2>5. \A p, q \in d.known : p # q => R[p] # R[q]
    BY <1>5, <2>2
  <2> HIDE DEF E, R, H, P, T, e
  <2>6. e.known = d.known /\ e.rank = R /\ e.elo = E
    BY <1>4
  <2>7. {e.rank[n] : n \in Ranked(e)} = 1..Cardinality(Ranked(e))
    BY <1>8, <2>4, <2>6
  <2>8. \A p, q \in Ranked(e) :
           /\ e.elo[p] > e.elo[q] => e.rank[p] < e.rank[q]
           /\ p # q => e.rank[p] # e.rank[q]
    BY <1>8, <2>3, <2>5, <2>6
  <2>9. \A n \in Names \ e.known : e.rank[n] = Unranked
    BY <2>1, <2>6
  <2> QED
    BY <2>7, <2>8, <2>9 DEF RanksOf
<1>10. Historic(e)
  <2>1. ASSUME NEW n \in Names
        PROVE  \/ E[n] = IF n \in DOMAIN H THEN H[n].elo ELSE DefaultElo
               \/ n \in T \cap DOMAIN P
    <3>1. CASE n \in recorded
      BY <3>1
    <3>2. CASE n \in DOMAIN d.pending \ recorded
      BY <3>2
    <3>3. CASE n \notin DOMAIN d.pending
      BY <3>3 DEF LatestElo, Good, Historic
    <3> QED
      BY <3>1, <3>2, <3>3
  <2> HIDE DEF E, R, H, P, T, e
  <2> QED
    BY <1>4, <2>1 DEF Historic
<1>11. Ledger(e) /\ Applied(e)
  <2>1. \A n \in Names : E[n] = d._ledger[n]
    BY DEF Good, Ledger
  <2>2. E = d._ledger
    BY <2>1 DEF Good, Shape
  <2>3. \A n \in Names : n \in DOMAIN P => P[n] = E[n]
    BY DEF Empty, LatestElo
  <2> HIDE DEF E, R, H, P, T, e
  <2> QED
    BY <1>4, <2>1, <2>2, <2>3 DEF Ledger, LatestElo, Applied
<1> QED
  <2> HIDE DEF E, R, H, P, T, e
  <2>1. e.server = d.server /\ e._rated = d._rated
    BY <1>4
  <2> QED
    BY <1>7, <1>9, <1>10, <1>11, <2>1 DEF Good, e

-----------------------------------------------------------------------------

LEMMA Initially == ASSUME RankingAssumption, Init PROVE IInv
  BY InitGood DEF Init, IInv

LEMMA HandleServerPacketKeeps ==
  ASSUME RankingAssumption, InfosAssumption, IInv,
         NEW s \in Servers, NEW info \in Infos, NEW garbage,
         HandleServerPacket(s, info, garbage)
  PROVE  IInv'
<1> DEFINE C == info.clients
           u == UpdatePlayers(tx, C)
           k == RankPlayers(u, mem[s], info, garbage, s)
<1>1. Good(u)
  BY UpdatePlayersGood, InfoNames DEF IInv
<1>2. Good(k)
  <2>1. /\ Len(C) \in Nat
        /\ \A i \in 1..Len(C) : C[i].name \in Names
    BY InfoNames
  <2>2. RankablePlayers(mem[s], info, LoadPlayers(C, garbage)) \in SUBSET (1..Len(C))
    BY RankablePlayersLoaded
  <2> HIDE DEF u
  <2> QED
    BY <1>1, <2>1, <2>2, UpdateElosGood DEF RankPlayers
<1>3. PICK sv : tx' = [k EXCEPT !.server = [k.server EXCEPT ![s] = sv]]
  BY DEF HandleServerPacket
<1> HIDE DEF k
<1>4. Good(tx')
  BY <1>2, <1>3, WriteServerGood
<1>5. db' = db
  BY DEF HandleServerPacket
<1> QED
  BY <1>4, <1>5 DEF IInv

LEMMA HandleBadPacketKeeps ==
  ASSUME IInv, NEW s \in Servers, HandleBadPacket(s) PROVE IInv'
<1>1. PICK sv : tx' = [tx EXCEPT !.server = sv]
  BY DEF HandleBadPacket
<1>2. db' = db
  BY DEF HandleBadPacket
<1>3. Good(tx')
  BY <1>1, WriteServerGood DEF IInv
<1> QED
  BY <1>2, <1>3 DEF IInv

\* What a round ends with is committed, kept for the next commit, or lost.
LEMMA EndRoundKeeps ==
  ASSUME IInv, NEW d, Good(d), EndRound(d) PROVE IInv'
  BY DEF IInv, EndRound, Commit, CommitFails

\* The strengthening is inductive: one step per action.
LEMMA Inductive ==
  ASSUME RankingAssumption, InfosAssumption, IInv, [Next]_vars PROVE IInv'
<1>1. CASE Tick
  BY <1>1 DEF IInv, Tick
<1>2. CASE Begin
  BY <1>2 DEF IInv, Begin
<1>3. CASE EndOfRound
  BY <1>3, EndRoundKeeps DEF IInv, EndOfRound
<1>4. CASE Restart
  BY <1>4 DEF IInv, Restart
<1>5. ASSUME NEW s \in Servers, HandleBadPacket(s) PROVE IInv'
  BY <1>5, HandleBadPacketKeeps
<1>6. ASSUME NEW s \in Servers, NEW info \in Infos,
             NEW garbage \in GarbageSets(info.clients), HandleServerPacket(s, info, garbage)
      PROVE  IInv'
  BY <1>6, HandleServerPacketKeeps
<1>7. ASSUME NEW r, Recompute(r) PROVE IInv'
  <2>1. Good(RecomputeRanks(tx, r, DOMAIN tx.pending, TRUE))
    BY <1>7, RecomputeGood DEF IInv, Recompute
  <2> QED
    BY <1>7, <2>1, EndRoundKeeps DEF Recompute
<1>8. ASSUME NEW r, NEW recorded \in SUBSET DOMAIN tx.pending,
             RecomputeUnrecorded(r, recorded)
      PROVE  IInv'
  <2>1. Good(tx') /\ db' = tx'
    BY <1>8, RecomputeGood DEF IInv, RecomputeUnrecorded
  <2> QED
    BY <2>1 DEF IInv
<1>9. CASE UNCHANGED vars
  BY <1>9 DEF IInv, vars
<1> QED
  BY <1>1, <1>2, <1>3, <1>4, <1>5, <1>6, <1>7, <1>8, <1>9 DEF Next

\* Good databases, committed and in the making, at any time.
THEOREM Invariance == Spec => []IInv
<1> USE RankingAssumption, InfosAssumption
<1>1. Init => IInv
  BY Initially
<1>2. IInv /\ [Next]_vars => IInv'
  BY Inductive
<1> QED
  BY <1>1, <1>2, PTL DEF Spec

\* At any time the CGI may read the database, ranks follow elos (rank.c:28).
THEOREM RanksAlwaysFollowElo == Spec => []RanksFollowElo
<1>1. IInv => RanksFollowElo
  BY DEF IInv, Good, RanksOf, RanksFollowElo
<1> QED
  BY <1>1, Invariance, PTL

\* The last record of a player is never behind the elo of the player.
THEOREM HistoricAlwaysCurrent == Spec => []HistoricIsCurrent
<1>1. IInv => HistoricIsCurrent
  BY DEF IInv, Good, Shape, Historic, HistoricIsCurrent
<1> QED
  BY <1>1, Invariance, PTL

\* No gain is ever lost, and none is counted twice.
THEOREM GainsNeverLost == Spec => []NoGainLost
<1>1. IInv => NoGainLost
  BY DEF IInv, Good, Ledger, NoGainLost
<1> QED
  BY <1>1, Invariance, PTL

\* The elos shown are those of one recomputation, whatever fails.
THEOREM PendingAlwaysAppliedWhole == Spec => []PendingAppliedWhole
<1>1. IInv => PendingAppliedWhole
  BY DEF IInv, Good, Applied, PendingAppliedWhole
<1> QED
  BY <1>1, Invariance, PTL

-----------------------------------------------------------------------------

(***************************************************************************)
(* RatedOnce.  The clients of a server are never older than the last game  *)
(* rated there: what the transaction has written and what is committed     *)
(* each keep the two together, and memory is never behind either of them,  *)
(* even when a commit was rolled back.                                     *)
(***************************************************************************)
Record(x) == x = [seen |-> x.seen, clients |-> x.clients, _captured |-> x._captured]

Table(sv, time) == /\ sv = [s \in Servers |-> sv[s]]
                   /\ \A s \in Servers : Record(sv[s]) /\ sv[s]._captured \in 0..time

Games(counted, sv) ==
    /\ \A g \in counted : /\ g.server \in Servers
                          /\ g.since \in Nat /\ g.to \in Nat
                          /\ g.to <= sv[g.server]._captured
    /\ \A a, b \in counted :
           a # b /\ a.server = b.server => a.to <= b.since \/ b.to <= a.since

PInv == /\ now \in Nat
        /\ Table(db.server, now) /\ Games(db._rated, db.server)
        /\ Table(tx.server, now) /\ Games(tx._rated, tx.server)
        /\ Table(mem, now)
        /\ \A s \in Servers : /\ mem[s]._captured >= tx.server[s]._captured
                              /\ mem[s]._captured >= db.server[s]._captured

LEMMA InitPInv == ASSUME RankingAssumption, Init PROVE PInv
<1>1. /\ db.server = [s \in Servers |-> NewServer] /\ db._rated = {}
      /\ tx = db /\ mem = db.server
  BY DEF Init, EmptyDatabase
<1>2. now \in Nat
  BY DEF Init, RankingAssumption
<1>3. Table(db.server, now)
  BY <1>1, <1>2 DEF Table, Record, NewServer
<1>4. \A s \in Servers : mem[s]._captured = 0 /\ tx.server[s]._captured = 0
  BY <1>1 DEF NewServer
<1> QED
  BY <1>1, <1>2, <1>3, <1>4 DEF PInv, Games

\* A game that follows those rated so far, and clients as recent as it.
LEMMA RateNext ==
  ASSUME NEW time \in Nat, NEW sv, Table(sv, time), NEW counted, Games(counted, sv),
         NEW s \in Servers, NEW x, Record(x), x._captured = time,
         NEW since \in sv[s]._captured..time,
         NEW more, Rates(counted, more, s, since, time)
  PROVE  /\ Table([sv EXCEPT ![s] = x], time)
         /\ Games(more, [sv EXCEPT ![s] = x])
<1> DEFINE w == [sv EXCEPT ![s] = x]
<1>1. /\ w = [t \in Servers |-> w[t]] /\ w[s] = x
      /\ \A t \in Servers \ {s} : w[t] = sv[t]
  BY DEF Table
<1> HIDE DEF w
<1>2. Table(w, time)
  BY <1>1 DEF Table
<1>3. sv[s]._captured \in 0..time
  BY DEF Table
<1>4. PICK game : /\ game.server = s /\ game.since = since /\ game.to = time
                  /\ more = counted \/ more = counted \cup {game}
  <2>1. ASSUME NEW names
        PROVE  LET g == [server |-> s, since |-> since,
                         to |-> time, names |-> names]
               IN  g.server = s /\ g.since = since /\ g.to = time
    OBVIOUS
  <2> QED
    BY <2>1 DEF Rates
<1>6. ASSUME NEW g \in more
      PROVE  /\ g.server \in Servers
             /\ g.since \in Nat /\ g.to \in Nat
             /\ g.to <= w[g.server]._captured
  <2>1. CASE g = game
    BY <1>1, <1>3, <1>4, <2>1
  <2>2. CASE g \in counted
    <3>1. /\ g.server \in Servers /\ g.since \in Nat /\ g.to \in Nat
          /\ g.to <= sv[g.server]._captured
      BY <2>2 DEF Games
    <3>2. CASE g.server = s
      BY <1>1, <1>3, <3>1, <3>2
    <3>3. CASE g.server # s
      BY <1>1, <3>1, <3>3
    <3> QED
      BY <3>2, <3>3
  <2> QED
    BY <1>4, <2>1, <2>2
<1>7. ASSUME NEW a \in more, NEW b \in more, a # b, a.server = b.server
      PROVE  a.to <= b.since \/ b.to <= a.since
  <2>1. CASE a \in counted /\ b \in counted
    BY <1>7, <2>1 DEF Games
  <2>2. CASE a = game /\ b \in counted
    BY <1>3, <1>4, <1>7, <2>2 DEF Games
  <2>3. CASE b = game /\ a \in counted
    BY <1>3, <1>4, <1>7, <2>3 DEF Games
  <2> QED
    BY <1>4, <1>7, <2>1, <2>2, <2>3
<1> QED
  BY <1>2, <1>6, <1>7 DEF Games, w

LEMMA HandleServerPacketRates ==
  ASSUME RankingAssumption, InfosAssumption, IInv, PInv,
         NEW s \in Servers, NEW info \in Infos, NEW garbage,
         HandleServerPacket(s, info, garbage)
  PROVE  PInv'
<1> DEFINE C == info.clients
           u == UpdatePlayers(tx, C)
           k == RankPlayers(u, mem[s], info, garbage, s)
           x == [seen |-> now, clients |-> FindClients(C), _captured |-> now]
           y == [x EXCEPT !.clients = WriteClients(C)]
<1>1. /\ mem' = [mem EXCEPT ![s] = x]
      /\ tx' = [k EXCEPT !.server[s] = y]
      /\ db' = db /\ now' = now
  BY DEF HandleServerPacket
<1>2. Record(x) /\ x._captured = now /\ Record(y) /\ y._captured = now
  BY DEF Record
<1>3. Good(u) /\ u.server = tx.server /\ u._rated = tx._rated
  BY UpdatePlayersGood, InfoNames DEF IInv
<1>4. /\ Good(k) /\ k.server = tx.server
      /\ Rates(tx._rated, k._rated, s, mem[s]._captured, now)
  <2>1. /\ Len(C) \in Nat
        /\ \A i \in 1..Len(C) : C[i].name \in Names
    BY InfoNames
  <2>2. RankablePlayers(mem[s], info, LoadPlayers(C, garbage)) \in SUBSET (1..Len(C))
    BY RankablePlayersLoaded
  <2> DEFINE prev == mem[s]
             m   == RankablePlayers(prev, info, LoadPlayers(C, garbage))
             e   == UpdateElos(u, prev, info, m, s)
  <2>3. m \in SUBSET (1..Len(info.clients))
    BY <2>2
  <2> HIDE DEF u, m, prev
  <2>4. /\ Good(e) /\ e.server = u.server
        /\ Rates(u._rated, e._rated, s, prev._captured, now)
    BY <1>3, <2>1, <2>3, UpdateElosGood
  <2> HIDE DEF e
  <2>5. k = e
    BY DEF RankPlayers, e, m, prev
  <2> QED
    BY <1>3, <2>4, <2>5 DEF prev
<1> HIDE DEF k, x, y
<1>5. tx' = [k EXCEPT !.server = [k.server EXCEPT ![s] = y]]
  BY <1>1
<1>6. tx'.server = [tx.server EXCEPT ![s] = y] /\ tx'._rated = k._rated
  BY <1>4, <1>5, WriteServerGood
<1>7. mem[s]._captured \in tx.server[s]._captured..now
  BY DEF PInv, Table
<1>8. Table(tx.server, now)' /\ Games(tx._rated, tx.server)'
  <2> DEFINE w == [tx.server EXCEPT ![s] = y]
  <2>1. now \in Nat /\ Table(tx.server, now) /\ Games(tx._rated, tx.server)
    BY DEF PInv
  <2>3. Table(w, now) /\ Games(k._rated, w)
    BY <1>2, <1>4, <1>7, <2>1, RateNext
  <2> HIDE DEF w
  <2> QED
    BY <1>1, <1>6, <2>3 DEF w
<1>9. Table(mem, now)'
  <2>1. now \in Nat /\ Table(mem, now)
    BY DEF PInv
  <2>2. mem' = [t \in Servers |-> IF t = s THEN x ELSE mem[t]]
    BY <1>1, <2>1 DEF Table
  <2>3. /\ mem' = [t \in Servers |-> mem'[t]]
        /\ mem'[s] = x /\ \A t \in Servers \ {s} : mem'[t] = mem[t]
    BY <2>2
  <2> QED
    BY <1>1, <1>2, <2>1, <2>3 DEF Table
<1>10. ASSUME NEW t \in Servers
      PROVE  /\ mem'[t]._captured >= tx'.server[t]._captured
             /\ mem'[t]._captured >= db'.server[t]._captured
  <2>1. /\ mem[t]._captured >= tx.server[t]._captured
        /\ mem[t]._captured >= db.server[t]._captured
    BY DEF PInv
  <2>2. /\ mem = [z \in Servers |-> mem[z]]
        /\ tx.server = [z \in Servers |-> tx.server[z]]
        /\ now \in Nat /\ db.server[t]._captured \in 0..now
    BY DEF PInv, Table
  <2>3. CASE t = s
    <3>1. mem'[t] = x /\ tx'.server[t] = y
      BY <1>1, <1>6, <2>2, <2>3
    <3> QED
      BY <1>1, <1>2, <2>2, <3>1
  <2>4. CASE t # s
    <3>1. mem'[t] = mem[t] /\ tx'.server[t] = tx.server[t]
      BY <1>1, <1>6, <2>2, <2>4
    <3> QED
      BY <1>1, <2>1, <3>1
  <2> QED
    BY <2>3, <2>4
<1> QED
  BY <1>1, <1>8, <1>9, <1>10 DEF PInv

LEMMA HandleBadPacketRates ==
  ASSUME IInv, PInv, NEW s \in Servers, HandleBadPacket(s) PROVE PInv'
<1> DEFINE see(x) == [x EXCEPT !.seen = now]
           sv     == [tx.server EXCEPT ![s] = see(tx.server[s])]
<1>1. /\ mem' = [mem EXCEPT ![s] = see(mem[s])]
      /\ tx' = [tx EXCEPT !.server = sv]
      /\ db' = db /\ now' = now
  BY DEF HandleBadPacket
<1>2. ASSUME NEW x, Record(x) PROVE Record(see(x)) /\ see(x)._captured = x._captured
  BY <1>2 DEF Record
<1> HIDE DEF see
<1>3. ASSUME NEW t, Table(t, now)
      PROVE  /\ Table([t EXCEPT ![s] = see(t[s])], now)
             /\ \A z \in Servers : [t EXCEPT ![s] = see(t[s])][z]._captured = t[z]._captured
  BY <1>2, <1>3 DEF Table
<1>4. /\ Table(sv, now) /\ Table(mem', now)
      /\ \A z \in Servers : sv[z]._captured = tx.server[z]._captured
      /\ \A z \in Servers : mem'[z]._captured = mem[z]._captured
  BY <1>1, <1>3 DEF PInv
<1> HIDE DEF sv
<1>5. tx'.server = sv /\ tx'._rated = tx._rated
  BY <1>1, WriteServerGood DEF IInv
<1>6. Games(tx._rated, sv)
  BY <1>4 DEF PInv, Games
<1> QED
  BY <1>1, <1>4, <1>5, <1>6 DEF PInv

LEMMA TickRates == ASSUME PInv, Tick PROVE PInv'
<1>1. now \in Nat /\ now' \in Nat /\ 0..now \subseteq 0..now'
  BY DEF PInv, Tick
<1>2. db' = db /\ tx' = tx /\ mem' = mem
  BY DEF Tick
<1>3. \A sv : Table(sv, now) => Table(sv, now')
  BY <1>1 DEF Table
<1> QED
  BY <1>1, <1>2, <1>3 DEF PInv

LEMMA EndRoundRates ==
  ASSUME PInv, NEW d, d.server = tx.server, d._rated = tx._rated, EndRound(d)
  PROVE  PInv'
<1>1. mem' = mem /\ now' = now
  BY DEF EndRound
<1>2. \/ db' = d /\ tx' = d
      \/ db' = db /\ tx' = d
      \/ db' = db /\ tx' = db
  BY DEF EndRound, Commit, CommitFails
<1> QED
  BY <1>1, <1>2 DEF PInv

LEMMA InductivePInv ==
  ASSUME RankingAssumption, InfosAssumption, IInv, PInv, [Next]_vars PROVE PInv'
<1>1. CASE Tick
  BY <1>1, TickRates
<1>2. CASE Begin
  BY <1>2 DEF PInv, Begin
<1>3. CASE EndOfRound
  BY <1>3, EndRoundRates DEF PInv, EndOfRound
<1>4. CASE Restart
  <2>1. \A s \in Servers : db.server[s]._captured \in 0..now /\ now \in Nat
    BY DEF PInv, Table
  <2>2. \A s \in Servers : db.server[s]._captured >= db.server[s]._captured
    BY <2>1
  <2>3. mem' = db.server /\ tx' = db /\ db' = db /\ now' = now
    BY <1>4 DEF Restart
  <2> QED
    BY <2>2, <2>3 DEF PInv
<1>5. ASSUME NEW s \in Servers, HandleBadPacket(s) PROVE PInv'
  BY <1>5, HandleBadPacketRates
<1>6. ASSUME NEW s \in Servers, NEW info \in Infos,
             NEW garbage \in GarbageSets(info.clients), HandleServerPacket(s, info, garbage)
      PROVE  PInv'
  BY <1>6, HandleServerPacketRates
<1>7. ASSUME NEW r, Recompute(r) PROVE PInv'
  <2> DEFINE d == RecomputeRanks(tx, r, DOMAIN tx.pending, TRUE)
  <2>1. d.server = tx.server /\ d._rated = tx._rated
    BY <1>7, RecomputeGood DEF IInv, Recompute
  <2> HIDE DEF d
  <2>2. EndRound(d)
    BY <1>7 DEF Recompute, d
  <2> QED
    BY <2>1, <2>2, EndRoundRates
<1>8. ASSUME NEW r, NEW recorded \in SUBSET DOMAIN tx.pending,
             RecomputeUnrecorded(r, recorded)
      PROVE  PInv'
  <2>1. tx'.server = tx.server /\ tx'._rated = tx._rated
    BY <1>8, RecomputeGood DEF IInv, RecomputeUnrecorded
  <2> QED
    BY <1>8, <2>1 DEF PInv, RecomputeUnrecorded
<1>9. CASE UNCHANGED vars
  BY <1>9 DEF PInv, vars
<1> QED
  BY <1>1, <1>2, <1>3, <1>4, <1>5, <1>6, <1>7, <1>8, <1>9 DEF Next

\* No time of play is ever rated twice, whenever the process is restarted.
THEOREM AlwaysRatedOnce == Spec => []RatedOnce
<1> USE RankingAssumption, InfosAssumption
<1>1. Init => PInv
  BY InitPInv
<1>2. IInv /\ PInv /\ [Next]_vars => PInv'
  BY InductivePInv
<1>3. PInv => RatedOnce
  BY DEF PInv, Games, RatedOnce
<1> QED
  BY <1>1, <1>2, <1>3, Invariance, PTL DEF Spec

-----------------------------------------------------------------------------
\* Games: sums.

SumOf(f, S) == MapThenSumSet(LAMBDA x : f[x], S)

First(s) == CHOOSE x \in s : TRUE

\* An element is added to the sum of the others.
Added(f, g, s) == IF s = {} THEN 0 ELSE f[First(s)] + g[s \ {First(s)}]

LEMMA SumIs ==
  ASSUME NEW f, NEW S
  PROVE  SumOf(f, S) = (CHOOSE g : g = [s \in SUBSET S |-> Added(f, g, s)])[S]
BY DEF SumOf, MapThenSumSet, MapThenFoldSet, Added, First

\* Induction, over what is left of a finite set.
LEMMA SmallerSets ==
  ASSUME NEW S, IsFiniteSet(S), NEW P \in SUBSET (SUBSET S),
         \A s \in SUBSET S : (\A x \in s : s \ {x} \in P) => s \in P
  PROVE  P = SUBSET S
<1> DEFINE Bad == {n \in Nat : \E s \in SUBSET S : s \notin P /\ Cardinality(s) = n}
<1>1. SUFFICES ASSUME NEW s \in SUBSET S, s \notin P PROVE FALSE
  OBVIOUS
<1>2. Cardinality(s) \in Bad
  BY <1>1, FS_Subset, FS_CardinalityType
<1>3. PICK n \in Bad : \A k \in Bad : n <= k
  <2> HIDE DEF Bad
  <2>1. Bad \in SUBSET Nat
    BY DEF Bad
  <2> QED
    BY <1>2, <2>1, LeastNatural
<1>4. PICK t \in SUBSET S : t \notin P /\ Cardinality(t) = n
  OBVIOUS
<1>5. IsFiniteSet(t)
  BY FS_Subset
<1>6. PICK x \in t : t \ {x} \notin P
  BY <1>4
<1>7. IsFiniteSet(t \ {x}) /\ Cardinality(t \ {x}) = n - 1
  BY <1>4, <1>5, <1>6, FS_RemoveElement
<1>8. n - 1 \in Nat
  BY <1>7, FS_CardinalityType
<1>9. n - 1 \in Bad
  BY <1>6, <1>7, <1>8
<1> HIDE DEF Bad
<1>10. n \in Nat /\ n <= n - 1
  BY <1>3, <1>9 DEF Bad
<1> QED
  BY <1>10

\* The sums of the subsets of no more than n elements, and then of all.
UpTo(S, n) == {s \in SUBSET S : Cardinality(s) <= n}

LEMMA SumsExist ==
  ASSUME NEW f, NEW S, IsFiniteSet(S)
  PROVE  \E g : g = [s \in SUBSET S |-> Added(f, g, s)]
<1> DEFINE Summed == {n \in Nat : \E g : g = [s \in UpTo(S, n) |-> Added(f, g, s)]}
<1>1. 0 \in Summed
  <2>1. PICK g : g = [s \in UpTo(S, 0) |-> 0]
    OBVIOUS
  <2>2. \A s \in UpTo(S, 0) : s = {}
    <3>1. ASSUME NEW s \in UpTo(S, 0) PROVE s = {}
      <4>1. s \in SUBSET S /\ Cardinality(s) <= 0
        BY DEF UpTo
      <4>2. IsFiniteSet(s) /\ Cardinality(s) \in Nat
        BY <4>1, FS_Subset, FS_CardinalityType
      <4>3. Cardinality(s) = 0
        BY <4>1, <4>2
      <4> QED
        BY <4>2, <4>3, FS_EmptySet
    <3> QED
      BY <3>1
  <2>3. \A s \in UpTo(S, 0) : Added(f, g, s) = 0
    BY <2>2 DEF Added
  <2>4. g = [s \in UpTo(S, 0) |-> Added(f, g, s)]
    BY <2>1, <2>3
  <2> QED
    BY <2>4
<1>2. ASSUME NEW n \in Summed PROVE n + 1 \in Summed
  <2>1. n \in Nat
    OBVIOUS
  <2>2. PICK g : g = [s \in UpTo(S, n) |-> Added(f, g, s)]
    OBVIOUS
  <2>3. PICK h : h = [s \in UpTo(S, n + 1) |-> Added(f, g, s)]
    OBVIOUS
  <2>4. ASSUME NEW s \in UpTo(S, n + 1), s # {} PROVE g[s \ {First(s)}] = h[s \ {First(s)}]
    <3>1. First(s) \in s
      BY <2>4 DEF First
    <3>2. s \in SUBSET S /\ Cardinality(s) <= n + 1
      BY DEF UpTo
    <3>3. IsFiniteSet(s) /\ Cardinality(s) \in Nat
      BY <3>2, FS_Subset, FS_CardinalityType
    <3>4. Cardinality(s \ {First(s)}) = Cardinality(s) - 1
      BY <3>1, <3>3, FS_RemoveElement
    <3>5. s \ {First(s)} \in UpTo(S, n)
      BY <2>1, <3>2, <3>3, <3>4 DEF UpTo
    <3>6. s \ {First(s)} \in UpTo(S, n + 1)
      BY <2>1, <3>2, <3>3, <3>4 DEF UpTo
    <3> QED
      BY <2>2, <2>3, <3>5, <3>6
  <2>5. \A s \in UpTo(S, n + 1) : Added(f, g, s) = Added(f, h, s)
    BY <2>4 DEF Added
  <2>6. h = [s \in UpTo(S, n + 1) |-> Added(f, h, s)]
    BY <2>3, <2>5
  <2> QED
    BY <2>1, <2>6
<1>3. Summed = Nat
  <2> DEFINE Bad == Nat \ Summed
  <2>1. SUFFICES ASSUME Bad # {} PROVE FALSE
    OBVIOUS
  <2>2. PICK n \in Bad : \A k \in Bad : n <= k
    <3>1. Bad \in SUBSET Nat
      OBVIOUS
    <3> HIDE DEF Bad
    <3> QED
      BY <2>1, <3>1, LeastNatural
  <2>3. n # 0
    BY <1>1
  <2> HIDE DEF Summed
  <2>4. n \in Nat /\ n - 1 \in Nat /\ ~(n <= n - 1)
    BY <2>2, <2>3
  <2>5. n - 1 \in Summed
    BY <2>2, <2>4
  <2>6. n - 1 + 1 \in Summed
    BY <1>2, <2>5
  <2>7. n \in Summed
    BY <2>4, <2>6
  <2> QED
    BY <2>7
<1>4. UpTo(S, Cardinality(S)) = SUBSET S /\ Cardinality(S) \in Nat
  BY FS_Subset, FS_CardinalityType DEF UpTo
<1>5. PICK n : n = Cardinality(S)
  OBVIOUS
<1>6. n \in Summed
  <2> HIDE DEF Summed
  <2> QED
    BY <1>3, <1>4, <1>5
<1>7. PICK g : g = [s \in UpTo(S, n) |-> Added(f, g, s)]
  BY <1>6
<1> QED
  BY <1>4, <1>5, <1>7

\* What the sums of the subsets of a set are.
SumsOf(f, S) == CHOOSE g : g = [s \in SUBSET S |-> Added(f, g, s)]

LEMMA SumsAre ==
  ASSUME NEW f, NEW S, IsFiniteSet(S)
  PROVE  \A s \in SUBSET S : SumsOf(f, S)[s] = Added(f, SumsOf(f, S), s)
<1>1. PICK g : g = SumsOf(f, S)
  OBVIOUS
<1>2. g = [s \in SUBSET S |-> Added(f, g, s)]
  BY <1>1, SumsExist DEF SumsOf
<1> QED
  BY <1>1, <1>2

LEMMA SumsAgree ==
  ASSUME NEW f, NEW S, IsFiniteSet(S), NEW T \in SUBSET S
  PROVE  \A s \in SUBSET T : SumsOf(f, S)[s] = SumsOf(f, T)[s]
<1> DEFINE P == {s \in SUBSET T : SumsOf(f, S)[s] = SumsOf(f, T)[s]}
<1>1. IsFiniteSet(T)
  BY FS_Subset
<1>2. ASSUME NEW s \in SUBSET T, \A x \in s : s \ {x} \in P PROVE s \in P
  <2>1. PICK g, h : g = SumsOf(f, S) /\ h = SumsOf(f, T)
    OBVIOUS
  <2>2. g[s] = Added(f, g, s) /\ h[s] = Added(f, h, s)
    BY <1>1, <2>1, SumsAre
  <2>3. s # {} => First(s) \in s
    BY DEF First
  <2>4. s # {} => g[s \ {First(s)}] = h[s \ {First(s)}]
    BY <1>2, <2>1, <2>3
  <2>5. Added(f, g, s) = Added(f, h, s)
    BY <2>4 DEF Added
  <2> QED
    BY <2>1, <2>2, <2>5
<1>3. P \in SUBSET (SUBSET T)
  OBVIOUS
<1>4. P = SUBSET T
  <2> HIDE DEF P
  <2> QED
    BY <1>1, <1>2, <1>3, SmallerSets
<1> QED
  BY <1>4

LEMMA SumOfFirst ==
  ASSUME NEW f, NEW S, IsFiniteSet(S)
  PROVE  /\ SumOf(f, {}) = 0
         /\ S # {} => /\ First(S) \in S
                      /\ SumOf(f, S) = f[First(S)] + SumOf(f, S \ {First(S)})
<1>1. \A T : SumOf(f, T) = SumsOf(f, T)[T]
  BY SumIs DEF SumsOf
<1>2. SumOf(f, {}) = 0
  <2>1. IsFiniteSet({}) /\ {} \in SUBSET {}
    BY FS_EmptySet
  <2>2. SumsOf(f, {})[{}] = Added(f, SumsOf(f, {}), {})
    BY <2>1, SumsAre
  <2> QED
    BY <1>1, <2>2 DEF Added
<1>3. ASSUME S # {} PROVE First(S) \in S /\ SumOf(f, S) = f[First(S)] + SumOf(f, S \ {First(S)})
  <2>1. First(S) \in S
    BY <1>3 DEF First
  <2>2. PICK T : T = S \ {First(S)}
    OBVIOUS
  <2>3. T \in SUBSET S /\ T \in SUBSET T
    BY <2>2
  <2>4. SumsOf(f, S)[S] = Added(f, SumsOf(f, S), S)
    BY SumsAre
  <2>5. SumsOf(f, S)[T] = SumsOf(f, T)[T]
    BY <2>3, SumsAgree
  <2>6. SumsOf(f, S)[S] = f[First(S)] + SumsOf(f, S)[T]
    BY <1>3, <2>2, <2>4 DEF Added
  <2> QED
    BY <1>1, <2>1, <2>2, <2>5, <2>6
<1> QED
  BY <1>2, <1>3

LEMMA SumInt ==
  ASSUME NEW f, NEW S, IsFiniteSet(S), \A x \in S : f[x] \in Int
  PROVE  \A s \in SUBSET S : SumOf(f, s) \in Int
<1> DEFINE P == {s \in SUBSET S : SumOf(f, s) \in Int}
<1>1. ASSUME NEW s \in SUBSET S, \A x \in s : s \ {x} \in P PROVE s \in P
  <2>1. IsFiniteSet(s)
    BY FS_Subset
  <2>2. CASE s = {}
    <3>1. SumOf(f, {}) = 0
      BY <2>1, SumOfFirst
    <3> QED
      BY <2>2, <3>1
  <2>3. CASE s # {}
    <3>1. PICK x : x = First(s)
      OBVIOUS
    <3>2. x \in s /\ SumOf(f, s) = f[x] + SumOf(f, s \ {x})
      BY <2>1, <2>3, <3>1, SumOfFirst
    <3>3. SumOf(f, s \ {x}) \in Int /\ f[x] \in Int
      BY <1>1, <3>2
    <3>4. SumOf(f, s) \in Int
      BY <3>2, <3>3
    <3> QED
      BY <3>4
  <2> QED
    BY <2>2, <2>3
<1>2. P \in SUBSET (SUBSET S)
  OBVIOUS
<1>3. P = SUBSET S
  <2> HIDE DEF P
  <2> QED
    BY <1>1, <1>2, SmallerSets
<1> QED
  BY <1>3

\* Whatever the element that is taken first.
IntsOn(f, S) == \A x \in S : f[x] \in Int

LEMMA SumOfAny ==
  ASSUME NEW f, NEW S, IsFiniteSet(S), IntsOn(f, S)
  PROVE  \A s \in SUBSET S : \A x \in s : SumOf(f, s) = f[x] + SumOf(f, s \ {x})
<1> USE DEF IntsOn
<1> DEFINE P == {s \in SUBSET S : \A x \in s : SumOf(f, s) = f[x] + SumOf(f, s \ {x})}
<1>1. ASSUME NEW s \in SUBSET S, \A x \in s : s \ {x} \in P PROVE s \in P
  <2>1. IsFiniteSet(s)
    BY FS_Subset
  <2>2. ASSUME NEW x \in s PROVE SumOf(f, s) = f[x] + SumOf(f, s \ {x})
    <3>1. PICK y : y = First(s)
      OBVIOUS
    <3>2. y \in s /\ SumOf(f, s) = f[y] + SumOf(f, s \ {y})
      BY <2>1, <3>1, SumOfFirst
    <3>3. CASE x = y
      BY <3>2, <3>3
    <3>4. CASE x # y
      <4>1. PICK t : t = s \ {x, y}
        OBVIOUS
      <4>2. t = (s \ {y}) \ {x} /\ t = (s \ {x}) \ {y}
        BY <4>1
      <4>3. SumOf(f, s \ {y}) = f[x] + SumOf(f, t)
        BY <1>1, <3>2, <3>4, <4>2
      <4>4. SumOf(f, s \ {x}) = f[y] + SumOf(f, t)
        BY <1>1, <3>2, <3>4, <4>2
      <4>5. f[x] \in Int /\ f[y] \in Int /\ SumOf(f, t) \in Int
        BY <3>2, <4>1, SumInt
      <4> QED
        BY <3>2, <4>3, <4>4, <4>5
    <3> QED
      BY <3>3, <3>4
  <2> QED
    BY <2>2
<1>2. P \in SUBSET (SUBSET S)
  OBVIOUS
<1>3. P = SUBSET S
  <2> HIDE DEF P
  <2> QED
    BY <1>1, <1>2, SmallerSets
<1> QED
  BY <1>3

\* One element apart from the others.
LEMMA SumWithout ==
  ASSUME NEW f, NEW S, IsFiniteSet(S), IntsOn(f, S), NEW one \in S
  PROVE  SumOf(f, S) = f[one] + SumOf(f, S \ {one})
<1>1. \A s \in SUBSET S : \A x \in s : SumOf(f, s) = f[x] + SumOf(f, s \ {x})
  BY SumOfAny, ZenonT(40)
<1>2. S \in SUBSET S
  OBVIOUS
<1> QED
  BY <1>1, <1>2

\* Sums are linear.
Combines(h, f, m, g, S) ==
    \A x \in S : f[x] \in Int /\ g[x] \in Int /\ h[x] = f[x] + m * g[x]

LEMMA SumLinear ==
  ASSUME NEW S, IsFiniteSet(S), NEW f, NEW g, NEW h, NEW m \in Int,
         Combines(h, f, m, g, S)
  PROVE  \A s \in SUBSET S : SumOf(h, s) = SumOf(f, s) + m * SumOf(g, s)
<1> DEFINE P == {s \in SUBSET S : SumOf(h, s) = SumOf(f, s) + m * SumOf(g, s)}
<1>0. \A x \in S : f[x] \in Int /\ g[x] \in Int /\ h[x] = f[x] + m * g[x]
  BY DEF Combines
<1>1. ASSUME NEW s \in SUBSET S, \A x \in s : s \ {x} \in P PROVE s \in P
  <2>1. IsFiniteSet(s)
    BY FS_Subset
  <2>2. CASE s = {}
    <3>1. SumOf(f, {}) = 0 /\ SumOf(g, {}) = 0 /\ SumOf(h, {}) = 0
      BY <2>1, SumOfFirst
    <3>2. SumOf(h, {}) = SumOf(f, {}) + m * SumOf(g, {})
      BY <3>1
    <3> QED
      BY <2>2, <3>2
  <2>3. CASE s # {}
    <3>1. PICK x, t : x \in s /\ t = s \ {x}
      BY <2>3
    <3>2. \A y \in S : h[y] \in Int
      BY <1>0
    <3>3. /\ SumOf(f, s) = f[x] + SumOf(f, t) /\ SumOf(g, s) = g[x] + SumOf(g, t)
          /\ SumOf(h, s) = h[x] + SumOf(h, t)
      BY <1>0, <3>1, <3>2, SumOfAny DEF IntsOn
    <3>4. PICK a, b, c, d :
             /\ a = f[x] /\ b = g[x] /\ c = SumOf(f, t) /\ d = SumOf(g, t)
             /\ a \in Int /\ b \in Int /\ c \in Int /\ d \in Int
      BY <1>0, <3>1, SumInt
    <3>5. SumOf(h, t) = c + m * d /\ h[x] = a + m * b
      BY <1>0, <1>1, <3>1, <3>4
    <3>6. (a + m * b) + (c + m * d) = (a + c) + m * (b + d)
      BY <3>4
    <3>7. SumOf(h, s) = SumOf(f, s) + m * SumOf(g, s)
      BY <3>3, <3>4, <3>5, <3>6
    <3> QED
      BY <3>7
  <2> QED
    BY <2>2, <2>3
<1>2. P \in SUBSET (SUBSET S)
  OBVIOUS
<1>3. P = SUBSET S
  <2> HIDE DEF P
  <2> QED
    BY <1>1, <1>2, SmallerSets
<1> QED
  BY <1>3

\* Sums grow with their terms.
LEMMA SumBelow ==
  ASSUME NEW S, IsFiniteSet(S), NEW f, NEW g,
         \A x \in S : f[x] \in Int /\ g[x] \in Int /\ f[x] <= g[x]
  PROVE  \A s \in SUBSET S : SumOf(f, s) <= SumOf(g, s)
<1> DEFINE P == {s \in SUBSET S : SumOf(f, s) <= SumOf(g, s)}
<1>1. ASSUME NEW s \in SUBSET S, \A x \in s : s \ {x} \in P PROVE s \in P
  <2>1. IsFiniteSet(s)
    BY FS_Subset
  <2>2. CASE s = {}
    <3>1. SumOf(f, {}) = 0 /\ SumOf(g, {}) = 0
      BY <2>1, SumOfFirst
    <3> QED
      BY <2>2, <3>1
  <2>3. CASE s # {}
    <3>1. PICK x, t : x \in s /\ t = s \ {x}
      BY <2>3
    <3>2. SumOf(f, s) = f[x] + SumOf(f, t) /\ SumOf(g, s) = g[x] + SumOf(g, t)
      BY <3>1, SumOfAny DEF IntsOn
    <3>3. PICK a, b, c, d :
             /\ a = f[x] /\ b = g[x] /\ c = SumOf(f, t) /\ d = SumOf(g, t)
             /\ a \in Int /\ b \in Int /\ c \in Int /\ d \in Int
      BY <3>1, SumInt
    <3>4. c <= d /\ a <= b
      BY <1>1, <3>1, <3>3
    <3>5. a + c <= b + d
      BY <3>3, <3>4
    <3> QED
      BY <3>2, <3>3, <3>5
  <2> QED
    BY <2>2, <2>3
<1>2. P \in SUBSET (SUBSET S)
  OBVIOUS
<1>3. P = SUBSET S
  <2> HIDE DEF P
  <2> QED
    BY <1>1, <1>2, SmallerSets
<1> QED
  BY <1>3

LEMMA SumConstant ==
  ASSUME NEW S, IsFiniteSet(S), NEW f, NEW c \in Int, \A x \in S : f[x] = c
  PROVE  \A s \in SUBSET S : SumOf(f, s) = c * Cardinality(s)
<1> DEFINE P == {s \in SUBSET S : SumOf(f, s) = c * Cardinality(s)}
<1>1. ASSUME NEW s \in SUBSET S, \A x \in s : s \ {x} \in P PROVE s \in P
  <2>1. IsFiniteSet(s) /\ Cardinality(s) \in Nat
    BY FS_Subset, FS_CardinalityType
  <2>2. CASE s = {}
    <3>1. SumOf(f, {}) = 0 /\ Cardinality({}) = 0
      BY <2>1, SumOfFirst, FS_EmptySet
    <3>2. SumOf(f, {}) = c * Cardinality({})
      BY <3>1
    <3> QED
      BY <2>2, <3>2
  <2>3. CASE s # {}
    <3>1. PICK x, t : x \in s /\ t = s \ {x}
      BY <2>3
    <3>2. SumOf(f, s) = f[x] + SumOf(f, t)
      BY <3>1, SumOfAny DEF IntsOn
    <3>3. SumOf(f, t) = c * Cardinality(t) /\ f[x] = c
      BY <1>1, <3>1
    <3>4. Cardinality(t) = Cardinality(s) - 1
      BY <2>1, <3>1, FS_RemoveElement
    <3>5. PICK n \in Nat : n = Cardinality(s)
      BY <2>1
    <3>6. c + c * (n - 1) = c * n
      BY <3>5
    <3>7. SumOf(f, s) = c * Cardinality(s)
      BY <3>2, <3>3, <3>4, <3>5, <3>6
    <3> QED
      BY <3>7
  <2> QED
    BY <2>2, <2>3
<1>2. P \in SUBSET (SUBSET S)
  OBVIOUS
<1>3. P = SUBSET S
  <2> HIDE DEF P
  <2> QED
    BY <1>1, <1>2, SmallerSets
<1> QED
  BY <1>3

\* What every two of a set take from each other adds up to nothing.
Exchanges(D, S) == \A x, y \in S : x # y => D[x][y] \in Int /\ D[y][x] = -D[x][y]
Totals(R, D, S) == \A s \in SUBSET S : \A x \in s : R[s][x] = SumOf(D[x], s \ {x})

LEMMA SumExchanged ==
  ASSUME NEW S, IsFiniteSet(S), NEW D, Exchanges(D, S), NEW R, Totals(R, D, S)
  PROVE  \A s \in SUBSET S : SumOf(R[s], s) = 0
<1> DEFINE P == {s \in SUBSET S : SumOf(R[s], s) = 0}
<1>takes. \A x, y \in S : x # y => D[x][y] \in Int /\ D[y][x] = -D[x][y]
  BY DEF Exchanges
<1>totals. \A s \in SUBSET S : \A x \in s : R[s][x] = SumOf(D[x], s \ {x})
  BY DEF Totals
<1>0. ASSUME NEW s \in SUBSET S, NEW x \in s PROVE R[s][x] \in Int
  <2>1. IsFiniteSet(s \ {x})
    BY FS_Subset
  <2>2. \A y \in s \ {x} : D[x][y] \in Int
    BY <1>takes
  <2>3. SumOf(D[x], s \ {x}) \in Int
    BY <2>1, <2>2, SumInt
  <2> QED
    BY <1>totals, <2>3
<1>1. ASSUME NEW s \in SUBSET S, \A x \in s : s \ {x} \in P PROVE s \in P
  <2>1. IsFiniteSet(s)
    BY FS_Subset
  <2>2. CASE s = {}
    <3>1. SumOf(R[s], {}) = 0
      BY <2>1, SumOfFirst
    <3> QED
      BY <2>2, <3>1
  <2>3. CASE s # {}
    <3>1. PICK x, t : x \in s /\ t = s \ {x}
      BY <2>3
    <3>2. t \in SUBSET S /\ IsFiniteSet(t) /\ t \in SUBSET t
      BY <3>1, <2>1, FS_Subset
    <3>3. SumOf(R[s], s) = R[s][x] + SumOf(R[s], t)
      <4>1. \A y \in s : R[s][y] \in Int
        BY <1>0
      <4> QED
        BY <2>1, <3>1, <4>1, SumOfAny DEF IntsOn
    <3>4. SumOf(R[t], t) = 0
      BY <1>1, <3>1
    <3>5. PICK col : col = [y \in t |-> D[y][x]]
      OBVIOUS
    <3>6. ASSUME NEW y \in t PROVE R[s][y] = R[t][y] + 1 * col[y] /\ R[t][y] \in Int /\ col[y] \in Int
      <4>1. y \in s /\ y # x /\ x \in s \ {y} /\ (s \ {y}) \ {x} = t \ {y}
        BY <3>1
      <4>2. R[t][y] = SumOf(D[y], t \ {y}) /\ R[s][y] = SumOf(D[y], s \ {y})
        BY <1>totals, <3>2, <4>1
      <4>3. SumOf(D[y], s \ {y}) = D[y][x] + SumOf(D[y], (s \ {y}) \ {x})
        <5>1. IsFiniteSet(s \ {y}) /\ \A z \in s \ {y} : D[y][z] \in Int
          BY <1>takes, <2>1, <4>1, FS_Subset
        <5> QED
          BY <4>1, <5>1, SumOfAny DEF IntsOn
      <4>4. R[t][y] \in Int /\ D[y][x] \in Int
        BY <1>0, <1>takes, <3>1, <3>2, <4>1
      <4>5. PICK a, b : a = R[t][y] /\ b = D[y][x]
        OBVIOUS
      <4>6. a \in Int /\ b \in Int /\ col[y] = b
        BY <3>5, <4>4, <4>5
      <4>7. R[s][y] = b + a
        BY <4>1, <4>2, <4>3, <4>5
      <4>8. b + a = a + 1 * b
        BY <4>6
      <4> QED
        BY <4>5, <4>6, <4>7, <4>8
    <3>7. SumOf(R[s], t) = SumOf(R[t], t) + 1 * SumOf(col, t)
      <4>1. \A y \in t : R[t][y] \in Int /\ col[y] \in Int /\ R[s][y] = R[t][y] + 1 * col[y]
        BY <3>6
      <4>2. Combines(R[s], R[t], 1, col, t)
        BY <4>1 DEF Combines
      <4> QED
        BY <3>2, <4>2, SumLinear
    <3>8. R[s][x] = SumOf(D[x], t)
      BY <1>totals, <3>1
    <3>9. PICK none : none = [y \in t |-> 0]
      OBVIOUS
    <3>10. SumOf(none, t) = 0
      <4>1. SumOf(none, t) = 0 * Cardinality(t)
        BY <3>2, <3>9, SumConstant
      <4> QED
        BY <3>2, <4>1, FS_CardinalityType
    <3>11. SumOf(none, t) = SumOf(D[x], t) + 1 * SumOf(col, t)
      <4>1. \A y \in t : D[x][y] \in Int /\ col[y] \in Int /\ none[y] = D[x][y] + 1 * col[y]
        BY <1>takes, <3>1, <3>5, <3>9
      <4>2. Combines(none, D[x], 1, col, t)
        BY <4>1 DEF Combines
      <4> QED
        BY <3>2, <4>2, SumLinear
    <3>12. SumOf(col, t) \in Int /\ SumOf(D[x], t) \in Int
      <4>1. \A y \in t : D[x][y] \in Int /\ col[y] \in Int
        BY <1>takes, <3>1, <3>5
      <4> QED
        BY <3>2, <4>1, SumInt
    <3>13. SumOf(R[s], s) = 0
      BY <3>3, <3>4, <3>7, <3>8, <3>10, <3>11, <3>12
    <3> QED
      BY <3>13
  <2> QED
    BY <2>2, <2>3
<1>2. P \in SUBSET (SUBSET S)
  OBVIOUS
<1>3. P = SUBSET S
  <2> HIDE DEF P
  <2> QED
    BY <1>1, <1>2, SmallerSets
<1> QED
  BY <1>3

-----------------------------------------------------------------------------
\* Elo.

LEMMA WinCounts ==
  ASSUME NEW delta \in Int
  PROVE  /\ Win(delta) = 2 + Cardinality({s \in WinSteps : delta <= s})
         /\ Draw(delta) = Cardinality({s \in DrawSteps : delta <= s})
BY DEF Win, Draw, Quantify

LEMMA StepsFinite ==
  /\ IsFiniteSet(WinSteps) /\ WinSteps \subseteq Int
  /\ IsFiniteSet(DrawSteps) /\ DrawSteps \subseteq Int
<1>1. PICK a, b : a = -400 /\ b = 400
  OBVIOUS
<1>2. a \in Int /\ b \in Int
  BY <1>1
<1>3. WinSteps \in SUBSET (a..b) /\ DrawSteps \in SUBSET (a..b)
  BY <1>1 DEF WinSteps, DrawSteps
<1>4. IsFiniteSet(a..b) /\ a..b \subseteq Int
  BY <1>2, FS_Interval
<1>5. IsFiniteSet(WinSteps) /\ IsFiniteSet(DrawSteps)
  BY <1>3, <1>4, FS_Subset
<1> QED
  BY <1>3, <1>4, <1>5

\* p() grows with the difference.
LEMMA StepsLeft ==
  ASSUME NEW S, IsFiniteSet(S), S \subseteq Int, NEW a \in Int, NEW b \in Int, a <= b
  PROVE  /\ Cardinality({s \in S : a <= s}) \in Nat /\ Cardinality({s \in S : b <= s}) \in Nat
         /\ Cardinality({s \in S : b <= s}) <= Cardinality({s \in S : a <= s})
<1>1. PICK A, B : A = {s \in S : a <= s} /\ B = {s \in S : b <= s}
  OBVIOUS
<1>2. A \in SUBSET S /\ B \in SUBSET A
  <2>1. \A s \in S : b <= s => a <= s
    <3>1. ASSUME NEW s \in S, b <= s PROVE a <= s
      <4>1. s \in Int
        OBVIOUS
      <4> QED
        BY <3>1, <4>1
    <3> QED
      BY <3>1
  <2> QED
    BY <1>1, <2>1
<1>3. IsFiniteSet(A) /\ IsFiniteSet(B)
  BY <1>2, FS_Subset
<1>4. Cardinality(A) \in Nat /\ Cardinality(B) \in Nat /\ Cardinality(B) <= Cardinality(A)
  BY <1>2, <1>3, FS_Subset, FS_CardinalityType
<1> QED
  BY <1>1, <1>4

LEMMA WinFalls ==
  ASSUME NEW a \in Int, NEW b \in Int, a <= b
  PROVE  /\ Win(a) \in Nat /\ Win(b) \in Nat /\ Win(b) <= Win(a) /\ 2 <= Win(b)
         /\ Draw(a) \in Nat /\ Draw(b) \in Nat /\ Draw(b) <= Draw(a)
<1>1. PICK wa, wb, ta, tb :
         /\ wa = Cardinality({s \in WinSteps : a <= s}) /\ wb = Cardinality({s \in WinSteps : b <= s})
         /\ ta = Cardinality({s \in DrawSteps : a <= s}) /\ tb = Cardinality({s \in DrawSteps : b <= s})
  OBVIOUS
<1>2. wa \in Nat /\ wb \in Nat /\ wb <= wa
  <2>1. PICK S : S = WinSteps
    OBVIOUS
  <2>2. IsFiniteSet(S) /\ S \subseteq Int
    BY <2>1, StepsFinite
  <2>3. /\ Cardinality({s \in S : a <= s}) \in Nat /\ Cardinality({s \in S : b <= s}) \in Nat
        /\ Cardinality({s \in S : b <= s}) <= Cardinality({s \in S : a <= s})
    BY <2>2, StepsLeft
  <2> QED
    BY <1>1, <2>1, <2>3
<1>3. ta \in Nat /\ tb \in Nat /\ tb <= ta
  <2>1. PICK S : S = DrawSteps
    OBVIOUS
  <2>2. IsFiniteSet(S) /\ S \subseteq Int
    BY <2>1, StepsFinite
  <2>3. /\ Cardinality({s \in S : a <= s}) \in Nat /\ Cardinality({s \in S : b <= s}) \in Nat
        /\ Cardinality({s \in S : b <= s}) <= Cardinality({s \in S : a <= s})
    BY <2>2, StepsLeft
  <2> QED
    BY <1>1, <2>1, <2>3
<1>4. Win(a) = 2 + wa /\ Win(b) = 2 + wb /\ Draw(a) = ta /\ Draw(b) = tb
  BY <1>1, WinCounts
<1> QED
  BY <1>2, <1>3, <1>4

\* Where the result of a win changes against a weaker player: as many times as
\* that of a draw.
WeakerSteps == {346, 288, 240, 200, 164, 130, 99, 70, 41, 13}

LEMMA StepsCounted ==
  /\ WeakerSteps \in SUBSET WinSteps /\ IsFiniteSet(WeakerSteps)
  /\ Cardinality(DrawSteps) <= 10 /\ 10 <= Cardinality(WeakerSteps)
<1>1. WeakerSteps \in SUBSET WinSteps
  BY DEF WeakerSteps, WinSteps
<1>2. IsFiniteSet(WeakerSteps)
  BY <1>1, StepsFinite, FS_Subset
<1>3. \A i \in 1..10 : \/ i = 1 \/ i = 2 \/ i = 3 \/ i = 4 \/ i = 5
                       \/ i = 6 \/ i = 7 \/ i = 8 \/ i = 9 \/ i = 10
  OBVIOUS
<1>4. Cardinality(DrawSteps) <= 10
  <2>1. PICK f : f = <<-28, -57, -86, -116, -148, -182, -220, -264, -316, -382>>
    OBVIOUS
  <2>2. /\ f[1] = -28 /\ f[2] = -57 /\ f[3] = -86 /\ f[4] = -116 /\ f[5] = -148
        /\ f[6] = -182 /\ f[7] = -220 /\ f[8] = -264 /\ f[9] = -316 /\ f[10] = -382
        /\ f = [i \in 1..10 |-> f[i]]
    BY <2>1
  <2>3. \A i \in 1..10 : f[i] \in DrawSteps
    BY <1>3, <2>2 DEF DrawSteps
  <2>4. \A s \in DrawSteps : \E i \in 1..10 : f[i] = s
    <3>1. \A s \in DrawSteps : \/ s = f[1] \/ s = f[2] \/ s = f[3] \/ s = f[4] \/ s = f[5]
                               \/ s = f[6] \/ s = f[7] \/ s = f[8] \/ s = f[9] \/ s = f[10]
      BY <2>2 DEF DrawSteps
    <3> QED
      BY <3>1
  <2>5. f \in Surjection(1..10, DrawSteps)
    BY <2>2, <2>3, <2>4 DEF Surjection
  <2> QED
    BY <2>5, FS_SurjCardinalityBound DEF ExistsSurjection
<1>5. 10 <= Cardinality(WeakerSteps)
  <2>1. PICK f : f = <<13, 41, 70, 99, 130, 164, 200, 240, 288, 346>>
    OBVIOUS
  <2>2. /\ f[1] = 13 /\ f[2] = 41 /\ f[3] = 70 /\ f[4] = 99 /\ f[5] = 130
        /\ f[6] = 164 /\ f[7] = 200 /\ f[8] = 240 /\ f[9] = 288 /\ f[10] = 346
        /\ f = [i \in 1..10 |-> f[i]]
    BY <2>1
  <2>3. \A i \in 1..10 : f[i] \in WeakerSteps
    BY <1>3, <2>2 DEF WeakerSteps
  <2>4. \A i, j \in 1..10 : f[i] = f[j] => i = j
    BY <1>3, <2>2
  <2>5. f \in Injection(1..10, WeakerSteps)
    BY <2>2, <2>3, <2>4 DEF Injection, IsInjective
  <2>6. Cardinality(1..10) = 10
    <3>1. PICK a, b : a = 1 /\ b = 10
      OBVIOUS
    <3>2. a \in Int /\ b \in Int /\ ~(a > b)
      BY <3>1
    <3>3. Cardinality(a..b) = b - a + 1
      BY <3>2, FS_Interval
    <3> QED
      BY <3>1, <3>3
  <2> QED
    BY <1>2, <2>5, <2>6, FS_Injection
<1> QED
  BY <1>1, <1>2, <1>4, <1>5

\* A win is never worth less than a draw.
LEMMA WinOverDraw ==
  ASSUME NEW delta \in Int PROVE Draw(delta) - Draw(-delta) <= Win(delta)
<1>1. -delta \in Int /\ Draw(-delta) \in Nat
  BY WinFalls
<1>2. Draw(delta) \in Nat /\ Win(delta) \in Nat
  BY WinFalls
<1>3. CASE delta >= 0
  <2>1. {s \in DrawSteps : delta <= s} = {}
    BY <1>3 DEF DrawSteps
  <2>2. Draw(delta) = 0
    BY <2>1, WinCounts, FS_EmptySet
  <2> QED
    BY <1>1, <1>2, <2>2
<1>4. CASE delta < 0
  <2>1. PICK A, B : A = {s \in WinSteps : delta <= s} /\ B = {s \in DrawSteps : delta <= s}
    OBVIOUS
  <2>2. WeakerSteps \in SUBSET A
    <3>1. \A s \in WeakerSteps : s \in WinSteps
      BY StepsCounted
    <3>2. \A s \in WeakerSteps : delta <= s
      BY <1>4 DEF WeakerSteps
    <3> QED
      BY <2>1, <3>1, <3>2
  <2>3. IsFiniteSet(A) /\ B \in SUBSET DrawSteps
    BY <2>1, StepsFinite, FS_Subset
  <2>4. Cardinality(WeakerSteps) <= Cardinality(A) /\ Cardinality(B) <= Cardinality(DrawSteps)
    BY <2>2, <2>3, StepsFinite, FS_Subset
  <2>5. /\ Cardinality(A) \in Nat /\ Cardinality(B) \in Nat
        /\ Cardinality(WeakerSteps) \in Nat /\ Cardinality(DrawSteps) \in Nat
    BY <2>3, StepsFinite, StepsCounted, FS_Subset, FS_CardinalityType
  <2>6. Cardinality(B) <= 2 + Cardinality(A)
    BY <2>4, <2>5, StepsCounted
  <2>7. Draw(delta) <= Win(delta)
    BY <2>1, <2>6, WinCounts
  <2> QED
    BY <1>1, <1>2, <2>7
<1> QED
  BY <1>3, <1>4

LEMMA DeltaInt ==
  ASSUME NEW e \in Int, NEW d \in Int, NEW ee \in Int, NEW dd \in Int
  PROVE  ComputeEloDelta(e, d, ee, dd) \in Int
<1>1. PICK delta : delta = ComputeEloDelta(e, d, ee, dd)
  OBVIOUS
<1>2. /\ d > dd => delta = Win(e - ee)
      /\ d < dd => delta = -Win(ee - e)
      /\ d = dd => delta = Draw(e - ee) - Draw(ee - e)
  BY <1>1 DEF ComputeEloDelta
<1>3. e - ee \in Int /\ ee - e \in Int
  OBVIOUS
<1>4. /\ Win(e - ee) \in Nat /\ Win(ee - e) \in Nat
      /\ Draw(e - ee) \in Nat /\ Draw(ee - e) \in Nat
  BY <1>3, WinFalls
<1> QED
  BY <1>1, <1>2, <1>4

\* What one takes the other loses.
LEMMA Exchanged ==
  ASSUME NEW e \in Int, NEW d \in Int, NEW ee \in Int, NEW dd \in Int
  PROVE  ComputeEloDelta(ee, dd, e, d) = -ComputeEloDelta(e, d, ee, dd)
<1>1. PICK a, b : a = ComputeEloDelta(e, d, ee, dd) /\ b = ComputeEloDelta(ee, dd, e, d)
  OBVIOUS
<1>2. /\ d > dd => a = Win(e - ee)
      /\ d < dd => a = -Win(ee - e)
      /\ d = dd => a = Draw(e - ee) - Draw(ee - e)
  BY <1>1 DEF ComputeEloDelta
<1>3. /\ dd > d => b = Win(ee - e)
      /\ dd < d => b = -Win(e - ee)
      /\ dd = d => b = Draw(ee - e) - Draw(e - ee)
  BY <1>1 DEF ComputeEloDelta
<1>4. PICK w, x, y, z : /\ w = Win(e - ee) /\ x = Win(ee - e)
                        /\ y = Draw(e - ee) /\ z = Draw(ee - e)
  OBVIOUS
<1>5. w \in Int /\ x \in Int /\ y \in Int /\ z \in Int
  <2>1. e - ee \in Int /\ ee - e \in Int
    OBVIOUS
  <2> QED
    BY <1>4, <2>1, WinFalls
<1>6. CASE d > dd
  BY <1>1, <1>2, <1>3, <1>4, <1>5, <1>6
<1>7. CASE d < dd
  BY <1>1, <1>2, <1>3, <1>4, <1>5, <1>7
<1>8. CASE d = dd
  BY <1>1, <1>2, <1>3, <1>4, <1>5, <1>8
<1> QED
  BY <1>6, <1>7, <1>8

\* Against the same opponent: p is not rated higher than q and progressed as
\* much or more.
LEMMA NeverLess ==
  ASSUME NEW p \in Int, NEW dp \in Int, NEW q \in Int, NEW dq \in Int,
         NEW e \in Int, NEW d \in Int, p <= q, dq <= dp
  PROVE  ComputeEloDelta(q, dq, e, d) <= ComputeEloDelta(p, dp, e, d)
<1>1. PICK a, b : a = ComputeEloDelta(p, dp, e, d) /\ b = ComputeEloDelta(q, dq, e, d)
  OBVIOUS
<1>2. PICK u, v, uu, vv : u = p - e /\ v = q - e /\ uu = e - p /\ vv = e - q
  OBVIOUS
<1>3. /\ u \in Int /\ v \in Int /\ uu \in Int /\ vv \in Int
      /\ u <= v /\ vv <= uu /\ -u = uu /\ -v = vv /\ -vv = v
  BY <1>2
<1>4. /\ dp > d => a = Win(u)
      /\ dp < d => a = -Win(uu)
      /\ dp = d => a = Draw(u) - Draw(uu)
  BY <1>1, <1>2 DEF ComputeEloDelta
<1>5. /\ dq > d => b = Win(v)
      /\ dq < d => b = -Win(vv)
      /\ dq = d => b = Draw(v) - Draw(vv)
  BY <1>1, <1>2 DEF ComputeEloDelta
<1>6. PICK wu, wv, wuu, wvv : wu = Win(u) /\ wv = Win(v) /\ wuu = Win(uu) /\ wvv = Win(vv)
  OBVIOUS
<1>7. PICK du, dv, duu, dvv : du = Draw(u) /\ dv = Draw(v) /\ duu = Draw(uu) /\ dvv = Draw(vv)
  OBVIOUS
<1>8. /\ wu \in Nat /\ wv \in Nat /\ wv <= wu
      /\ du \in Nat /\ dv \in Nat /\ dv <= du
  BY <1>3, <1>6, <1>7, WinFalls
<1>9. /\ wuu \in Nat /\ wvv \in Nat /\ wuu <= wvv
      /\ duu \in Nat /\ dvv \in Nat /\ duu <= dvv
  BY <1>3, <1>6, <1>7, WinFalls
<1>10. dv - dvv <= wv /\ dvv - dv <= wvv
  BY <1>3, <1>6, <1>7, WinOverDraw
<1>11. duu - du <= wuu
  <2>1. -uu = u
    BY <1>2
  <2> QED
    BY <1>3, <2>1, <1>6, <1>7, WinOverDraw
<1>12. CASE dq > d
  BY <1>1, <1>4, <1>5, <1>6, <1>8, <1>12
<1>13. CASE dq = d
  <2>1. CASE dp > d
    BY <1>1, <1>4, <1>5, <1>6, <1>7, <1>8, <1>9, <1>10, <1>13, <2>1
  <2>2. CASE dp = d
    BY <1>1, <1>4, <1>5, <1>7, <1>8, <1>9, <1>13, <2>2
  <2> QED
    BY <1>13, <2>1, <2>2
<1>14. CASE dq < d
  <2>1. CASE dp > d
    BY <1>1, <1>4, <1>5, <1>6, <1>8, <1>9, <1>14, <2>1
  <2>2. CASE dp = d
    BY <1>1, <1>4, <1>5, <1>6, <1>7, <1>8, <1>9, <1>11, <1>14, <2>2
  <2>3. CASE dp < d
    BY <1>1, <1>4, <1>5, <1>6, <1>9, <1>14, <2>3
  <2> QED
    BY <2>1, <2>2, <2>3
<1> QED
  BY <1>12, <1>13, <1>14

\* ... and against each other.
LEMMA NeverLoses ==
  ASSUME NEW p \in Int, NEW dp \in Int, NEW q \in Int, NEW dq \in Int, p <= q, dq <= dp
  PROVE  ComputeEloDelta(q, dq, p, dp) <= ComputeEloDelta(p, dp, q, dq)
<1>1. PICK a, b : a = ComputeEloDelta(p, dp, q, dq) /\ b = ComputeEloDelta(q, dq, p, dp)
  OBVIOUS
<1>2. b = -a
  BY <1>1, Exchanged
<1>3. PICK u, v : u = p - q /\ v = q - p
  OBVIOUS
<1>4. u \in Int /\ v \in Int /\ u <= v
  BY <1>3
<1>5. /\ dp > dq => a = Win(u)
      /\ dp = dq => a = Draw(u) - Draw(v)
  BY <1>1, <1>3 DEF ComputeEloDelta
<1>6. /\ Win(u) \in Nat /\ Draw(u) \in Nat /\ Draw(v) \in Nat /\ Draw(v) <= Draw(u)
  BY <1>4, WinFalls
<1>7. a \in Int /\ a >= 0
  BY <1>5, <1>6
<1> QED
  BY <1>1, <1>2, <1>7

-----------------------------------------------------------------------------
\* Averages.

LEMMA Shared ==
  ASSUME NEW a \in Nat, NEW m \in Nat \ {0}
  PROVE  /\ a \div m \in Nat /\ a % m \in 0..m - 1
         /\ a = m * (a \div m) + (a % m)
OBVIOUS

LEMMA Multiples ==
  ASSUME NEW m \in Nat, NEW k \in Nat, NEW n \in Nat, k < n
  PROVE  m * k + m <= m * n /\ m * k \in Nat /\ m * n \in Nat
<1>1. PICK d \in Nat : n = k + 1 + d
  <2>1. n - k - 1 \in Nat /\ n = k + 1 + (n - k - 1)
    OBVIOUS
  <2> QED
    BY <2>1
<1>2. m * n = m * k + m + m * d /\ m * d \in Nat /\ m * k \in Nat
  BY <1>1
<1> QED
  BY <1>2

\* The larger the total the larger the average.
LEMMA SharesGrow ==
  ASSUME NEW a \in Nat, NEW b \in Nat, NEW m \in Nat \ {0}, a <= b
  PROVE  a \div m <= b \div m
<1>1. PICK k, l, r, s : k = a \div m /\ l = b \div m /\ r = a % m /\ s = b % m
  OBVIOUS
<1>2. /\ k \in Nat /\ r \in 0..m - 1 /\ a = m * k + r
      /\ l \in Nat /\ s \in 0..m - 1 /\ b = m * l + s
  BY <1>1, Shared
<1>3. ASSUME l < k PROVE FALSE
  <2>1. m * l + m <= m * k /\ m * l \in Nat /\ m * k \in Nat
    BY <1>2, <1>3, Multiples
  <2>2. PICK x, y : x = m * l /\ y = m * k
    OBVIOUS
  <2> QED
    BY <1>2, <2>1, <2>2
<1> QED
  BY <1>1, <1>2, <1>3

LEMMA QuotientIs ==
  ASSUME NEW a \in Int, NEW m \in Nat \ {0}
  PROVE  /\ Quotient(a, m) \in Int
         /\ a - m * Quotient(a, m) <= m - 1
         /\ -(m - 1) <= a - m * Quotient(a, m)
<1>1. CASE a >= 0
  <2>0. a \in Nat
    BY <1>1
  <2>1. PICK k, r : k = a \div m /\ r = a % m
    OBVIOUS
  <2>2. k \in Nat /\ r \in 0..m - 1 /\ a = m * k + r
    BY <2>0, <2>1, Shared
  <2>3. Quotient(a, m) = k
    BY <1>1, <2>1 DEF Quotient
  <2>4. a - m * k = r
    <3>1. m * k \in Int
      BY <2>2
    <3> QED
      BY <2>2, <3>1
  <2> QED
    BY <2>2, <2>3, <2>4
<1>2. CASE a < 0
  <2>0. -a \in Nat
    BY <1>2
  <2>1. PICK k, r : k = (-a) \div m /\ r = (-a) % m
    OBVIOUS
  <2>2. k \in Nat /\ r \in 0..m - 1 /\ -a = m * k + r
    BY <2>0, <2>1, Shared
  <2>3. Quotient(a, m) = -k
    BY <1>2, <2>1 DEF Quotient
  <2>4. a - m * (-k) = -r
    <3>1. m * k \in Int /\ m * (-k) = -(m * k)
      BY <2>2
    <3> QED
      BY <2>2, <3>1
  <2> QED
    BY <2>2, <2>3, <2>4
<1> QED
  BY <1>1, <1>2

LEMMA QuotientGrows ==
  ASSUME NEW a \in Int, NEW b \in Int, NEW m \in Nat \ {0}, a <= b
  PROVE  Quotient(a, m) <= Quotient(b, m)
<1>1. CASE a >= 0
  <2>1. a \in Nat /\ b \in Nat /\ b >= 0
    BY <1>1
  <2> QED
    BY <1>1, <2>1, SharesGrow DEF Quotient
<1>2. CASE b < 0
  <2>1. -a \in Nat /\ -b \in Nat /\ -b <= -a /\ a < 0
    BY <1>2
  <2>2. (-b) \div m <= (-a) \div m /\ (-b) \div m \in Nat /\ (-a) \div m \in Nat
    BY <2>1, SharesGrow, Shared
  <2>3. Quotient(a, m) = -((-a) \div m) /\ Quotient(b, m) = -((-b) \div m)
    BY <1>2, <2>1 DEF Quotient
  <2> QED
    BY <2>2, <2>3
<1>3. CASE a < 0 /\ b >= 0
  <2>1. -a \in Nat /\ b \in Nat
    BY <1>3
  <2>2. (-a) \div m \in Nat /\ b \div m \in Nat
    BY <2>1, Shared
  <2>3. Quotient(a, m) = -((-a) \div m) /\ Quotient(b, m) = b \div m
    BY <1>3 DEF Quotient
  <2> QED
    BY <2>2, <2>3
<1> QED
  BY <1>1, <1>2, <1>3

LEMMA SumSame ==
  ASSUME NEW S, IsFiniteSet(S), NEW f, NEW g, \A x \in S : f[x] \in Int /\ g[x] = f[x]
  PROVE  SumOf(f, S) = SumOf(g, S)
<1>1. S \in SUBSET S
  OBVIOUS
<1>2. SumOf(f, S) \in Int /\ SumOf(g, S) \in Int
  BY <1>1, SumInt
<1>3. SumOf(f, S) <= SumOf(g, S) /\ SumOf(g, S) <= SumOf(f, S)
  BY <1>1, SumBelow
<1> QED
  BY <1>2, <1>3

\* What everyone takes from everyone else.
Taken(e, d) == [x \in Players |-> [y \in Players |-> ComputeEloDelta(e[x], d[x], e[y], d[y])]]

LEMMA Others ==
  ASSUME NEW p \in Players
  PROVE  /\ IsFiniteSet(Players \ {p})
         /\ Cardinality(Players) \in Nat /\ Cardinality(Players) - 1 \in Nat \ {0}
         /\ Cardinality(Players \ {p}) = Cardinality(Players) - 1
<1>1. IsFiniteSet(Players) /\ Cardinality(Players) > 1
  BY GamesAssumption DEF GamesAssumption
<1>2. Cardinality(Players) \in Nat
  BY <1>1, FS_CardinalityType
<1> QED
  BY <1>1, <1>2, FS_RemoveElement

LEMMA TakenInt ==
  ASSUME NEW e \in [Players -> Int], NEW d \in [Players -> Int],
         NEW x \in Players, NEW y \in Players
  PROVE  /\ Taken(e, d)[x][y] = ComputeEloDelta(e[x], d[x], e[y], d[y])
         /\ Taken(e, d)[x][y] \in Int /\ Taken(e, d)[y][x] = -Taken(e, d)[x][y]
<1>1. PICK a, b, s, t : a = e[x] /\ b = e[y] /\ s = d[x] /\ t = d[y]
  OBVIOUS
<1>2. a \in Int /\ b \in Int /\ s \in Int /\ t \in Int
  BY <1>1
<1>3. Taken(e, d)[x][y] = ComputeEloDelta(a, s, b, t) /\ Taken(e, d)[y][x] = ComputeEloDelta(b, t, a, s)
  BY <1>1 DEF Taken
<1>4. ComputeEloDelta(a, s, b, t) \in Int /\ ComputeEloDelta(b, t, a, s) = -ComputeEloDelta(a, s, b, t)
  <2>1. ComputeEloDelta(a, s, b, t) \in Int
    BY <1>2, DeltaInt
  <2>2. ComputeEloDelta(b, t, a, s) = -ComputeEloDelta(a, s, b, t)
    BY <1>2, Exchanged
  <2> QED
    BY <2>1, <2>2
<1> QED
  BY <1>1, <1>3, <1>4

LEMMA EloGainIs ==
  ASSUME NEW e \in [Players -> Int], NEW d \in [Players -> Int], NEW p \in Players
  PROVE  /\ SumOf(Taken(e, d)[p], Players \ {p}) \in Int
         /\ EloGain(p, Players, e, d)
              = Quotient(SumOf(Taken(e, d)[p], Players \ {p}), Cardinality(Players) - 1)
<1>1. PICK others, delta, row :
         /\ others = Players \ {p} /\ row = Taken(e, d)[p]
         /\ delta = [k \in others |-> ComputeEloDelta(e[p], d[p], e[k], d[k])]
  OBVIOUS
<1>2. IsFiniteSet(others) /\ Cardinality(others) = Cardinality(Players) - 1
  BY <1>1, Others
<1>3. EloGain(p, Players, e, d) = Quotient(SumOf(delta, others), Cardinality(others))
  BY <1>1 DEF EloGain, SumOf
<1>4. \A k \in others : row[k] \in Int /\ delta[k] = row[k]
  BY <1>1, TakenInt
<1>5. SumOf(row, others) = SumOf(delta, others)
  BY <1>2, <1>4, SumSame
<1>6. SumOf(row, others) \in Int
  BY <1>2, <1>4, SumInt
<1> QED
  BY <1>1, <1>2, <1>3, <1>5, <1>6

\* Everybody's gains.
LEMMA GainsConserved ==
  ASSUME NEW e \in [Players -> Int], NEW d \in [Players -> Int],
         NEW gains, gains = [p \in Players |-> EloGain(p, Players, e, d)]
  PROVE  /\ \A p \in Players : gains[p] \in Int
         /\ SumOf(gains, Players) \in Int
         /\ SumOf(gains, Players) < Cardinality(Players)
         /\ -SumOf(gains, Players) < Cardinality(Players)
<1>0. PICK n, m : n = Cardinality(Players) /\ m = n - 1
  OBVIOUS
<1>1. IsFiniteSet(Players) /\ n \in Nat /\ m \in Nat \ {0} /\ n = m + 1 /\ Players \in SUBSET Players
  <2>1. IsFiniteSet(Players) /\ n > 1
    BY <1>0, GamesAssumption DEF GamesAssumption
  <2> QED
    BY <1>0, <2>1, FS_CardinalityType
<1>2. PICK R : R = [s \in SUBSET Players |-> [x \in s |-> SumOf(Taken(e, d)[x], s \ {x})]]
  OBVIOUS
<1>3. SumOf(R[Players], Players) = 0
  <2>1. PICK D : D = Taken(e, d)
    OBVIOUS
  <2>2. \A x, y \in Players : x # y => D[x][y] \in Int /\ D[y][x] = -D[x][y]
    BY <2>1, TakenInt
  <2>3. \A s \in SUBSET Players : \A x \in s : R[s][x] = SumOf(D[x], s \ {x})
    BY <1>2, <2>1
  <2>4. IsFiniteSet(Players)
    BY <1>1
  <2>6. Exchanges(D, Players) /\ Totals(R, D, Players)
    BY <2>2, <2>3 DEF Exchanges, Totals
  <2>5. \A s \in SUBSET Players : SumOf(R[s], s) = 0
    BY <2>4, <2>6, SumExchanged
  <2> QED
    BY <1>1, <2>5
<1>4. PICK totals, rest : /\ totals = R[Players]
                          /\ rest = [p \in Players |-> totals[p] - m * gains[p]]
  OBVIOUS
<1>5. ASSUME NEW p \in Players
      PROVE  /\ totals[p] \in Int /\ gains[p] \in Int
             /\ rest[p] = totals[p] + (-m) * gains[p]
             /\ rest[p] \in Int /\ rest[p] <= m - 1 /\ -(m - 1) <= rest[p]
  <2>1. PICK t : t = SumOf(Taken(e, d)[p], Players \ {p})
    OBVIOUS
  <2>2. t \in Int /\ gains[p] = Quotient(t, m)
    <3>1. t \in Int /\ EloGain(p, Players, e, d) = Quotient(t, Cardinality(Players) - 1)
      BY <2>1, EloGainIs
    <3>2. gains[p] = EloGain(p, Players, e, d)
      OBVIOUS
    <3> QED
      BY <1>0, <3>1, <3>2
  <2>3. totals[p] = t
    BY <1>1, <1>2, <1>4, <2>1
  <2>4. PICK q : q = Quotient(t, m)
    OBVIOUS
  <2>5. q \in Int /\ t - m * q <= m - 1 /\ -(m - 1) <= t - m * q
    BY <1>1, <2>2, <2>4, QuotientIs
  <2>6. t - m * q \in Int /\ t - m * q = t + (-m) * q
    BY <1>1, <2>2, <2>5
  <2> QED
    BY <1>4, <2>2, <2>3, <2>4, <2>5, <2>6
<1>6. PICK total, left : total = SumOf(gains, Players) /\ left = SumOf(rest, Players)
  OBVIOUS
<1>7. total \in Int /\ left \in Int
  BY <1>1, <1>5, <1>6, SumInt
<1>8. left = 0 + (-m) * total
  <2>1. SumOf(rest, Players) = SumOf(totals, Players) + (-m) * SumOf(gains, Players)
    <3>1. PICK k \in Int : k = -m
      BY <1>1
    <3>2. \A p \in Players : totals[p] \in Int /\ gains[p] \in Int /\ rest[p] = totals[p] + k * gains[p]
      BY <1>5, <3>1
    <3>3. \A s \in SUBSET Players : SumOf(rest, s) = SumOf(totals, s) + k * SumOf(gains, s)
      <4>1. Combines(rest, totals, k, gains, Players)
        BY <3>2 DEF Combines
      <4> QED
        BY <1>1, <4>1, SumLinear
    <3> QED
      BY <1>1, <3>1, <3>3
  <2> QED
    BY <1>3, <1>4, <1>6, <2>1
<1>9. left <= (m - 1) * n /\ -(m - 1) * n <= left
  <2>1. PICK most, least : most = [p \in Players |-> m - 1] /\ least = [p \in Players |-> -(m - 1)]
    OBVIOUS
  <2>2. \A p \in Players : /\ rest[p] \in Int /\ most[p] \in Int /\ rest[p] <= most[p]
                           /\ least[p] \in Int /\ least[p] <= rest[p]
    BY <1>1, <1>5, <2>1
  <2>3. SumOf(rest, Players) <= SumOf(most, Players) /\ SumOf(least, Players) <= SumOf(rest, Players)
    BY <1>1, <2>2, SumBelow
  <2>4. SumOf(most, Players) = (m - 1) * n /\ SumOf(least, Players) = (-(m - 1)) * n
    <3>1. PICK c, cc : c = m - 1 /\ cc = -(m - 1)
      OBVIOUS
    <3>2. c \in Int /\ cc \in Int
      BY <1>1, <3>1
    <3>3. \A p \in Players : most[p] = c /\ least[p] = cc
      BY <2>1, <3>1
    <3>4. SumOf(most, Players) = c * n
      <4>1. \A s \in SUBSET Players : SumOf(most, s) = c * Cardinality(s)
        BY <1>1, <3>2, <3>3, SumConstant
      <4> QED
        BY <1>0, <1>1, <4>1
    <3>5. SumOf(least, Players) = cc * n
      <4>1. \A s \in SUBSET Players : SumOf(least, s) = cc * Cardinality(s)
        BY <1>1, <3>2, <3>3, SumConstant
      <4> QED
        BY <1>0, <1>1, <4>1
    <3> QED
      BY <3>1, <3>4, <3>5
  <2>5. (-(m - 1)) * n = -(m - 1) * n
    BY <1>1
  <2> QED
    BY <1>6, <2>3, <2>4, <2>5
<1>10. total < n /\ -total < n
  <2>1. (m - 1) * n < m * n
    BY <1>1
  <2>2. ASSUME n <= total PROVE FALSE
    <3>1. m * n <= m * total
      BY <1>1, <1>7, <2>2
    <3> QED
      BY <1>1, <1>7, <1>8, <1>9, <2>1, <3>1
  <2>3. ASSUME n <= -total PROVE FALSE
    <3>1. m * n <= m * (-total)
      BY <1>1, <1>7, <2>3
    <3> QED
      BY <1>1, <1>7, <1>8, <1>9, <2>1, <3>1
  <2> QED
    BY <1>1, <1>7, <2>2, <2>3
<1> QED
  BY <1>0, <1>5, <1>6, <1>7, <1>10

LEMMA GainsOrdered ==
  ASSUME NEW e \in [Players -> Int], NEW d \in [Players -> Int],
         NEW p \in Players, NEW q \in Players, d[q] <= d[p], e[p] <= e[q]
  PROVE  EloGain(q, Players, e, d) <= EloGain(p, Players, e, d)
<1>0. PICK D, S, T, n, m : /\ D = Taken(e, d) /\ S = Players \ {p} /\ T = Players \ {q}
                           /\ n = Cardinality(Players) /\ m = n - 1
  OBVIOUS
<1>1. m \in Nat \ {0}
  BY <1>0, Others
<1>2. /\ SumOf(D[p], S) \in Int /\ SumOf(D[q], T) \in Int
      /\ EloGain(p, Players, e, d) = Quotient(SumOf(D[p], S), m)
      /\ EloGain(q, Players, e, d) = Quotient(SumOf(D[q], T), m)
  BY <1>0, EloGainIs
<1>3. SumOf(D[q], T) <= SumOf(D[p], S)
  <2>1. CASE p = q
    BY <1>0, <1>2, <2>1
  <2>2. CASE p # q
    <3>1. PICK L : L = Players \ {p, q}
      OBVIOUS
    <3>2. /\ IsFiniteSet(S) /\ IsFiniteSet(T) /\ IsFiniteSet(L) /\ L \in SUBSET L
          /\ q \in S /\ L = S \ {q} /\ p \in T /\ L = T \ {p}
      <4>1. IsFiniteSet(Players)
        BY GamesAssumption DEF GamesAssumption
      <4> QED
        BY <1>0, <2>2, <3>1, <4>1, FS_Subset
    <3>3. \A x, y \in Players : D[x][y] \in Int /\ D[x][y] = ComputeEloDelta(e[x], d[x], e[y], d[y])
      BY <1>0, TakenInt
    <3>4. SumOf(D[p], S) = D[p][q] + SumOf(D[p], L)
      <4>1. \A y \in S : D[p][y] \in Int
        BY <1>0, <3>3
      <4>2. PICK f : f = D[p]
        OBVIOUS
      <4>3. IntsOn(f, S)
        BY <4>1, <4>2 DEF IntsOn
      <4>4. IsFiniteSet(S) /\ q \in S
        BY <3>2
      <4>5. SumOf(f, S) = f[q] + SumOf(f, S \ {q})
        BY <4>3, <4>4, SumWithout
      <4> QED
        BY <3>2, <4>2, <4>5
    <3>5. SumOf(D[q], T) = D[q][p] + SumOf(D[q], L)
      <4>1. \A y \in T : D[q][y] \in Int
        BY <1>0, <3>3
      <4>2. PICK f : f = D[q]
        OBVIOUS
      <4>3. IntsOn(f, T)
        BY <4>1, <4>2 DEF IntsOn
      <4>4. IsFiniteSet(T) /\ p \in T
        BY <3>2
      <4>5. SumOf(f, T) = f[p] + SumOf(f, T \ {p})
        BY <4>3, <4>4, SumWithout
      <4> QED
        BY <3>2, <4>2, <4>5
    <3>6. \A k \in L : D[p][k] \in Int /\ D[q][k] \in Int /\ D[q][k] <= D[p][k]
      <4>1. ASSUME NEW k \in L PROVE D[q][k] <= D[p][k]
        <5>1. k \in Players
          BY <3>1
        <5>2. PICK ep, dp, eq, dq, ek, dk : /\ ep = e[p] /\ dp = d[p] /\ eq = e[q] /\ dq = d[q]
                                            /\ ek = e[k] /\ dk = d[k]
          OBVIOUS
        <5>3. /\ ep \in Int /\ dp \in Int /\ eq \in Int /\ dq \in Int /\ ek \in Int /\ dk \in Int
              /\ ep <= eq /\ dq <= dp
          BY <5>1, <5>2
        <5>4. ComputeEloDelta(eq, dq, ek, dk) <= ComputeEloDelta(ep, dp, ek, dk)
          BY <5>3, NeverLess
        <5> QED
          BY <3>3, <5>1, <5>2, <5>4
      <4> QED
        BY <3>1, <3>3, <4>1
    <3>7. SumOf(D[q], L) <= SumOf(D[p], L)
      <4>1. \A s \in SUBSET L : SumOf(D[q], s) <= SumOf(D[p], s)
        BY <3>2, <3>6, SumBelow
      <4> QED
        BY <3>2, <4>1
    <3>8. D[q][p] <= D[p][q]
      <4>1. PICK ep, dp, eq, dq : ep = e[p] /\ dp = d[p] /\ eq = e[q] /\ dq = d[q]
        OBVIOUS
      <4>2. /\ ep \in Int /\ dp \in Int /\ eq \in Int /\ dq \in Int /\ ep <= eq /\ dq <= dp
        BY <4>1
      <4>3. ComputeEloDelta(eq, dq, ep, dp) <= ComputeEloDelta(ep, dp, eq, dq)
        BY <4>2, NeverLoses
      <4> QED
        BY <3>3, <4>1, <4>3
    <3>9. SumOf(D[p], L) \in Int /\ SumOf(D[q], L) \in Int
      <4>1. (\A k \in L : D[p][k] \in Int) /\ (\A k \in L : D[q][k] \in Int)
        BY <3>6
      <4> QED
        BY <3>2, <4>1, SumInt
    <3>10. D[p][q] \in Int /\ D[q][p] \in Int
      BY <3>3
    <3> QED
      BY <3>4, <3>5, <3>7, <3>8, <3>9, <3>10
  <2> QED
    BY <2>1, <2>2
<1> QED
  BY <1>1, <1>2, <1>3, QuotientGrows

-----------------------------------------------------------------------------
\* Whatever the answers.

\* Nobody was rated, or everybody was from the elo scores before the answer;
\* whether they were is what is_new_game() said of it.
GamesInv ==
    /\ elo \in [Players -> Int] /\ before \in [Players -> Int]
    /\ old \in [Players -> Scores] /\ new \in [Players -> Scores]
    /\ \/ elo = before
       \/ elo = [p \in Players |-> ComputeNewElo(p, Players, before, [i \in Players |-> new[i] - old[i]])]
    /\ answers \in Nat /\ (answers > 0 => (rated <=> ~IsNewGame(Players, old, new)))

LEMMA NewElosInt ==
  ASSUME NEW e \in [Players -> Int], NEW a \in [Players -> Scores], NEW b \in [Players -> Scores]
  PROVE  /\ [i \in Players |-> b[i] - a[i]] \in [Players -> Int]
         /\ [p \in Players |-> ComputeNewElo(p, Players, e, [i \in Players |-> b[i] - a[i]])]
              \in [Players -> Int]
<1>1. Scores \subseteq Int
  BY GamesAssumption DEF GamesAssumption
<1>2. PICK d : d = [i \in Players |-> b[i] - a[i]]
  OBVIOUS
<1>3. d \in [Players -> Int]
  <2>1. \A i \in Players : a[i] \in Int /\ b[i] \in Int
    BY <1>1
  <2>2. \A i \in Players : b[i] - a[i] \in Int
    BY <2>1
  <2> QED
    BY <1>2, <2>2
<1>4. \A p \in Players : EloGain(p, Players, e, d) \in Int
  <2>1. PICK gains : gains = [p \in Players |-> EloGain(p, Players, e, d)]
    OBVIOUS
  <2>2. \A p \in Players : gains[p] \in Int
    BY <1>3, <2>1, GainsConserved
  <2> QED
    BY <2>1, <2>2
<1>5. \A p \in Players : ComputeNewElo(p, Players, e, d) \in Int
  BY <1>4 DEF ComputeNewElo
<1> QED
  BY <1>2, <1>3, <1>5

LEMMA AlwaysRatedWhole == GamesSpec => []GamesInv
<1>1. GamesInit => GamesInv
  <2> SUFFICES ASSUME GamesInit PROVE GamesInv
    OBVIOUS
  <2>1. elo \in [Players -> Int]
    BY GamesAssumption DEF GamesInit, GamesAssumption
  <2>2. before = elo /\ new \in [Players -> Scores] /\ old = new /\ answers = 0
    BY DEF GamesInit
  <2> QED
    BY <2>1, <2>2 DEF GamesInv
<1>2. GamesInv /\ [GamesNext]_gamesVars => GamesInv'
  <2> SUFFICES ASSUME GamesInv, [GamesNext]_gamesVars PROVE GamesInv'
    OBVIOUS
  <2>1. CASE GamesNext
    <3>1. PICK scores \in [Players -> Scores] : Answer(scores)
      BY <2>1 DEF GamesNext
    <3>2. /\ old' = new /\ new' = scores /\ before' = elo /\ answers' = answers + 1
          /\ rated' = ~IsNewGame(Players, new, scores)
          /\ elo' = IF rated' THEN NewElos([p \in Players |-> scores[p] - new[p]]) ELSE elo
      BY <3>1 DEF Answer
    <3>3. PICK d : d = [i \in Players |-> scores[i] - new[i]]
      OBVIOUS
    <3>4. \/ elo' = elo
          \/ elo' = [p \in Players |-> ComputeNewElo(p, Players, elo, d)]
      BY <3>2, <3>3 DEF NewElos
    <3>5. [p \in Players |-> ComputeNewElo(p, Players, elo, d)] \in [Players -> Int]
      BY <3>3, NewElosInt DEF GamesInv
    <3>6. elo' \in [Players -> Int] /\ before' \in [Players -> Int]
      BY <3>2, <3>4, <3>5 DEF GamesInv
    <3>7. old' \in [Players -> Scores] /\ new' \in [Players -> Scores]
      BY <3>2 DEF GamesInv
    <3>8. \/ elo' = before'
          \/ elo' = [p \in Players |->
                       ComputeNewElo(p, Players, before', [i \in Players |-> new'[i] - old'[i]])]
      BY <3>2, <3>3, <3>4
    <3>9. answers' \in Nat
      BY <3>2 DEF GamesInv
    <3>10. rated' <=> ~IsNewGame(Players, old', new')
      BY <3>2
    <3> QED
      BY <3>6, <3>7, <3>8, <3>9, <3>10 DEF GamesInv
  <2>2. CASE UNCHANGED gamesVars
    BY <2>2 DEF GamesInv, gamesVars
  <2> QED
    BY <2>1, <2>2
<1> QED
  BY <1>1, <1>2, PTL DEF GamesSpec

\* What everybody gained: nothing, or what compute_new_elo() adds.
LEMMA Gained ==
  ASSUME GamesInv
  PROVE  \/ \A p \in Players : elo[p] = before[p]
         \/ \E d \in [Players -> Int] :
               \A p \in Players : /\ elo[p] = before[p] + EloGain(p, Players, before, d)
                                  /\ d[p] = new[p] - old[p]
<1>1. CASE elo = before
  BY <1>1
<1>2. CASE elo = [p \in Players |->
                    ComputeNewElo(p, Players, before, [i \in Players |-> new[i] - old[i]])]
  <2>1. PICK d : d = [i \in Players |-> new[i] - old[i]]
    OBVIOUS
  <2>2. d \in [Players -> Int]
    BY <2>1, NewElosInt DEF GamesInv
  <2>3. \A p \in Players : /\ elo[p] = before[p] + EloGain(p, Players, before, d)
                           /\ d[p] = new[p] - old[p]
    BY <1>2, <2>1 DEF ComputeNewElo
  <2> QED
    BY <2>2, <2>3
<1> QED
  BY <1>1, <1>2 DEF GamesInv

(***************************************************************************)
(* What two players take from each other cancels out, so that the totals   *)
(* of compute_new_elo() do: only what each division truncates, less than a *)
(* point, is created or destroyed.                                         *)
(***************************************************************************)
THEOREM AlwaysConserved == GamesSpec => []ConservedUpToRounding
<1>1. GamesInv => ConservedUpToRounding
  <2> SUFFICES ASSUME GamesInv PROVE ConservedUpToRounding
    OBVIOUS
  <2>1. PICK a, b, n : a = Total(elo) /\ b = Total(before) /\ n = Cardinality(Players)
    OBVIOUS
  <2>2. a = SumOf(elo, Players) /\ b = SumOf(before, Players)
    BY <2>1 DEF Total, SumOf
  <2>3. IsFiniteSet(Players) /\ n > 1 /\ n \in Nat /\ Players \in SUBSET Players
    BY <2>1, GamesAssumption, FS_CardinalityType DEF GamesAssumption
  <2>4. \A p \in Players : before[p] \in Int /\ elo[p] \in Int
    BY DEF GamesInv
  <2>5. a \in Int /\ b \in Int
    BY <2>2, <2>3, <2>4, SumInt
  <2>6. CASE \A p \in Players : elo[p] = before[p]
    <3>1. a = b
      BY <2>2, <2>3, <2>4, <2>6, SumSame
    <3> QED
      BY <2>1, <2>3, <2>5, <3>1 DEF ConservedUpToRounding, AbsDiff
  <2>7. CASE \E d \in [Players -> Int] :
               \A p \in Players : /\ elo[p] = before[p] + EloGain(p, Players, before, d)
                                  /\ d[p] = new[p] - old[p]
    <3>1. PICK d \in [Players -> Int] :
             \A p \in Players : elo[p] = before[p] + EloGain(p, Players, before, d)
      BY <2>7
    <3>2. PICK gains : gains = [p \in Players |-> EloGain(p, Players, before, d)]
      OBVIOUS
    <3>3. /\ \A p \in Players : gains[p] \in Int
          /\ SumOf(gains, Players) \in Int
          /\ SumOf(gains, Players) < n /\ -SumOf(gains, Players) < n
      <4>1. before \in [Players -> Int]
        BY DEF GamesInv
      <4> QED
        BY <2>1, <3>2, <4>1, GainsConserved
    <3>4. SumOf(elo, Players) = SumOf(before, Players) + 1 * SumOf(gains, Players)
      <4>1. PICK one \in Int : one = 1
        OBVIOUS
      <4>2. Combines(elo, before, one, gains, Players)
        <5>1. ASSUME NEW p \in Players
              PROVE  before[p] \in Int /\ gains[p] \in Int /\ elo[p] = before[p] + one * gains[p]
          <6>1. elo[p] = before[p] + gains[p]
            BY <3>1, <3>2
          <6>2. one * gains[p] = gains[p]
            BY <3>3, <4>1
          <6> QED
            BY <2>4, <3>3, <6>1, <6>2
        <5> QED
          BY <5>1 DEF Combines
      <4>3. \A s \in SUBSET Players : SumOf(elo, s) = SumOf(before, s) + one * SumOf(gains, s)
        BY <2>3, <4>2, SumLinear
      <4> QED
        BY <2>3, <4>1, <4>3
    <3>5. PICK g : g = SumOf(gains, Players)
      OBVIOUS
    <3>6. g \in Int /\ g < n /\ -g < n /\ a = b + g
      BY <2>2, <2>5, <3>3, <3>4, <3>5
    <3>7. AbsDiff(a, b) < n
      BY <2>3, <2>5, <3>6 DEF AbsDiff
    <3> QED
      BY <2>1, <3>7 DEF ConservedUpToRounding
  <2> QED
    BY <2>6, <2>7, Gained
<1> QED
  BY <1>1, AlwaysRatedWhole, PTL

(***************************************************************************)
(* compute_elo_delta() is worth as much or more, against every opponent,   *)
(* for who progressed as much or more and was not rated higher, although   *)
(* either may meet the other and its results are truncated.                *)
(***************************************************************************)
THEOREM AlwaysGainsMore == GamesSpec => []BetterUnderdogGainsMore
<1>1. GamesInv => BetterUnderdogGainsMore
  <2> SUFFICES ASSUME GamesInv, NEW p \in Players, NEW q \in Players,
                      Progress(p) >= Progress(q), before[p] <= before[q]
               PROVE  Gain(p) >= Gain(q)
    BY DEF BetterUnderdogGainsMore
  <2>1. /\ before \in [Players -> Int] /\ before[p] \in Int /\ before[q] \in Int
        /\ elo[p] \in Int /\ elo[q] \in Int
    BY DEF GamesInv
  <2>2. CASE \A i \in Players : elo[i] = before[i]
    BY <2>1, <2>2 DEF Gain
  <2>3. CASE \E d \in [Players -> Int] :
               \A i \in Players : /\ elo[i] = before[i] + EloGain(i, Players, before, d)
                                  /\ d[i] = new[i] - old[i]
    <3>1. PICK d \in [Players -> Int] :
             \A i \in Players : /\ elo[i] = before[i] + EloGain(i, Players, before, d)
                                /\ d[i] = new[i] - old[i]
      BY <2>3
    <3>2. d[p] \in Int /\ d[q] \in Int /\ d[q] <= d[p]
      BY <3>1 DEF Progress
    <3>3. PICK g, h : g = EloGain(p, Players, before, d) /\ h = EloGain(q, Players, before, d)
      OBVIOUS
    <3>4. h <= g
      BY <2>1, <3>2, <3>3, GainsOrdered
    <3>5. g \in Int /\ h \in Int
      <4>1. PICK gains : gains = [i \in Players |-> EloGain(i, Players, before, d)]
        OBVIOUS
      <4>2. \A i \in Players : gains[i] \in Int
        BY <2>1, <4>1, GainsConserved
      <4> QED
        BY <3>3, <4>1, <4>2
    <3>6. Gain(p) = g /\ Gain(q) = h
      <4>1. elo[p] = before[p] + g /\ elo[q] = before[q] + h
        BY <3>1, <3>3
      <4> QED
        BY <2>1, <3>5, <4>1 DEF Gain
    <3> QED
      BY <3>4, <3>5, <3>6
  <2> QED
    BY <2>2, <2>3, Gained
<1> QED
  BY <1>1, AlwaysRatedWhole, PTL

LEMMA AveragesApart ==
  ASSUME NEW a \in Nat, NEW b \in Nat, NEW n \in Nat \ {0}
  PROVE  /\ a - b >= 4 * n => (a \div n) - (b \div n) > 3
         /\ a - b <= 3 * n => ~((a \div n) - (b \div n) > 3)
<1>1. PICK x, y : x = a \div n /\ y = b \div n
  OBVIOUS
<1>2. x \in Nat /\ y \in Nat
  BY <1>1, Shared
<1>3. ASSUME a - b >= 4 * n PROVE x - y > 3
  <2>1. b + 4 * n \in Nat /\ b + 4 * n <= a
    BY <1>3
  <2>2. (b + 4 * n) \div n = y + 4
    BY <1>1
  <2>3. (b + 4 * n) \div n <= x
    BY <1>1, <2>1, SharesGrow
  <2> QED
    BY <1>2, <2>2, <2>3
<1>4. ASSUME a - b <= 3 * n PROVE ~(x - y > 3)
  <2>1. b + 3 * n \in Nat /\ a <= b + 3 * n
    BY <1>4
  <2>2. (b + 3 * n) \div n = y + 3
    BY <1>1
  <2>3. x <= (b + 3 * n) \div n
    BY <1>1, <2>1, SharesGrow
  <2> QED
    BY <1>2, <2>2, <2>3
<1> QED
  BY <1>1, <1>3, <1>4

LEMMA MoreOf ==
  ASSUME NEW gap \in Nat, NEW m \in Nat, NEW n \in Nat, m <= n
  PROVE  m * gap <= n * gap /\ m * gap \in Nat
<1>1. PICK k \in Nat : n = m + k
  <2>1. n - m \in Nat /\ n = m + (n - m)
    OBVIOUS
  <2> QED
    BY <2>1
<1>2. n * gap = m * gap + k * gap /\ k * gap \in Nat /\ m * gap \in Nat
  BY <1>1
<1> QED
  BY <1>2

LEMMA FloatExactNat == FloatExact \in Nat
BY WordsAssumption DEF WordsAssumption, FloatExact

\* What has no more than 24 bits becomes a float without being rounded.
LEMMA FloatIsExact == ASSUME NEW a \in Nat, a < FloatExact PROVE Float(a) = a
<1> DEFINE S == {u \in Ulps : a < FloatExact * u}
<1>1. 1 \in S /\ \A u \in S : u \in Nat /\ 1 <= u
  BY FloatExactNat DEF Ulps
<1>2. \A x \in S : (\A u \in S : x <= u) => x = 1
  <2> HIDE DEF S
  <2> QED
    BY <1>1
<1>3. Min(S) = 1
  <2> HIDE DEF S
  <2> QED
    BY <1>1, <1>2 DEF Min
<1>4. PICK ulp : ulp = Min(S)
  OBVIOUS
<1>5. Float(a) = ((a \div ulp) + IF \/ 2 * (a % ulp) > ulp
                                  \/ (2 * (a % ulp) = ulp /\ (a \div ulp) % 2 = 1)
                                  THEN 1 ELSE 0) * ulp
  BY <1>4 DEF Float
<1>6. a \div 1 = a /\ a % 1 = 0
  OBVIOUS
<1>7. Float(a) = (a + IF 2 * 0 > 1 \/ (2 * 0 = 1 /\ a % 2 = 1) THEN 1 ELSE 0) * 1
  BY <1>3, <1>4, <1>5, <1>6
<1> QED
  BY <1>7

LEMMA AverageIsExact ==
  ASSUME NEW n \in Nat \ {0}, NEW a \in Nat, a < Word, a < FloatExact * n
  PROVE  Average(a, n) = a \div n
<1>1. Unsigned(a) = a
  BY WordsAssumption DEF WordsAssumption, Unsigned
<1>2. a \div n \in Nat /\ (a \div n) * n <= a
  OBVIOUS
<1>3. PICK q : q = a \div n
  OBVIOUS
<1>4. q < FloatExact
  <2> SUFFICES ASSUME q >= FloatExact PROVE FALSE
    BY <1>2, <1>3, FloatExactNat
  <2>1. FloatExact * n <= q * n
    BY <1>2, <1>3, FloatExactNat, MoreOf
  <2> QED
    BY <1>2, <1>3, <2>1, FloatExactNat
<1> QED
  BY <1>1, <1>2, <1>3, <1>4, FloatIsExact DEF Average

(***************************************************************************)
(* is_new_game() never takes a drop of 4 points or more in the average for *)
(* the same game, nor one of 3 or less for another, however the averages   *)
(* are truncated, while the totals are not negative and the averages are   *)
(* less than the 2^24 from which a float rounds.                           *)
(***************************************************************************)
THEOREM AlwaysNewGame == GamesSpec => []DropIsNewGame
<1>1. GamesInv => DropIsNewGame
  <2> SUFFICES ASSUME GamesInv, answers > 0, Total(old) >= 0, Total(new) >= 0,
                      Total(old) < FloatExact * Cardinality(Players),
                      Total(new) < FloatExact * Cardinality(Players)
               PROVE  LET drop == Total(old) - Total(new)
                          n    == Cardinality(Players)
                      IN  /\ drop >= 4 * n => ~rated
                          /\ drop <= 3 * n => rated
    BY DEF DropIsNewGame
  <2>1. PICK a, b, n : a = Total(old) /\ b = Total(new) /\ n = Cardinality(Players)
    OBVIOUS
  <2>2. IsFiniteSet(Players) /\ n > 1 /\ n \in Nat \ {0} /\ Players \in SUBSET Players /\ Players # {}
    BY <2>1, GamesAssumption, FS_CardinalityType, FS_EmptySet DEF GamesAssumption
  <2>3. a \in Int /\ b \in Int
    <3>1. \A p \in Players : old[p] \in Int /\ new[p] \in Int
      BY GamesAssumption DEF GamesInv, GamesAssumption
    <3>2. a = SumOf(old, Players) /\ b = SumOf(new, Players)
      BY <2>1 DEF Total, SumOf
    <3> QED
      BY <2>2, <3>1, <3>2, SumInt
  <2>4. a \in Nat /\ b \in Nat
    BY <2>1, <2>3
  <2>5. Word \in Nat /\ a < Word /\ b < Word
    <3>1. old \in [Players -> Scores] /\ new \in [Players -> Scores]
      BY DEF GamesInv
    <3>2. 2 * a < Word /\ 2 * b < Word /\ Word \in Nat
      BY <2>1, <3>1, GamesAssumption, WordsAssumption DEF GamesAssumption, WordsAssumption
    <3> QED
      BY <2>4, <3>2
  <2>6. Average(a, n) = a \div n /\ Average(b, n) = b \div n
    <3>1. a < FloatExact * n /\ b < FloatExact * n
      BY <2>1
    <3> QED
      BY <2>2, <2>4, <2>5, <3>1, AverageIsExact
  <2>7. IsNewGame(Players, old, new) <=> (a \div n) - (b \div n) > 3
    <3>1. /\ MapThenSumSet(LAMBDA i : old[i], Players) = a
          /\ MapThenSumSet(LAMBDA i : new[i], Players) = b
      BY <2>1 DEF Total
    <3> QED
      BY <2>1, <2>2, <2>6, <3>1 DEF IsNewGame
  <2>8. rated <=> ~((a \div n) - (b \div n) > 3)
    BY <2>7 DEF GamesInv
  <2>9. /\ a - b >= 4 * n => ~rated
        /\ a - b <= 3 * n => rated
    BY <2>2, <2>4, <2>8, AveragesApart
  <2> QED
    BY <2>1, <2>9
<1> QED
  BY <1>1, AlwaysRatedWhole, PTL

-----------------------------------------------------------------------------
\* Arithmetic.

\* factor of best_axes_gap(), whenever its loop may stop.
LEMMA PowersOfTen == ASSUME NEW j \in 0..8 PROVE 10 ^ j \in Nat \ {0}
<1>0. CASE j = 0
  BY <1>0
<1>1. CASE j = 1
  BY <1>1
<1>2. CASE j = 2
  BY <1>2
<1>3. CASE j = 3
  BY <1>3
<1>4. CASE j = 4
  BY <1>4
<1>5. CASE j = 5
  BY <1>5
<1>6. CASE j = 6
  BY <1>6
<1>7. CASE j = 7
  BY <1>7
<1>8. CASE j = 8
  BY <1>8
<1> QED
  BY <1>0, <1>1, <1>2, <1>3, <1>4, <1>5, <1>6, <1>7, <1>8

LEMMA Products ==
  ASSUME NEW a \in Nat, NEW b \in Nat
  PROVE  a * b \in Nat /\ (a # 0 /\ b # 0 => a * b # 0)
OBVIOUS

LEMMA LeastOf ==
  ASSUME NEW S \in SUBSET Nat, S # {}
  PROVE  Min(S) \in S /\ \A x \in S : Min(S) <= x
BY LeastNatural DEF Min

LEMMA GreatestOf ==
  ASSUME NEW n \in Nat, NEW S \in SUBSET (0..n), S # {}
  PROVE  Max(S) \in S /\ \A x \in S : x <= Max(S)
<1> DEFINE T == {n - x : x \in S}
<1>1. T \in SUBSET Nat /\ T # {}
  <2>1. \A x \in S : n - x \in Nat
    OBVIOUS
  <2> QED
    BY <2>1
<1>2. PICK y \in T : \A z \in T : y <= z
  <2> HIDE DEF T
  <2> QED
    BY <1>1, LeastNatural
<1>3. PICK x \in S : y = n - x
  OBVIOUS
<1>4. ASSUME NEW z \in S PROVE z <= x
  <2>1. n - x <= n - z
    BY <1>2, <1>3
  <2> QED
    BY <2>1
<1> QED
  BY <1>4 DEF Max

\* A least and a greatest of integers.
LEMMA BoundsOf ==
  ASSUME NEW n \in Nat, NEW S \in SUBSET (-n..n), S # {}
  PROVE  /\ Min(S) \in S /\ \A x \in S : Min(S) <= x
         /\ Max(S) \in S /\ \A x \in S : x <= Max(S)
<1> DEFINE T == {n + x : x \in S}
           U == {n - x : x \in S}
<1>1. T \in SUBSET Nat /\ T # {} /\ U \in SUBSET Nat /\ U # {}
  <2>1. \A x \in S : n + x \in Nat /\ n - x \in Nat
    OBVIOUS
  <2> QED
    BY <2>1
<1>2. (\E y \in T : \A z \in T : y <= z) /\ (\E y \in U : \A z \in U : y <= z)
  <2> HIDE DEF T, U
  <2> QED
    BY <1>1, LeastNatural
<1>3. PICK low \in S : \A z \in T : n + low <= z
  BY <1>2
<1>4. PICK high \in S : \A z \in U : n - high <= z
  BY <1>2
<1>5. ASSUME NEW z \in S PROVE low <= z /\ z <= high
  <2>1. n + low <= n + z /\ n - high <= n - z
    BY <1>3, <1>4
  <2> QED
    BY <2>1
<1>6. Min(S) \in S /\ \A x \in S : Min(S) <= x
  BY <1>5 DEF Min
<1>7. Max(S) \in S /\ \A x \in S : x <= Max(S)
  BY <1>5 DEF Max
<1> QED
  BY <1>6, <1>7

\* The two ways in which the minimum is rounded: number_of_axes() counts from
\* at most where the scale begins, which is no more than the minimum unless
\* the minimum is negative, and is never a gap more.
LEMMA RoundedBoth ==
  ASSUME NEW y \in Int, y < Word, NEW gap \in Nat \ {0}
  PROVE  /\ CountedFrom(y, gap) \in Int
         /\ CountedFrom(y, gap) <= y /\ y < CountedFrom(y, gap) + gap
         /\ Rounded(y, gap) \in Int /\ CountedFrom(y, gap) <= Rounded(y, gap)
         /\ y < 0 \/ Rounded(y, gap) <= y
         /\ Rounded(y, gap) < y + gap
<1>1. PICK u : u = Unsigned(y)
  OBVIOUS
<1>2. u \in Nat
  BY <1>1, WordsAssumption DEF WordsAssumption, Unsigned
<1>3. u % gap \in 0..(gap - 1)
  BY <1>2
<1>4. CountedFrom(y, gap) = y - (u % gap)
  BY <1>1 DEF CountedFrom
<1>5. /\ CountedFrom(y, gap) \in Int
      /\ CountedFrom(y, gap) <= y /\ y < CountedFrom(y, gap) + gap
  <2>1. PICK k : k = u % gap
    OBVIOUS
  <2> QED
    BY <1>3, <1>4, <2>1
<1>6. CASE y >= 0
  <2>1. u = y
    BY <1>1, <1>6, WordsAssumption DEF WordsAssumption, Unsigned
  <2>2. y \in Nat /\ gap * (y \div gap) = y - (y % gap)
    BY <1>6
  <2>3. Rounded(y, gap) = y - (y - gap * (y \div gap))
    BY <1>6 DEF Rounded, Remainder, Quotient
  <2>4. PICK k : k = y % gap
    OBVIOUS
  <2>5. Rounded(y, gap) = y - k /\ CountedFrom(y, gap) = y - k /\ k \in 0..(gap - 1)
    BY <1>3, <1>4, <2>1, <2>2, <2>3, <2>4
  <2> QED
    BY <1>5, <2>5
<1>7. CASE y < 0
  <2>1. PICK x, q : x = -y /\ q = x \div gap
    OBVIOUS
  <2>2. x \in Nat
    BY <1>7, <2>1
  <2>3. q \in Nat /\ q * gap \in Nat /\ q * gap <= x /\ x < q * gap + gap
    <3>1. q * gap = x - (x % gap) /\ x % gap \in 0..(gap - 1) /\ q \in Nat
      BY <2>1, <2>2
    <3>2. q * gap \in Nat
      BY <3>1
    <3> QED
      BY <2>2, <3>1, <3>2
  <2>4. Rounded(y, gap) = y - (y - gap * (-q))
    BY <1>7, <2>1 DEF Rounded, Remainder, Quotient
  <2>5. gap * (-q) = -(q * gap)
    BY <2>3
  <2>6. PICK m : m = q * gap
    OBVIOUS
  <2>7. Rounded(y, gap) = -m /\ m \in Nat /\ m <= x /\ x < m + gap
    BY <2>3, <2>4, <2>5, <2>6
  <2>8. Rounded(y, gap) \in Int /\ y <= Rounded(y, gap) /\ Rounded(y, gap) < y + gap
    BY <2>1, <2>7
  <2> QED
    BY <1>5, <1>7, <2>8
<1> QED
  BY <1>6, <1>7

LEMMA Divided ==
  ASSUME NEW y \in Nat, NEW gap \in Nat \ {0}
  PROVE  y \div gap \in Nat /\ y < (y \div gap + 1) * gap
OBVIOUS

-----------------------------------------------------------------------------
\* The axes of a curve.

LEMMA CandidatesPositive == ASSUME NEW k \in Gaps PROVE Candidate(k) \in Nat \ {0}
<1>1. k \div 3 \in 0..8 /\ k % 3 \in 0..2
  BY DEF Gaps
<1>2. 10 ^ (k \div 3) \in Nat \ {0}
  BY <1>1, PowersOfTen
<1>3. <<1, 2, 5>>[(k % 3) + 1] \in Nat \ {0}
  BY <1>1
<1> QED
  BY <1>2, <1>3, Products DEF Candidate

\* The loop ends at a candidate, and the one before is taken.
LEMMA GapPositive ==
  ASSUME NEW range \in 0..MaxRange PROVE BestAxesGap(range) \in Nat \ {0}
<1> DEFINE S == {k \in Gaps : ~DoesFit(range, Candidate(k))}
<1>1. 26 \in Gaps /\ Candidate(26) \in Nat
  BY CandidatesPositive DEF Gaps
<1>2. 26 \in S
  BY <1>1 DEF DoesFit, MinNaxes, MaxRange
<1>3. Min(S) \in Gaps
  <2>1. S \in SUBSET Nat /\ S # {} /\ S \subseteq Gaps
    BY <1>2 DEF Gaps
  <2> HIDE DEF S
  <2> QED
    BY <2>1, LeastOf
<1>4. CASE Min(S) = 0
  BY <1>4 DEF BestAxesGap
<1>5. CASE Min(S) # 0
  <2>1. Min(S) - 1 \in Gaps
    BY <1>3, <1>5 DEF Gaps
  <2>2. BestAxesGap(range) = Candidate(Min(S) - 1)
    BY <1>5 DEF BestAxesGap
  <2> QED
    BY <2>1, <2>2, CandidatesPositive
<1> QED
  BY <1>4, <1>5

\* Enough axes are counted for the maximum to be within a gap of the last.
LEMMA AxesEnough ==
  ASSUME NEW min \in Int, NEW max \in Int, min <= max, min < Word, NEW gap \in Nat \ {0},
         NEW n, n = NumberOfAxes(min, max, gap)
  PROVE  n \in Nat /\ n >= MinNaxes /\ max <= CountedFrom(min, gap) + (n + 1) * gap
<1> DEFINE r == CountedFrom(min, gap)
           q == (max - min) \div gap
           S == {m \in MinNaxes..(MinNaxes + 1 + q) : r + m * gap >= max}
<1>1. r \in Int /\ r <= min /\ min < r + gap
  BY RoundedBoth
<1>2. q \in Nat /\ max - min < (q + 1) * gap
  <2>1. max - min \in Nat
    OBVIOUS
  <2> QED
    BY <2>1, Divided
<1>3. MinNaxes + 1 + q \in S
  <2>1. (MinNaxes + 1 + q) * gap = (q + 1) * gap + 3 * gap
    BY <1>2 DEF MinNaxes
  <2> HIDE DEF r, q
  <2>2. r + (q + 1) * gap + 3 * gap >= max
    BY <1>1, <1>2
  <2>3. r + (MinNaxes + 1 + q) * gap >= max
    BY <1>1, <1>2, <2>1, <2>2
  <2> QED
    BY <1>2, <2>3 DEF MinNaxes
<1>4. S \in SUBSET Nat
  BY <1>2 DEF MinNaxes
<1>5. PICK m \in S : m = Min(S)
  <2> HIDE DEF S
  <2> QED
    BY <1>3, <1>4, LeastOf
<1>6. m \in Nat /\ m >= 3 /\ r + m * gap >= max
  BY <1>2, <1>5 DEF MinNaxes
<1>7. n = Max({m - 1, 3})
  BY <1>5 DEF NumberOfAxes, MinNaxes
<1>8. n \in {m - 1, 3} /\ n >= 3 /\ n >= m - 1
  <2>1. {m - 1, 3} \in SUBSET (0..m) /\ {m - 1, 3} # {}
    BY <1>6
  <2> QED
    BY <1>6, <1>7, <2>1, GreatestOf
<1>9. (n + 1) * gap >= m * gap
  <2>1. \E k \in Nat : n + 1 = m + k
    <3>1. n + 1 - m \in Nat /\ n + 1 = m + (n + 1 - m)
      BY <1>6, <1>8
    <3> QED
      BY <3>1
  <2>2. PICK k \in Nat : n + 1 = m + k
    BY <2>1
  <2>3. (n + 1) * gap = m * gap + k * gap /\ k * gap \in Nat
    BY <1>6, <2>2
  <2> QED
    BY <1>6, <2>3
<1> HIDE DEF r
<1>10. n \in Nat /\ n >= MinNaxes /\ max <= r + (n + 1) * gap
  BY <1>1, <1>6, <1>8, <1>9 DEF MinNaxes
<1> QED
  BY <1>10 DEF r

-----------------------------------------------------------------------------
\* The curves.

\* A dataset of the records of a player.
IsDataset(ds) == /\ ds.values \in Seq(Int) /\ ds.values # <<>>
                 /\ ds.min \in Int /\ ds.max \in Int
                 /\ ds.min < Word /\ ds.max - ds.min \in 0..MaxRange
                 /\ \A i \in 1..Len(ds.values) : /\ ds.min <= ds.values[i]
                                                 /\ ds.values[i] <= ds.max

\* The curve c of a dataset, on a graph of naxes axes: there is a gap between
\* two axes and beside the first and the last, and no value is outside but
\* negative ones, by less than a gap.
Spans(c, naxes) == /\ IsDataset(c.ds)
                   /\ naxes \in Nat /\ naxes >= MinNaxes
                   /\ c.gap \in Nat \ {0} /\ c.ymin \in Int
                   /\ c.ymax = c.ymin + (naxes + 1) * c.gap
                   /\ c.ds.max <= c.ymax
                   /\ c.ds.min < 0 \/ c.ymin <= c.ds.min
                   /\ c.ymin < c.ds.min + c.gap

LEMMA RangePositive == MaxRange \in Nat
<1>1. 26 \in Gaps /\ Candidate(26) \in Nat
  BY CandidatesPositive DEF Gaps
<1> QED
  BY <1>1 DEF MaxRange, MinNaxes

LEMMA DatasetBounds ==
  ASSUME NEW V \in SUBSET (-MaxRange..MaxRange),
         \A low, high \in V : high - low <= MaxRange, \A y \in V : y < Word,
         NEW values \in Seq(V), values # <<>>
  PROVE  IsDataset(Dataset(values)) /\ Dataset(values).values = values
<1> DEFINE S == ToSet(values)
<1>1. S = {values[i] : i \in 1..Len(values)} /\ S \subseteq V
  BY ElementsIn
<1>2. 1 \in 1..Len(values)
  OBVIOUS
<1>3. S # {}
  BY <1>1, <1>2
<1>4. S \in SUBSET (-MaxRange..MaxRange) /\ V \subseteq Int
  <2>1. V \subseteq -MaxRange..MaxRange
    OBVIOUS
  <2>2. PICK m \in Nat : m = MaxRange
    BY RangePositive
  <2>3. -m..m \subseteq Int
    OBVIOUS
  <2> HIDE DEF S
  <2> QED
    BY <1>1, <2>1, <2>2, <2>3
<1>5. /\ Min(S) \in S /\ \A x \in S : Min(S) <= x
      /\ Max(S) \in S /\ \A x \in S : x <= Max(S)
  <2> HIDE DEF S
  <2> QED
    BY <1>1, <1>3, <1>4, RangePositive, BoundsOf
<1>6. Dataset(values) = [values |-> values, min |-> Min(S), max |-> Max(S)]
  BY DEF Dataset
<1>7. \A i \in 1..Len(values) : values[i] \in S
  BY <1>1
<1> HIDE DEF S
<1>8. PICK ds : ds = Dataset(values)
  OBVIOUS
<1>9. ds.values = values /\ ds.min = Min(S) /\ ds.max = Max(S)
  BY <1>6, <1>8
<1>10. IsDataset(ds)
  <2>1. ds.min \in V /\ ds.max \in V /\ ds.min <= ds.max
    BY <1>1, <1>5, <1>9
  <2>2. ds.min \in Int /\ ds.max \in Int /\ ds.min < Word /\ ds.max - ds.min \in 0..MaxRange
    <3>1. PICK low, high : low = ds.min /\ high = ds.max
      OBVIOUS
    <3>2. low \in V /\ high \in V /\ low \in Int /\ high \in Int /\ low <= high
      BY <1>4, <2>1, <3>1
    <3>3. high - low <= MaxRange /\ low < Word
      BY <3>2
    <3>4. high - low \in 0..MaxRange
      BY <3>2, <3>3, RangePositive
    <3> QED
      BY <3>1, <3>2, <3>3, <3>4
  <2>3. values \in Seq(Int)
    <3>1. PICK m \in Nat : values \in [1..m -> V]
      BY SeqDef
    <3>2. values \in [1..m -> Int]
      BY <1>4, <3>1
    <3> QED
      BY <3>2, SeqDef
  <2> QED
    BY <1>5, <1>7, <1>9, <2>2, <2>3 DEF IsDataset
<1> QED
  BY <1>8, <1>9, <1>10

\* The gaps that scale_curve() adds at the top and at the bottom.
LEMMA OddGap ==
  ASSUME NEW more \in Nat
  PROVE  /\ more \div 2 \in Nat /\ more % 2 \in Nat
         /\ (more \div 2) + (more \div 2) + (more % 2) = more
OBVIOUS

LEMMA MoreGaps ==
  ASSUME NEW gap \in Nat, NEW n \in Nat, NEW top \in Nat, NEW bottom \in Nat,
         NEW ymin \in Int
  PROVE  /\ ymin + (n + 1) * gap + top * gap
              = ymin - bottom * gap + (n + (top + bottom) + 1) * gap
         /\ top * gap \in Nat /\ bottom * gap \in Nat
OBVIOUS

LEMMA ScaledSpans ==
  ASSUME NEW c, NEW naxes, Spans(c, naxes), NEW more \in Nat,
         c = [ds |-> c.ds, reversed |-> c.reversed, gap |-> c.gap, top |-> c.top,
              bottom |-> c.bottom, ymin |-> c.ymin, ymax |-> c.ymax],
         NEW scaled, scaled = ScaleCurve(c, more)
  PROVE  Spans(scaled, naxes + more) /\ scaled.ds = c.ds /\ scaled.reversed = c.reversed
<1> DEFINE half      == more \div 2
           remainder == more % 2
<1>1. PICK top, bottom :
         /\ top = IF c.top = c.bottom THEN half + remainder ELSE half
         /\ bottom = IF c.top = c.bottom THEN half ELSE half + remainder
  OBVIOUS
<1>2. scaled = [c EXCEPT !.top = @ + top, !.bottom = @ + bottom,
                         !.ymin = @ - bottom * c.gap, !.ymax = @ + top * c.gap]
  BY <1>1 DEF ScaleCurve
<1>3. top \in Nat /\ bottom \in Nat /\ top + bottom = more
  <2>1. half \in Nat /\ remainder \in Nat /\ half + half + remainder = more
    BY OddGap
  <2> HIDE DEF half, remainder
  <2> QED
    BY <1>1, <2>1
<1>4. /\ scaled.ds = c.ds /\ scaled.reversed = c.reversed /\ scaled.gap = c.gap
      /\ scaled.ymin = c.ymin - bottom * c.gap /\ scaled.ymax = c.ymax + top * c.gap
  BY <1>2
<1>5. /\ c.ymax + top * c.gap = c.ymin - bottom * c.gap + (naxes + more + 1) * c.gap
      /\ top * c.gap \in Nat /\ bottom * c.gap \in Nat
  BY <1>3, MoreGaps DEF Spans
<1>6. Spans(scaled, naxes + more)
  <2> DEFINE t == top * c.gap
             b == bottom * c.gap
  <2>1. /\ t \in Nat /\ b \in Nat
        /\ scaled.ymin = c.ymin - b /\ scaled.ymax = c.ymax + t
    BY <1>4, <1>5
  <2>2. /\ c.ymin \in Int /\ c.ds.min \in Int /\ c.ds.max \in Int /\ c.ymax \in Int
        /\ c.ds.max <= c.ymax
        /\ c.ds.min < 0 \/ c.ymin <= c.ds.min
        /\ c.gap \in Nat /\ c.ymin < c.ds.min + c.gap
    BY DEF Spans, IsDataset
  <2>3. scaled.ymax = scaled.ymin + (naxes + more + 1) * scaled.gap
    BY <1>4, <1>5
  <2>4. naxes + more \in Nat /\ naxes + more >= MinNaxes
    BY DEF Spans, MinNaxes
  <2> HIDE DEF t, b
  <2>5. /\ scaled.ymin \in Int /\ c.ds.max <= scaled.ymax
        /\ c.ds.min < 0 \/ scaled.ymin <= c.ds.min
        /\ scaled.ymin < c.ds.min + c.gap
    BY <2>1, <2>2
  <2> QED
    BY <1>4, <2>3, <2>4, <2>5 DEF Spans
<1> QED
  BY <1>4, <1>6

\* The gap and the axes a curve wants.
LEMMA CurveWants ==
  ASSUME NEW ds, IsDataset(ds), NEW gap, gap = BestAxesGap(ds.max - ds.min),
         NEW n, n = NumberOfAxes(ds.min, ds.max, gap)
  PROVE  /\ ds.min \in Int /\ ds.max \in Int
         /\ gap \in Nat \ {0} /\ n \in Nat \ {0} /\ n >= MinNaxes
         /\ Rounded(ds.min, gap) \in Int
         /\ ds.min < 0 \/ Rounded(ds.min, gap) <= ds.min
         /\ Rounded(ds.min, gap) < ds.min + gap
         /\ ds.max <= Rounded(ds.min, gap) + (n + 1) * gap
<1>1. /\ ds.min \in Int /\ ds.max \in Int /\ ds.min <= ds.max /\ ds.min < Word
      /\ ds.max - ds.min \in 0..MaxRange
  BY RangePositive DEF IsDataset
<1>2. gap \in Nat \ {0}
  BY <1>1, GapPositive
<1>3. n \in Nat /\ n >= MinNaxes /\ ds.max <= CountedFrom(ds.min, gap) + (n + 1) * gap
  BY <1>1, <1>2, AxesEnough
<1>4. /\ CountedFrom(ds.min, gap) \in Int /\ Rounded(ds.min, gap) \in Int
      /\ CountedFrom(ds.min, gap) <= Rounded(ds.min, gap)
      /\ ds.min < 0 \/ Rounded(ds.min, gap) <= ds.min
      /\ Rounded(ds.min, gap) < ds.min + gap
  BY <1>1, <1>2, RoundedBoth
<1>5. ds.max <= Rounded(ds.min, gap) + (n + 1) * gap
  <2>1. PICK counted, from, m :
          counted = CountedFrom(ds.min, gap) /\ from = Rounded(ds.min, gap) /\ m = (n + 1) * gap
    OBVIOUS
  <2>2. m \in Nat
    BY <1>2, <1>3, <2>1
  <2>3. counted \in Int /\ from \in Int /\ counted <= from /\ ds.max <= counted + m
    BY <1>3, <1>4, <2>1
  <2>4. ds.max <= from + m
    BY <1>1, <2>2, <2>3
  <2> QED
    BY <2>1, <2>4
<1> QED
  BY <1>1, <1>2, <1>3, <1>4, <1>5 DEF MinNaxes

\* What add_curve() adds, on a graph that has the axes the curve wants or more.
LEMMA AddedSpans ==
  ASSUME NEW ds, IsDataset(ds), NEW gap, gap = BestAxesGap(ds.max - ds.min),
         NEW n, n = NumberOfAxes(ds.min, ds.max, gap), NEW naxes \in Nat, n <= naxes,
         NEW c, c.ds = ds, c.gap = gap, c.ymin = Rounded(ds.min, gap),
         c.ymax = c.ymin + (naxes + 1) * gap
  PROVE  Spans(c, naxes)
<1>1. /\ ds.min \in Int /\ ds.max \in Int
      /\ gap \in Nat \ {0} /\ n \in Nat /\ n >= MinNaxes
      /\ c.ymin \in Int /\ c.ymin < ds.min + gap
      /\ ds.min < 0 \/ c.ymin <= ds.min
      /\ ds.max <= c.ymin + (n + 1) * gap
  BY CurveWants
<1>2. (n + 1) * gap <= (naxes + 1) * gap /\ (n + 1) * gap \in Nat /\ (naxes + 1) * gap \in Nat
  BY <1>1, MoreOf
<1>3. ds.max <= c.ymax
  <2> DEFINE a == (n + 1) * gap
             b == (naxes + 1) * gap
  <2>1. a \in Nat /\ b \in Nat /\ a <= b /\ ds.max <= c.ymin + a /\ c.ymax = c.ymin + b
    BY <1>1, <1>2
  <2> HIDE DEF a, b
  <2> QED
    BY <1>1, <2>1
<1> QED
  BY <1>1, <1>3 DEF Spans, MinNaxes

LEMMA RecordsDrawn ==
  ASSUME historic \in Seq([elo : Elos, rank : Ranks]), ~IsEmpty
  PROVE  /\ IsDataset(Dataset([i \in DOMAIN Records |-> Records[i].elo]))
         /\ IsDataset(Dataset([i \in DOMAIN Records |-> Records[i].rank]))
<1> DEFINE R == [elo : Elos, rank : Ranks]
           k == Min({MaxData, Len(historic)})
<1>1. Len(historic) \in Nat \ {0} /\ MaxData \in Nat \ {0}
  BY GraphAssumption DEF IsEmpty, GraphAssumption
<1>2. k \in {MaxData, Len(historic)} /\ k <= Len(historic)
  BY <1>1, LeastOf
<1>3. Records = SubSeq(historic, 1, k)
  BY DEF Records
<1>drawn. historic \in Seq(R)
  OBVIOUS
<1> HIDE DEF k, R
<1>4. k \in Nat \ {0} /\ \A i \in 1..k : historic[i] \in R
  <2>1. k \in Nat \ {0} /\ k <= Len(historic)
    BY <1>1, <1>2
  <2>2. \A i \in 1..Len(historic) : historic[i] \in R
    BY <1>drawn, ElementOfSeq
  <2> QED
    BY <1>1, <2>1, <2>2
<1>5. Records \in Seq(R) /\ Len(Records) = k
  BY <1>3, <1>4, SubSeqProperties
<1>6. DOMAIN Records = 1..k /\ \A i \in 1..k : Records[i] \in R
  BY <1>4, <1>5
<1>7. /\ Elos \in SUBSET (-MaxRange..MaxRange) /\ Ranks \in SUBSET (-MaxRange..MaxRange)
      /\ \A low, high \in Elos : high - low <= MaxRange
      /\ \A low, high \in Ranks : high - low <= MaxRange
      /\ \A y \in Elos : y < Word
      /\ \A y \in Ranks : y < Word
  <2>1. /\ Elos \subseteq -MaxRange..MaxRange /\ Ranks \subseteq 1..MaxRange
        /\ \A low, high \in Elos : high - low <= MaxRange
        /\ \A y \in Elos \cup Ranks : 2 * y < Word
    BY GraphAssumption DEF GraphAssumption
  <2>2. \A y \in Elos \cup Ranks : y \in Int
    BY <2>1, RangePositive
  <2>3. \A y \in Elos \cup Ranks : y < Word
    BY <2>1, <2>2, WordsAssumption DEF WordsAssumption
  <2> QED
    BY <2>1, <2>3, RangePositive
<1>8. \A i \in 1..k : Records[i].elo \in Elos /\ Records[i].rank \in Ranks
  BY <1>6 DEF R
<1>9. /\ [i \in 1..k |-> Records[i].elo] \in Seq(Elos)
      /\ [i \in 1..k |-> Records[i].rank] \in Seq(Ranks)
  BY <1>4, <1>8
<1>10. /\ [i \in 1..k |-> Records[i].elo] # <<>>
       /\ [i \in 1..k |-> Records[i].rank] # <<>>
  <2>1. \A f : DOMAIN f = 1..k => 1 \in DOMAIN f
    BY <1>4
  <2>2. ~(1 \in DOMAIN <<>>)
    OBVIOUS
  <2>3. \A f : DOMAIN f = 1..k => f # <<>>
    BY <2>1, <2>2
  <2> QED
    BY <2>3
<1>11. PICK elos, ranks : /\ elos = [i \in 1..k |-> Records[i].elo]
                          /\ ranks = [i \in 1..k |-> Records[i].rank]
  OBVIOUS
<1>12. elos \in Seq(Elos) /\ elos # <<>> /\ ranks \in Seq(Ranks) /\ ranks # <<>>
  BY <1>9, <1>10, <1>11
<1>13. IsDataset(Dataset(elos)) /\ IsDataset(Dataset(ranks))
  BY <1>7, <1>12, DatasetBounds
<1> QED
  BY <1>6, <1>11, <1>13

LEMMA Greater ==
  ASSUME NEW a \in Nat, NEW b \in Nat, NEW n, n = IF a > b THEN a ELSE b
  PROVE  n \in Nat /\ a <= n /\ b <= n /\ (~(n > b) => n = b)
OBVIOUS

LEMMA AddCurveIs ==
  ASSUME NEW graph, NEW ds, NEW reversed,
         NEW gap, gap = BestAxesGap(ds.max - ds.min),
         NEW wants, wants = NumberOfAxes(ds.min, ds.max, gap),
         NEW naxes, naxes = IF wants > graph.naxes THEN wants ELSE graph.naxes,
         NEW curve, curve = [ds |-> ds, reversed |-> reversed, gap |-> gap, top |-> 0, bottom |-> 0,
                             ymin |-> Rounded(ds.min, gap),
                             ymax |-> Rounded(ds.min, gap) + (naxes + 1) * gap],
         NEW older, older = [i \in DOMAIN graph.curves |->
                               IF naxes > graph.naxes
                                 THEN ScaleCurve(graph.curves[i], naxes - graph.naxes)
                                 ELSE graph.curves[i]]
  PROVE  AddCurve(graph, ds, reversed) = [naxes |-> naxes, curves |-> Append(older, curve)]
BY DEF AddCurve

LEMMA AppendedNone == ASSUME NEW a PROVE Append(<<>>, a) = <<a>>
<1>1. <<>> \in Seq({a})
  OBVIOUS
<1> QED
  BY <1>1


\* What main_svg_graph() draws.
LEMMA TwoCurves ==
  ASSUME historic \in Seq([elo : Elos, rank : Ranks]), ~IsEmpty,
         NEW graph, graph = SvgGraph
  PROVE  /\ DOMAIN graph.curves = 1..2
         /\ Spans(graph.curves[1], graph.naxes) /\ ~graph.curves[1].reversed
         /\ Spans(graph.curves[2], graph.naxes) /\ graph.curves[2].reversed
         /\ graph.curves[1].reversed \in BOOLEAN /\ graph.curves[2].reversed \in BOOLEAN
<1>0. PICK empty, no, yes : empty = EmptyGraph /\ no = FALSE /\ yes = TRUE
  OBVIOUS
<1>1. PICK elos, ranks :
         /\ IsDataset(elos) /\ IsDataset(ranks)
         /\ graph = AddCurve(AddCurve(empty, elos, no), ranks, yes)
  BY <1>0, RecordsDrawn DEF SvgGraph
<1>2. PICK gap1, wants1, gap2, wants2 :
         /\ gap1 = BestAxesGap(elos.max - elos.min)
         /\ wants1 = NumberOfAxes(elos.min, elos.max, gap1)
         /\ gap2 = BestAxesGap(ranks.max - ranks.min)
         /\ wants2 = NumberOfAxes(ranks.min, ranks.max, gap2)
  OBVIOUS
<1>3. wants1 \in Nat \ {0} /\ wants2 \in Nat
  BY <1>1, <1>2, CurveWants
<1>4. PICK first :
         first = [ds |-> elos, reversed |-> no, gap |-> gap1, top |-> 0, bottom |-> 0,
                  ymin |-> Rounded(elos.min, gap1),
                  ymax |-> Rounded(elos.min, gap1) + (wants1 + 1) * gap1]
  OBVIOUS
<1>5. AddCurve(empty, elos, no) = [naxes |-> wants1, curves |-> <<first>>]
  <2>1. empty.naxes = 0 /\ empty.curves = <<>>
    BY <1>0 DEF EmptyGraph
  <2>2. wants1 = IF wants1 > empty.naxes THEN wants1 ELSE empty.naxes
    BY <1>3, <2>1
  <2>3. PICK none :
           none = [i \in DOMAIN empty.curves |->
                     IF wants1 > empty.naxes
                       THEN ScaleCurve(empty.curves[i], wants1 - empty.naxes)
                       ELSE empty.curves[i]]
    OBVIOUS
  <2>4. AddCurve(empty, elos, no) = [naxes |-> wants1, curves |-> Append(none, first)]
    BY <1>2, <1>4, <2>2, <2>3, AddCurveIs
  <2>5. none = <<>>
    BY <2>1, <2>3
  <2> QED
    BY <2>4, <2>5, AppendedNone
<1>6. Spans(first, wants1)
  BY <1>1, <1>2, <1>3, <1>4, AddedSpans
<1>7. PICK naxes : naxes = IF wants2 > wants1 THEN wants2 ELSE wants1
  OBVIOUS
<1>8. naxes \in Nat /\ wants2 <= naxes /\ wants1 <= naxes /\ (~(naxes > wants1) => naxes = wants1)
  BY <1>3, <1>7, Greater
<1>9. PICK second :
         second = [ds |-> ranks, reversed |-> yes, gap |-> gap2, top |-> 0, bottom |-> 0,
                   ymin |-> Rounded(ranks.min, gap2),
                   ymax |-> Rounded(ranks.min, gap2) + (naxes + 1) * gap2]
  OBVIOUS
<1>10. Spans(second, naxes)
  BY <1>1, <1>2, <1>8, <1>9, AddedSpans
<1>11. PICK older : older = IF naxes > wants1 THEN ScaleCurve(first, naxes - wants1) ELSE first
  OBVIOUS
<1>12. Spans(older, naxes) /\ older.reversed = no
  <2>1. CASE naxes > wants1
    <3>1. naxes - wants1 \in Nat /\ wants1 + (naxes - wants1) = naxes
      BY <1>3, <1>8, <2>1
    <3>2. older = ScaleCurve(first, naxes - wants1)
      BY <1>11, <2>1
    <3>3. /\ first = [ds |-> first.ds, reversed |-> first.reversed, gap |-> first.gap,
                      top |-> first.top, bottom |-> first.bottom,
                      ymin |-> first.ymin, ymax |-> first.ymax]
          /\ first.reversed = no
      BY <1>4
    <3> QED
      BY <1>6, <3>1, <3>2, <3>3, ScaledSpans
  <2>2. CASE ~(naxes > wants1)
    BY <1>4, <1>6, <1>8, <1>11, <2>2
  <2> QED
    BY <2>1, <2>2
<1>13. graph = [naxes |-> naxes, curves |-> <<older, second>>]
  <2>1. PICK g : g = AddCurve(empty, elos, no)
    OBVIOUS
  <2>2. g.naxes = wants1 /\ g.curves = <<first>>
    BY <1>5, <2>1
  <2>3. PICK scaled :
           scaled = [i \in DOMAIN g.curves |->
                       IF naxes > g.naxes THEN ScaleCurve(g.curves[i], naxes - g.naxes)
                                          ELSE g.curves[i]]
    OBVIOUS
  <2>4. scaled = <<older>>
    BY <1>11, <2>2, <2>3
  <2>5. naxes = IF wants2 > g.naxes THEN wants2 ELSE g.naxes
    BY <1>7, <2>2
  <2>6. AddCurve(g, ranks, yes) = [naxes |-> naxes, curves |-> Append(scaled, second)]
    <3>1. gap2 = BestAxesGap(ranks.max - ranks.min) /\ wants2 = NumberOfAxes(ranks.min, ranks.max, gap2)
      BY <1>2
    <3> QED
      BY <1>9, <2>3, <2>5, <3>1, AddCurveIs
  <2>7. Append(<<older>>, second) = <<older, second>>
    BY AppendedOne
  <2>8. graph = AddCurve(g, ranks, yes)
    BY <1>1, <2>1
  <2> QED
    BY <2>4, <2>6, <2>7, <2>8
<1>14. /\ graph.naxes = naxes /\ graph.curves[1] = older /\ graph.curves[2] = second
       /\ DOMAIN graph.curves = 1..2
  BY <1>13
<1>15. second.reversed = yes
  BY <1>9
<1> QED
  BY <1>0, <1>10, <1>12, <1>14, <1>15

-----------------------------------------------------------------------------
\* Whatever the records.

\* The rows of player_historic have scores and ranks a player may have.
HistoricOk == historic \in Seq([elo : Elos, rank : Ranks])

LEMMA AlwaysRecords == GraphSpec => []HistoricOk
<1>1. GraphInit => HistoricOk
  BY DEF GraphInit, HistoricOk
<1>2. HistoricOk /\ [GraphNext]_historic => HistoricOk'
  <2> SUFFICES ASSUME HistoricOk, [GraphNext]_historic PROVE HistoricOk'
    OBVIOUS
  <2>1. CASE GraphNext
    <3>1. PICK score \in Elos, rank \in Ranks : RecordEloAndRank(score, rank)
      BY <2>1 DEF GraphNext
    <3>2. historic' = Append(historic, [elo |-> score, rank |-> rank])
      BY <3>1 DEF RecordEloAndRank
    <3>3. PICK R : R = [elo : Elos, rank : Ranks]
      OBVIOUS
    <3>4. PICK r : r = [elo |-> score, rank |-> rank]
      OBVIOUS
    <3>5. r \in R
      BY <3>3, <3>4
    <3>6. Append(historic, r) \in Seq(R)
      BY <3>3, <3>5, AppendProperties DEF HistoricOk
    <3> QED
      BY <3>2, <3>3, <3>4, <3>6 DEF HistoricOk
  <2>2. CASE UNCHANGED historic
    BY <2>2 DEF HistoricOk
  <2> QED
    BY <2>1, <2>2
<1> QED
  BY <1>1, <1>2, PTL DEF GraphSpec

(***************************************************************************)
(* number_of_axes() counts axes to the maximum from no more than where     *)
(* add_curve() begins the scale, and scale_curve() adds whole gaps on both *)
(* sides: of the elos and ranks of any records only negative elos may be   *)
(* drawn on the border of a scale that does not hold them.                 *)
(***************************************************************************)
THEOREM AlwaysInside == GraphSpec => []PointsInside
<1>1. HistoricOk => PointsInside
  <2> SUFFICES ASSUME HistoricOk, ~IsEmpty PROVE PointsInside
    BY DEF PointsInside
  <2>1. PICK graph : graph = SvgGraph
    OBVIOUS
  <2>2. /\ DOMAIN graph.curves = 1..2
        /\ Spans(graph.curves[1], graph.naxes) /\ Spans(graph.curves[2], graph.naxes)
    BY <2>1, TwoCurves DEF HistoricOk
  <2>3. \A i \in DOMAIN graph.curves :
            /\ graph.curves[i].ds.max <= graph.curves[i].ymax
            /\ graph.curves[i].ds.min < 0 \/ graph.curves[i].ymin <= graph.curves[i].ds.min
            /\ graph.curves[i].ymin < graph.curves[i].ds.min + graph.curves[i].gap
    <3>1. \A i \in 1..2 : i = 1 \/ i = 2
      OBVIOUS
    <3> QED
      BY <2>2, <3>1 DEF Spans
  <2> QED
    BY <2>1, <2>3 DEF PointsInside
<1> QED
  BY <1>1, AlwaysRecords, PTL

-----------------------------------------------------------------------------
\* Heights.

LEMMA LeastOfTwo ==
  ASSUME NEW a \in Int, NEW b \in Int
  PROVE  /\ Min({a, b}) = IF a <= b THEN a ELSE b
         /\ Max({a, b}) = IF a <= b THEN b ELSE a
<1>1. CASE a <= b
  BY <1>1 DEF Min, Max
<1>2. CASE ~(a <= b)
  BY <1>2 DEF Min, Max
<1> QED
  BY <1>1, <1>2

\* A value inside of the scale is drawn at its own place.
LEMMA Clamped ==
  ASSUME NEW range \in Nat, NEW num \in Int
  PROVE  Max({0, Min({num, range})}) = IF num < 0 THEN 0 ELSE IF num > range THEN range ELSE num
<1>1. PICK m : m = Min({num, range})
  OBVIOUS
<1>2. m = IF num <= range THEN num ELSE range
  BY <1>1, LeastOfTwo
<1>3. Max({0, m}) = IF 0 <= m THEN m ELSE 0
  BY <1>2, LeastOfTwo
<1> QED
  BY <1>1, <1>2, <1>3

\* Where a value is drawn: on the border if it is below the scale.
Drawn(c, y) == IF y < c.ymin THEN c.ymin ELSE y

\* How far from the top: the scale is a percent below it, and seven above the
\* bottom.
LEMMA HeightOf ==
  ASSUME NEW c, NEW naxes, Spans(c, naxes), c.reversed \in BOOLEAN,
         NEW y \in Int, y <= c.ymax,
         NEW range, range = c.ymax - c.ymin,
         NEW down, down = IF c.reversed THEN Drawn(c, y) - c.ymin ELSE c.ymax - Drawn(c, y)
  PROVE  /\ range \in Nat \ {0} /\ range = (naxes + 1) * c.gap
         /\ down \in 0..range
         /\ YCoord(c, y) = [num |-> range + 92 * down, den |-> range]
<1>1. /\ c.ymin \in Int /\ c.ymax \in Int /\ range \in Nat \ {0}
      /\ range = (naxes + 1) * c.gap
  <2>1. PICK r : r = (naxes + 1) * c.gap
    OBVIOUS
  <2>2. r \in Nat \ {0}
    <3>1. naxes + 1 \in Nat \ {0} /\ c.gap \in Nat \ {0}
      BY DEF Spans
    <3> QED
      BY <2>1, <3>1, Products
  <2>3. c.ymin \in Int /\ c.ymax = c.ymin + r
    BY <2>1 DEF Spans
  <2> QED
    BY <2>1, <2>2, <2>3
<1>2. down \in 0..range
  BY <1>1 DEF Drawn
<1>3. PICK f : f = Percentage(range, y - c.ymin, c.reversed)
  OBVIOUS
<1>4. f = [num |-> down, den |-> range]
  <2>1. PICK num : num = IF c.reversed THEN y - c.ymin ELSE range - (y - c.ymin)
    OBVIOUS
  <2>2. num \in Int /\ down = IF num < 0 THEN 0 ELSE IF num > range THEN range ELSE num
    BY <1>1, <2>1 DEF Drawn
  <2>3. Max({0, Min({num, range})}) = down
    BY <1>1, <2>2, Clamped
  <2>4. f = [num |-> Max({0, Min({num, range})}), den |-> range]
    BY <1>1, <1>3, <2>1 DEF Percentage
  <2> QED
    BY <2>2, <2>3, <2>4
<1>5. YCoord(c, y) = Pad(f, 1, 7)
  BY <1>3 DEF YCoord
<1>6. Pad(f, 1, 7) = [num |-> 1 * range + (100 - 1 - 7) * down, den |-> range]
  BY <1>4 DEF Pad
<1>7. 1 * range + (100 - 1 - 7) * down = range + 92 * down
  BY <1>1, <1>2
<1> QED
  BY <1>1, <1>2, <1>5, <1>6, <1>7

\* The k-th axe of a curve.
LEMMA AxeHeight ==
  ASSUME NEW c, NEW naxes, Spans(c, naxes), c.reversed \in BOOLEAN,
         NEW k \in 1..naxes,
         NEW m, m = IF c.reversed THEN k ELSE naxes + 1 - k
  PROVE  YCoord(c, AxeData(c, k))
           = [num |-> (naxes + 1) * c.gap + 92 * (m * c.gap), den |-> (naxes + 1) * c.gap]
<1>1. naxes \in Nat /\ c.gap \in Nat \ {0} /\ c.ymin \in Int /\ c.ymax = c.ymin + (naxes + 1) * c.gap
  BY DEF Spans
<1>2. PICK g, y, l : g = c.gap /\ y = AxeData(c, k) /\ l = naxes + 1 - k
  OBVIOUS
<1>3. k \in Nat /\ l \in Nat /\ naxes + 1 = k + l
  BY <1>1, <1>2
<1>4. (naxes + 1) * g = k * g + l * g /\ k * g \in Nat /\ l * g \in Nat
  <2>1. (k + l) * g = k * g + l * g /\ k * g \in Nat /\ l * g \in Nat
    BY <1>1, <1>2, <1>3
  <2> QED
    BY <1>3, <2>1
<1>5. y = c.ymin + k * g
  BY <1>2 DEF AxeData
<1>6. /\ y \in Int /\ c.ymin <= y /\ y <= c.ymax
      /\ y - c.ymin = k * g /\ c.ymax - y = l * g /\ c.ymax - c.ymin = (naxes + 1) * g
  <2>1. PICK a, b : a = k * g /\ b = l * g
    OBVIOUS
  <2>2. a \in Nat /\ b \in Nat /\ c.ymin \in Int /\ y = c.ymin + a /\ c.ymax = c.ymin + (a + b)
        /\ (naxes + 1) * g = a + b
    BY <1>1, <1>2, <1>4, <1>5, <2>1
  <2>3. y \in Int /\ c.ymin <= y /\ y <= c.ymax /\ y - c.ymin = a /\ c.ymax - y = b
        /\ c.ymax - c.ymin = a + b
    BY <2>2
  <2> QED
    BY <2>1, <2>2, <2>3
<1>7. PICK range, down : /\ range = c.ymax - c.ymin
                         /\ down = IF c.reversed THEN y - c.ymin ELSE c.ymax - y
  OBVIOUS
<1>drawn. Drawn(c, y) = y
  BY <1>1, <1>6 DEF Drawn
<1>8. YCoord(c, y) = [num |-> range + 92 * down, den |-> range]
  BY <1>6, <1>7, <1>drawn, HeightOf
<1>9. down = m * g /\ range = (naxes + 1) * g
  BY <1>2, <1>6, <1>7
<1> QED
  BY <1>2, <1>8, <1>9

LEMMA SameShare ==
  ASSUME NEW a \in Nat, NEW b \in Nat, NEW n \in Nat, NEW m \in Nat
  PROVE  (n * a + 92 * (m * a)) * (n * b) = (n * b + 92 * (m * b)) * (n * a)
<1>1. n * a + 92 * (m * a) = (n + 92 * m) * a /\ n * b + 92 * (m * b) = (n + 92 * m) * b
  OBVIOUS
<1>2. PICK w \in Nat : w = n + 92 * m
  OBVIOUS
<1>3. (w * a) * (n * b) = (w * b) * (n * a)
  OBVIOUS
<1> QED
  BY <1>1, <1>2, <1>3

\* The axes of two curves of a graph, the second of them upside down.
LEMMA AxesMeet ==
  ASSUME NEW c, NEW d, NEW naxes, Spans(c, naxes), Spans(d, naxes),
         c.reversed \in BOOLEAN, d.reversed \in BOOLEAN, ~c.reversed, d.reversed,
         NEW j \in 1..naxes
  PROVE  SameHeight(YCoord(c, AxeData(c, j)), YCoord(d, AxeData(d, naxes + 1 - j)))
<1>1. naxes \in Nat /\ c.gap \in Nat /\ d.gap \in Nat
  BY DEF Spans
<1>2. PICK n, m : n = naxes + 1 /\ m = naxes + 1 - j
  OBVIOUS
<1>3. n \in Nat /\ m \in Nat /\ m \in 1..naxes
  BY <1>1, <1>2
<1>4. YCoord(c, AxeData(c, j)) = [num |-> n * c.gap + 92 * (m * c.gap), den |-> n * c.gap]
  <2>1. m = IF c.reversed THEN j ELSE naxes + 1 - j
    BY <1>2
  <2> QED
    BY <1>2, <2>1, AxeHeight
<1>5. YCoord(d, AxeData(d, m)) = [num |-> n * d.gap + 92 * (m * d.gap), den |-> n * d.gap]
  <2>1. m = IF d.reversed THEN m ELSE naxes + 1 - m
    OBVIOUS
  <2> QED
    BY <1>2, <1>3, <2>1, AxeHeight
<1>6. PICK e, f : e = YCoord(c, AxeData(c, j)) /\ f = YCoord(d, AxeData(d, m))
  OBVIOUS
<1>7. e.num * f.den = f.num * e.den
  <2>1. (n * c.gap + 92 * (m * c.gap)) * (n * d.gap) = (n * d.gap + 92 * (m * d.gap)) * (n * c.gap)
    BY <1>1, <1>3, SameShare
  <2>2. /\ e.num = n * c.gap + 92 * (m * c.gap) /\ e.den = n * c.gap
        /\ f.num = n * d.gap + 92 * (m * d.gap) /\ f.den = n * d.gap
    BY <1>4, <1>5, <1>6
  <2> QED
    BY <2>1, <2>2
<1> QED
  BY <1>2, <1>6, <1>7 DEF SameHeight

(***************************************************************************)
(* print_axes() draws the axes of the first curve with labels of both, and *)
(* scale_curve() changes the first when the second needs more: the axes of *)
(* each curve remain where the other has its own.                          *)
(***************************************************************************)
THEOREM AlwaysOnAxes == GraphSpec => []LabelsOnAxes
<1>1. HistoricOk => LabelsOnAxes
  <2> SUFFICES ASSUME HistoricOk, ~IsEmpty PROVE LabelsOnAxes
    BY DEF LabelsOnAxes
  <2>1. PICK graph : graph = SvgGraph
    OBVIOUS
  <2>2. /\ Spans(graph.curves[1], graph.naxes) /\ ~graph.curves[1].reversed
        /\ Spans(graph.curves[2], graph.naxes) /\ graph.curves[2].reversed
        /\ graph.curves[1].reversed \in BOOLEAN /\ graph.curves[2].reversed \in BOOLEAN
    BY <2>1, TwoCurves DEF HistoricOk
  <2>3. \A j \in 1..graph.naxes :
           SameHeight(YCoord(graph.curves[1], AxeData(graph.curves[1], j)),
                      YCoord(graph.curves[2], AxeData(graph.curves[2], graph.naxes + 1 - j)))
    BY <2>2, AxesMeet
  <2> QED
    BY <2>1, <2>3 DEF LabelsOnAxes
<1> QED
  BY <1>1, AlwaysRecords, PTL

-----------------------------------------------------------------------------
\* Labels.

\* How far a point is from the top of its scale.
Down(c, i) == LET y == Drawn(c, c.ds.values[i])
              IN  IF c.reversed THEN y - c.ymin ELSE c.ymax - y

\* No point is drawn above the scale.
LEMMA PointHeight ==
  ASSUME NEW c, NEW naxes, Spans(c, naxes), c.reversed \in BOOLEAN,
         NEW i \in 1..Len(c.ds.values), NEW range, range = c.ymax - c.ymin
  PROVE  /\ range \in Nat \ {0} /\ Down(c, i) \in 0..range
         /\ c.ds.values[i] \in Int /\ c.ymin \in Int /\ c.ymax \in Int
         /\ YPoint(c, i) = [num |-> range + 92 * Down(c, i), den |-> range]
<1>1. /\ c.ds.values \in Seq(Int) /\ c.ds.values[i] <= c.ds.max /\ c.ds.max \in Int
      /\ c.ymin \in Int /\ c.ds.max <= c.ymax
  <2>1. IsDataset(c.ds) /\ c.ymin \in Int /\ c.ds.max <= c.ymax
    BY DEF Spans
  <2>2. PICK ds : ds = c.ds
    OBVIOUS
  <2>3. ds.values \in Seq(Int) /\ ds.values[i] <= ds.max /\ ds.max \in Int
    BY <2>1, <2>2 DEF IsDataset
  <2> QED
    BY <2>1, <2>2, <2>3
<1>2. c.ds.values[i] \in Int
  BY <1>1, ElementOfSeq
<1>3. PICK r : r = (naxes + 1) * c.gap
  OBVIOUS
<1>4. c.ymax \in Int
  <2>1. r \in Nat
    <3>1. naxes + 1 \in Nat /\ c.gap \in Nat
      BY DEF Spans
    <3> QED
      BY <1>3, <3>1, Products
  <2>2. c.ymax = c.ymin + r
    BY <1>3 DEF Spans
  <2> QED
    BY <1>1, <2>1, <2>2
<1>5. PICK y : y = c.ds.values[i]
  OBVIOUS
<1>6. y \in Int /\ y <= c.ymax
  <2>1. PICK most, top : most = c.ds.max /\ top = c.ymax
    OBVIOUS
  <2>2. y \in Int /\ most \in Int /\ top \in Int /\ y <= most /\ most <= top
    BY <1>1, <1>2, <1>4, <1>5, <2>1, Zenon
  <2>3. y \in Int /\ y <= top
    BY <2>2
  <2> QED
    BY <2>1, <2>3
<1>7. PICK down : down = IF c.reversed THEN Drawn(c, y) - c.ymin ELSE c.ymax - Drawn(c, y)
  OBVIOUS
<1>8. /\ range \in Nat \ {0} /\ down \in 0..range
      /\ YCoord(c, y) = [num |-> range + 92 * down, den |-> range]
  BY <1>6, <1>7, HeightOf
<1>9. down = Down(c, i) /\ YPoint(c, i) = YCoord(c, y)
  BY <1>5, <1>7 DEF Down, YPoint
<1> QED
  BY <1>1, <1>2, <1>4, <1>8, <1>9

\* Between the labels of both sides, six percent each.
LEMMA PlaceOf ==
  ASSUME NEW n \in Nat, n > 1, NEW i \in 1..n
  PROVE  Pad(Percentage(n - 1, i - 1, TRUE), 6, 6)
           = [num |-> 6 * (n - 1) + 88 * (i - 1), den |-> n - 1]
<1>1. PICK range, num : range = n - 1 /\ num = i - 1
  OBVIOUS
<1>2. range \in Nat /\ range # 0 /\ num \in 0..range
  BY <1>1
<1>3. PICK f : f = Percentage(range, num, TRUE)
  OBVIOUS
<1>4. f = [num |-> num, den |-> range]
  <2>1. f = [num |-> Max({0, Min({num, range})}), den |-> range]
    BY <1>2, <1>3 DEF Percentage
  <2>2. Max({0, Min({num, range})}) = num
    BY <1>2, Clamped
  <2> QED
    BY <2>1, <2>2
<1>5. Pad(f, 6, 6) = [num |-> 6 * range + (100 - 6 - 6) * num, den |-> range]
  BY <1>4 DEF Pad
<1>6. 6 * range + (100 - 6 - 6) * num = 6 * range + 88 * num
  BY <1>2
<1> QED
  BY <1>1, <1>3, <1>5, <1>6

LEMMA EndPlaces ==
  ASSUME NEW n \in Nat, n > 1
  PROVE  /\ ~Exceeds(Pad(Percentage(n - 1, 1 - 1, TRUE), 6, 6), 92)
         /\ Exceeds(Pad(Percentage(n - 1, n - 1, TRUE), 6, 6), 92)
<1>1. PICK f, g : /\ f = Pad(Percentage(n - 1, 1 - 1, TRUE), 6, 6)
                  /\ g = Pad(Percentage(n - 1, n - 1, TRUE), 6, 6)
  OBVIOUS
<1>2. f = [num |-> 6 * (n - 1) + 88 * (1 - 1), den |-> n - 1]
  <2>1. 1 \in 1..n
    OBVIOUS
  <2> QED
    BY <1>1, <2>1, PlaceOf
<1>3. g = [num |-> 6 * (n - 1) + 88 * (n - 1), den |-> n - 1]
  <2>1. n \in 1..n
    OBVIOUS
  <2> QED
    BY <1>1, <2>1, PlaceOf
<1>4. ~(f.num > 92 * f.den)
  BY <1>2
<1>5. g.num > 92 * g.den
  BY <1>3
<1> QED
  BY <1>1, <1>4, <1>5 DEF Exceeds

\* The first point is far from the right border and the last is near it.
LEMMA EndsOfCurve ==
  ASSUME NEW c, Len(c.ds.values) \in Nat, Len(c.ds.values) > 1
  PROVE  ~Exceeds(XCoord(c, 1), 92) /\ Exceeds(XCoord(c, Len(c.ds.values)), 92)
BY EndPlaces DEF XCoord


\* What is said of the label of the i-th point, in the height y of the point
\* and that of the point the label is beside.
Readable(y, label, other, n) ==
    /\ Exceeds(y, 92) => label.top
    /\ IsBelow(y, 8) => ~label.top
    /\ ~Exceeds(y, 92) /\ ~IsBelow(y, 8) /\ n > 1 =>
         IF label.top THEN ~Lower(y, other) ELSE ~Lower(other, y)

\* The corner point_label_pos() chooses, on a curve that is drawn upright and
\* on one that is not.
Upright(label, y, rel) ==
    label.top <=> Exceeds(y, 92) \/ (~IsBelow(y, 8) /\ rel)
Turned(label, y, rel) ==
    LET upside == [y EXCEPT !.num = 100 * y.den - @]
    IN  label.top <=> ~(Exceeds(upside, 92) \/ (~IsBelow(upside, 8) /\ rel))

\* The point at a of range from the top, and what its neighbour is to it.
Placed(y, range, a)  == /\ range \in Nat \ {0} /\ a \in 0..range
                        /\ y = [num |-> range + 92 * a, den |-> range]
Follows(n, rel, a, b) == n > 1 => IF rel THEN a <= b ELSE b <= a

\* A point of a curve that is not drawn upside down: the label goes above it
\* when its neighbour is not more.
LEMMA UprightLabel ==
  ASSUME NEW range, NEW a, NEW b, NEW y, NEW other, NEW label, NEW rel, NEW n,
         Placed(y, range, a), Placed(other, range, b),
         Upright(label, y, rel), Follows(n, rel, a, b)
  PROVE  Readable(y, label, other, n)
<1>0. /\ range \in Nat \ {0} /\ a \in 0..range /\ b \in 0..range
      /\ y = [num |-> range + 92 * a, den |-> range]
      /\ other = [num |-> range + 92 * b, den |-> range]
      /\ n > 1 => IF rel THEN a <= b ELSE b <= a
  BY DEF Placed, Follows
<1>1. y.num = range + 92 * a /\ y.den = range /\ other.num = range + 92 * b
  BY <1>0
<1>2. Exceeds(y, 92) => ~IsBelow(y, 8)
  BY <1>0, <1>1 DEF Exceeds, IsBelow
<1>3. n > 1 /\ rel => ~Lower(y, other)
  BY <1>0, <1>1 DEF Lower
<1>4. n > 1 /\ ~rel => ~Lower(other, y)
  BY <1>0, <1>1 DEF Lower
<1> QED
  BY <1>2, <1>3, <1>4 DEF Readable, Upright

\* On one that is, the label is turned with the curve.
LEMMA TurnedLabel ==
  ASSUME NEW range, NEW a, NEW b, NEW y, NEW other, NEW label, NEW rel, NEW n,
         Placed(y, range, a), Placed(other, range, b),
         Turned(label, y, rel), Follows(n, rel, b, a)
  PROVE  Readable(y, label, other, n)
<1>0. /\ range \in Nat \ {0} /\ a \in 0..range /\ b \in 0..range
      /\ y = [num |-> range + 92 * a, den |-> range]
      /\ other = [num |-> range + 92 * b, den |-> range]
      /\ n > 1 => IF rel THEN b <= a ELSE a <= b
  BY DEF Placed, Follows
<1>1. y.num = range + 92 * a /\ y.den = range /\ other.num = range + 92 * b
  BY <1>0
<1>2. PICK upside : upside = [y EXCEPT !.num = 100 * y.den - @]
  OBVIOUS
<1>3. upside.num = 100 * range - y.num /\ upside.den = range
  BY <1>0, <1>2
<1>4. Exceeds(upside, 92) <=> IsBelow(y, 8)
  BY <1>0, <1>1, <1>3 DEF Exceeds, IsBelow
<1>5. IsBelow(upside, 8) <=> Exceeds(y, 92)
  BY <1>0, <1>1, <1>3 DEF Exceeds, IsBelow
<1>6. Exceeds(y, 92) => ~IsBelow(y, 8)
  BY <1>0, <1>1 DEF Exceeds, IsBelow
<1>7. n > 1 /\ rel => ~Lower(other, y)
  BY <1>0, <1>1 DEF Lower
<1>8. n > 1 /\ ~rel => ~Lower(y, other)
  BY <1>0, <1>1 DEF Lower
<1>9. label.top <=> ~(Exceeds(upside, 92) \/ (~IsBelow(upside, 8) /\ rel))
  BY <1>2 DEF Turned
<1> QED
  BY <1>4, <1>5, <1>6, <1>7, <1>8, <1>9 DEF Readable

\* The label of a point and the point it is beside, of those there are.
LEMMA Beside ==
  ASSUME NEW c, NEW n, n \in Nat, n > 1, n = Len(c.ds.values), NEW i \in 1..n,
         NEW last \in BOOLEAN, last = Exceeds(XCoord(c, i), 92),
         NEW next, next = IF last THEN i - 1 ELSE i + 1
  PROVE  next \in 1..n /\ (last => i # 1)
<1>1. i = 1 => ~last
  BY EndsOfCurve
<1>2. i = n => last
  BY EndsOfCurve
<1>3. i \in Nat /\ 1 <= i /\ i <= n
  OBVIOUS
<1>4. CASE last
  BY <1>1, <1>3, <1>4
<1>5. CASE ~last
  BY <1>2, <1>3, <1>5
<1> QED
  BY <1>4, <1>5

\* Its value, and zero after the last: what point_label_pos() compares.
Value(c, j) == IF j <= Len(c.ds.values) THEN c.ds.values[j] ELSE 0

LEMMA LabelIs ==
  ASSUME NEW c, NEW i, c.reversed \in BOOLEAN,
         NEW y, y = YPoint(c, i),
         NEW last, last = Exceeds(XCoord(c, i), 92),
         NEW rel, rel = (IF last THEN i # 1 /\ Value(c, i - 1) <= Value(c, i)
                                 ELSE Value(c, i + 1) <= Value(c, i)),
         NEW label, label = PointLabelPos(c, i)
  PROVE  /\ label.left = last
         /\ ~c.reversed => Upright(label, y, rel)
         /\ c.reversed => Turned(label, y, rel)
<1>1. PICK upside : upside = IF c.reversed THEN [y EXCEPT !.num = 100 * y.den - @] ELSE y
  OBVIOUS
<1>2. PICK top : top = (Exceeds(upside, 92) \/ (~IsBelow(upside, 8) /\ rel))
  OBVIOUS
<1>4. label = [top |-> top # c.reversed, left |-> last]
  BY <1>1, <1>2 DEF PointLabelPos, Value
<1>5. label.left = last /\ (label.top <=> (top # c.reversed))
  <2>1. PICK turned : turned = (top # c.reversed)
    OBVIOUS
  <2>2. label = [top |-> turned, left |-> last]
    BY <1>4, <2>1
  <2>3. label.left = last /\ label.top = turned
    BY <2>2
  <2> QED
    BY <2>1, <2>3
<1>6. top \in BOOLEAN
  BY <1>2
<1>7. CASE c.reversed
  <2>1. label.top <=> ~top
    BY <1>5, <1>6, <1>7
  <2> QED
    BY <1>1, <1>2, <1>5, <1>7, <2>1 DEF Turned
<1>8. CASE ~c.reversed
  <2>1. label.top <=> top
    BY <1>5, <1>6, <1>8
  <2> QED
    BY <1>1, <1>2, <1>5, <1>8, <2>1 DEF Upright
<1> QED
  BY <1>7, <1>8

LEMMA CurveLabels ==
  ASSUME NEW c, NEW naxes, Spans(c, naxes), c.reversed \in BOOLEAN,
         NEW n, n = Len(c.ds.values), n \in Nat, NEW i \in 1..n,
         NEW label, label = PointLabelPos(c, i)
  PROVE  Readable(YPoint(c, i), label, YPoint(c, IF label.left THEN i - 1 ELSE i + 1), n)
<1>1. PICK range, y, last, rel :
         /\ range = c.ymax - c.ymin /\ y = YPoint(c, i)
         /\ last = Exceeds(XCoord(c, i), 92)
         /\ rel = (IF last THEN i # 1 /\ Value(c, i - 1) <= Value(c, i)
                           ELSE Value(c, i + 1) <= Value(c, i))
  OBVIOUS
<1>side. last \in BOOLEAN
  BY <1>1 DEF Exceeds
<1>2. /\ range \in Nat \ {0} /\ Down(c, i) \in 0..range
      /\ c.ds.values[i] \in Int /\ c.ymin \in Int /\ c.ymax \in Int
      /\ y = [num |-> range + 92 * Down(c, i), den |-> range]
  <2>1. i \in 1..Len(c.ds.values)
    OBVIOUS
  <2>2. range = c.ymax - c.ymin /\ y = YPoint(c, i)
    BY <1>1
  <2>3. /\ range \in Nat \ {0} /\ Down(c, i) \in 0..range
        /\ c.ds.values[i] \in Int /\ c.ymin \in Int /\ c.ymax \in Int
        /\ YPoint(c, i) = [num |-> range + 92 * Down(c, i), den |-> range]
    BY <2>1, <2>2, PointHeight
  <2> QED
    BY <2>2, <2>3
<1>3. /\ label.left = last
      /\ ~c.reversed => Upright(label, y, rel)
      /\ c.reversed => Turned(label, y, rel)
  BY <1>1, LabelIs
<1>4. PICK next : next = IF last THEN i - 1 ELSE i + 1
  OBVIOUS
<1>5. ASSUME NEW b, NEW other, Placed(other, range, b),
             ~c.reversed => Follows(n, rel, Down(c, i), b),
             c.reversed => Follows(n, rel, b, Down(c, i))
      PROVE  Readable(y, label, other, n)
  <2>1. Placed(y, range, Down(c, i))
    BY <1>2 DEF Placed
  <2>2. CASE c.reversed
    <3>1. Turned(label, y, rel) /\ Follows(n, rel, b, Down(c, i))
      BY <1>3, <1>5, <2>2
    <3> QED
      BY <1>5, <2>1, <3>1, TurnedLabel
  <2>3. CASE ~c.reversed
    <3>1. Upright(label, y, rel) /\ Follows(n, rel, Down(c, i), b)
      BY <1>3, <1>5, <2>3
    <3> QED
      BY <1>5, <2>1, <3>1, UprightLabel
  <2> QED
    BY <2>2, <2>3
<1>6. CASE n > 1
  <2>1. next \in 1..n /\ (last => i # 1)
    <3>1. n \in Nat /\ n > 1 /\ n = Len(c.ds.values) /\ i \in 1..n
      BY <1>6
    <3>2. last = Exceeds(XCoord(c, i), 92)
      BY <1>1
    <3> QED
      BY <1>side, <1>4, <3>1, <3>2, Beside
  <2>2. /\ Down(c, next) \in 0..range /\ c.ds.values[next] \in Int
        /\ YPoint(c, next) = [num |-> range + 92 * Down(c, next), den |-> range]
    BY <1>1, <2>1, PointHeight
  <2>3. rel <=> c.ds.values[next] <= c.ds.values[i]
    <3>1. i <= n /\ next <= n
      BY <2>1
    <3>2. Value(c, i) = c.ds.values[i] /\ Value(c, next) = c.ds.values[next]
      BY <3>1 DEF Value
    <3>3. rel <=> Value(c, next) <= Value(c, i)
      BY <1>1, <1>4, <2>1
    <3> QED
      BY <3>2, <3>3
  <2>4. /\ ~c.reversed => IF rel THEN Down(c, i) <= Down(c, next) ELSE Down(c, next) <= Down(c, i)
        /\ c.reversed => IF rel THEN Down(c, next) <= Down(c, i) ELSE Down(c, i) <= Down(c, next)
    <3>1. PICK v, w, x, z : /\ v = c.ds.values[i] /\ w = c.ds.values[next]
                            /\ x = Drawn(c, v) /\ z = Drawn(c, w)
      OBVIOUS
    <3>2. v \in Int /\ w \in Int /\ c.ymin \in Int /\ c.ymax \in Int
      BY <1>2, <2>2, <3>1
    <3>3. x \in Int /\ z \in Int /\ (w <= v => z <= x) /\ (~(w <= v) => x <= z)
      BY <3>1, <3>2 DEF Drawn
    <3>4. /\ Down(c, i) = IF c.reversed THEN x - c.ymin ELSE c.ymax - x
          /\ Down(c, next) = IF c.reversed THEN z - c.ymin ELSE c.ymax - z
      BY <3>1 DEF Down
    <3>5. CASE w <= v
      <4>1. z - c.ymin <= x - c.ymin /\ c.ymax - x <= c.ymax - z /\ rel
        BY <2>3, <3>1, <3>2, <3>3, <3>5
      <4> QED
        BY <3>4, <4>1
    <3>6. CASE ~(w <= v)
      <4>1. x - c.ymin <= z - c.ymin /\ c.ymax - z <= c.ymax - x /\ ~rel
        BY <2>3, <3>1, <3>2, <3>3, <3>6
      <4> QED
        BY <3>4, <4>1
    <3> QED
      BY <3>5, <3>6
  <2>5. /\ ~c.reversed => Follows(n, rel, Down(c, i), Down(c, next))
        /\ c.reversed => Follows(n, rel, Down(c, next), Down(c, i))
    BY <2>4 DEF Follows
  <2>6. Placed(YPoint(c, next), range, Down(c, next))
    BY <1>2, <2>2 DEF Placed
  <2>7. Readable(y, label, YPoint(c, next), n)
    BY <1>5, <2>5, <2>6
  <2> QED
    BY <1>1, <1>3, <1>4, <2>7
<1>7. CASE ~(n > 1)
  <2>1. PICK other : other = [num |-> range + 92 * Down(c, i), den |-> range]
    OBVIOUS
  <2>2. Readable(y, label, other, n)
    <3>1. Placed(other, range, Down(c, i))
      BY <1>2, <2>1 DEF Placed
    <3>2. Follows(n, rel, Down(c, i), Down(c, i))
      BY <1>7 DEF Follows
    <3> QED
      BY <1>5, <3>1, <3>2
  <2>3. \A anything : Readable(y, label, anything, n)
    BY <1>7, <2>2 DEF Readable
  <2> QED
    BY <1>1, <2>3
<1> QED
  BY <1>6, <1>7

(***************************************************************************)
(* Near a border the label of a point is on the side away from it, and     *)
(* elsewhere it is above a point whose neighbour is not higher and below   *)
(* one whose neighbour is not lower, on the curve drawn upside down too.   *)
(***************************************************************************)
THEOREM AlwaysReadable == GraphSpec => []LabelsReadable
<1>1. HistoricOk => LabelsReadable
  <2> SUFFICES ASSUME HistoricOk, ~IsEmpty PROVE LabelsReadable
    BY DEF LabelsReadable
  <2>1. PICK graph : graph = SvgGraph
    OBVIOUS
  <2>2. /\ DOMAIN graph.curves = 1..2
        /\ \A k \in 1..2 : /\ Spans(graph.curves[k], graph.naxes)
                           /\ graph.curves[k].reversed \in BOOLEAN
    <3>1. \A k \in 1..2 : k = 1 \/ k = 2
      OBVIOUS
    <3> QED
      BY <2>1, <3>1, TwoCurves DEF HistoricOk
  <2>3. ASSUME NEW k \in DOMAIN graph.curves,
               NEW i \in DOMAIN graph.curves[k].ds.values
        PROVE  LET c     == graph.curves[k]
                   label == PointLabelPos(c, i)
               IN  Readable(YPoint(c, i), label,
                            YPoint(c, IF label.left THEN i - 1 ELSE i + 1),
                            Len(c.ds.values))
    <3>1. PICK c : c = graph.curves[k]
      OBVIOUS
    <3>2. Spans(c, graph.naxes) /\ c.reversed \in BOOLEAN
      BY <2>2, <3>1
    <3>3. c.ds.values \in Seq(Int)
      BY <3>2 DEF Spans, IsDataset
    <3>4. Len(c.ds.values) \in Nat /\ i \in 1..Len(c.ds.values)
      BY <3>1, <3>3, LenProperties
    <3>5. PICK label, n : label = PointLabelPos(c, i) /\ n = Len(c.ds.values)
      OBVIOUS
    <3>6. Readable(YPoint(c, i), label, YPoint(c, IF label.left THEN i - 1 ELSE i + 1), n)
      BY <3>2, <3>4, <3>5, CurveLabels
    <3> QED
      BY <3>1, <3>5, <3>6
  <2> QED
    BY <2>1, <2>3 DEF LabelsReadable, Readable
<1> QED
  BY <1>1, AlwaysRecords, PTL
=============================================================================
