------------------------------ MODULE PagesProofs ------------------------------
(***************************************************************************)
(* The pages, for any databases and any URLs that are typed.               *)
(*                                                                         *)
(* Reading, the first inductive invariant, says where an answer comes      *)
(* from: some URL was asked, and the page was made of two databases, of    *)
(* which the second is the one that is still committed.  It needs what is  *)
(* sent and decoded on the way to be an URL again, for every link of every *)
(* page.  Counts and searches are then facts about what one page shows.    *)
(*                                                                         *)
(* Following, the second one, says that who walks from page 1 through the  *)
(* links to the next pages has seen the first rows of the list.  It needs  *)
(* the link of a list to be served as that page of that list: to be sent,  *)
(* split, decoded and routed back to what it was printed from.             *)
(*                                                                         *)
(* The old links follow from the database alone: what they are about is in *)
(* a table, so its name or address is read again (RoutesProofs), first on  *)
(* the page that redirects, then on the one it redirects to.               *)
(***************************************************************************)
EXTENDS Pages, RoutesProofs

-----------------------------------------------------------------------------
\* The pages that are found.

\* A route of a section: a list that is found there has the name of an order.
InSection(r) == /\ Known(r, PageNames, LastRoutes)
                /\ r.page \in HtmlLists => r.name \in Orders(r.page)

LEMMA SectionChildren ==
  ASSUME NEW routes \in {PlayersRoutes, ClansRoutes, ServersRoutes}
  PROVE  IsList(routes) /\ \A r \in ToSet(routes) : InSection(r)
<1>1. /\ <<>> \in LastRoutes /\ Svg(<<"elo", " ", "rank">>, "old_graph") \in LastRoutes
  BY DEF LastRoutes
<1> DEFINE A == PageNames \ HtmlLists
           Q(r) == InSection(r)
<1>2. /\ "" \in A /\ "search" \in A /\ "json_player_list" \in A /\ "json_player" \in A /\ "old_player" \in A
      /\ "json_clan_list" \in A /\ "json_clan" \in A /\ "old_clan" \in A
      /\ "json_server_list" \in A /\ "json_server" \in A /\ "old_server" \in A
  BY DEF PageNames, HtmlLists
<1>3. ASSUME NEW name, NEW ext, NEW page, NEW lists, IsList(ext), page \in A, lists \in LastRoutes
      PROVE  Q(Route(name, ext, page, lists))
  <2>1. Known(Route(name, ext, page, lists), PageNames, LastRoutes)
    BY <1>3, RouteKnown
  <2>2. Route(name, ext, page, lists).page \notin HtmlLists
    BY <1>3 DEF Route
  <2> QED
    BY <2>1, <2>2 DEF InSection
<1>10. ASSUME NEW name, NEW ext, NEW page \in HtmlLists, IsList(ext), name \in Orders(page)
       PROVE  Q(Route(name, ext, page, <<>>))
  <2>1. page \in PageNames
    BY DEF PageNames, HtmlLists
  <2>2. Known(Route(name, ext, page, <<>>), PageNames, LastRoutes)
    BY <1>1, <1>10, <2>1, RouteKnown
  <2> DEFINE r == Route(name, ext, page, <<>>)
  <2>3. r.page = page /\ r.name = name
    BY DEF Route
  <2> HIDE DEF r
  <2>4. r.name \in Orders(r.page)
    BY <1>10, <2>3
  <2> QED
    BY <2>2, <2>4 DEF r, InSection
<1>11. /\ "player_list" \in HtmlLists /\ <<"by-rank">> \in Orders("player_list")
       /\ <<"by-lastseen">> \in Orders("player_list")
  BY DEF HtmlLists, Orders
<1>12. "clan_list" \in HtmlLists /\ <<"by-nmembers">> \in Orders("clan_list")
  BY DEF HtmlLists, Orders
<1>13. "server_list" \in HtmlLists /\ <<"by-nplayers">> \in Orders("server_list")
  BY DEF HtmlLists, Orders
<1> HIDE DEF A
<1> HIDE DEF Q
<1>4. /\ Q(Route(<<"search">>, HtmlExt, "search", <<>>)) /\ Q(Route(<<"search">>, <<>>, "search", <<>>))
      /\ Q(Route(<<"by-rank">>, HtmlExt, "player_list", <<>>)) /\ Q(Route(<<"by-rank">>, <<>>,
           "player_list", <<>>))
      /\ Q(Route(<<"by-rank">>, JsonExt, "json_player_list", <<>>))
      /\ Q(Route(<<"by-lastseen">>, HtmlExt, "player_list", <<>>))
      /\ Q(Route(<<"by-lastseen">>, <<>>, "player_list", <<>>))
      /\ Q(Route(<<"by-lastseen">>, JsonExt, "json_player_list", <<>>))
      /\ Q(Route(Star, JsonExt, "json_player", <<>>))
      /\ Q(Route(Star, <<>>, "", Svg(<<"elo", " ", "rank">>, "old_graph")))
      /\ Q(Route(Star, HtmlExt, "old_player", <<>>)) /\ Q(Route(Star, <<>>, "old_player", <<>>))
  BY <1>1, <1>2, <1>3, <1>10, <1>11, Extensions
<1>5. /\ Q(Route(<<"by-nmembers">>, HtmlExt, "clan_list", <<>>)) /\ Q(Route(<<"by-nmembers">>, <<>>,
           "clan_list", <<>>))
      /\ Q(Route(<<"by-nmembers">>, JsonExt, "json_clan_list", <<>>))
      /\ Q(Route(Star, JsonExt, "json_clan", <<>>))
      /\ Q(Route(Star, HtmlExt, "old_clan", <<>>)) /\ Q(Route(Star, <<>>, "old_clan", <<>>))
  BY <1>1, <1>2, <1>3, <1>10, <1>12, Extensions
<1>6. /\ Q(Route(<<"by-nplayers">>, HtmlExt, "server_list", <<>>)) /\ Q(Route(<<"by-nplayers">>, <<>>,
           "server_list", <<>>))
      /\ Q(Route(<<"by-nplayers">>, JsonExt, "json_server_list", <<>>))
      /\ Q(Route(Star, JsonExt, "json_server", <<>>))
      /\ Q(Route(Star, HtmlExt, "old_server", <<>>)) /\ Q(Route(Star, <<>>, "old_server", <<>>))
  BY <1>1, <1>2, <1>3, <1>10, <1>13, Extensions
<1>7. IsList(PlayersRoutes) /\ \A r \in ToSet(PlayersRoutes) : Q(r)
  BY <1>4, PlayersSet
<1>8. IsList(ClansRoutes) /\ \A r \in ToSet(ClansRoutes) : Q(r)
  BY <1>4, <1>5, ClansSet
<1>9. IsList(ServersRoutes) /\ \A r \in ToSet(ServersRoutes) : Q(r)
  BY <1>4, <1>6, ServersSet
<1> QED
  BY <1>7, <1>8, <1>9 DEF Q

LEMMA ListChildren ==
  ASSUME NEW routes \in RouteLists
  PROVE  IsList(routes) /\ \A r \in ToSet(routes) : Known(r, PageNames, RouteLists)
<1>1. \A r : /\ Known(r, PageNames, LastRoutes) => Known(r, PageNames, RouteLists)
             /\ Known(r, PlainPages, LastRoutes) => Known(r, PageNames, RouteLists)
             /\ Known(r, PlainPages, {<<>>}) => Known(r, PageNames, RouteLists)
  BY DEF Known, RouteLists, LastRoutes, PlainPages
<1>2. CASE routes = Root
  BY <1>2, RootChildren
<1>3. CASE routes \in {PlayersRoutes, ClansRoutes, ServersRoutes}
  <2>1. IsList(routes) /\ \A r \in ToSet(routes) : Known(r, PageNames, LastRoutes)
    BY <1>3, SectionChildren DEF InSection
  <2> QED
    BY <1>1, <2>1
<1>4. CASE routes \in QuietRoutes
  BY <1>1, <1>4, QuietChildren
<1>5. CASE routes \in LastRoutes
  BY <1>1, <1>5, LastChildren
<1> QED
  BY <1>2, <1>3, <1>4, <1>5 DEF RouteLists

\* Whatever the name of a directory is, a list of routes of the site is entered.
LEMMA EnterVisited ==
  ASSUME NEW dirs, IsList(dirs), NEW v \in Visited(dirs), NEW i \in 1..Len(dirs), NEW name, NEW onlyleaf
  PROVE  Enter(v, i, FindChildRoute(v.routes, name, onlyleaf)) \in Visited(dirs)
<1> DEFINE S == UNION {ToSet(dirs[k]) : k \in 1..Len(dirs)}
           c == FindChildRoute(v.routes, name, onlyleaf)
           D == [1..Len(dirs) -> Seq(S)]
<1>1. v.page \in PageNames /\ v.routes \in RouteLists /\ v.dirs \in D
  BY DEF Visited
<1>2. IsList(v.routes) /\ \A r \in ToSet(v.routes) : Known(r, PageNames, RouteLists)
  BY <1>1, ListChildren
<1>3. c = 0 \/ c \in 1..Len(v.routes)
  BY <1>2, ChildFound
<1> HIDE DEF c, D
<1>4. CASE c = 0
  <2>1. "" \in PageNames /\ <<>> \in RouteLists
    BY DEF PageNames, RouteLists, LastRoutes
  <2>2. [page |-> "", routes |-> <<>>, dirs |-> v.dirs] \in Visited(dirs)
    BY <1>1, <2>1 DEF Visited, D
  <2> QED
    BY <1>4, <2>2 DEF Enter, c
<1>5. CASE c # 0
  <2> DEFINE r == v.routes[c]
             e == Cut(v.dirs[i], r.ext)
  <2>1. r \in ToSet(v.routes)
    BY <1>2, <1>3, <1>5, ListIs
  <2>2. r.page \in PageNames /\ r.routes \in RouteLists /\ IsList(r.ext)
    BY <1>2, <2>1 DEF Known
  <2>3. v.dirs[i] \in Seq(S)
    BY <1>1 DEF D
  <2> HIDE DEF r, S
  <2>4. e \in Seq(S)
    BY <2>2, <2>3, CutIn
  <2>5. [v.dirs EXCEPT ![i] = e] \in D
    <3> HIDE DEF e
    <3> QED
      BY <1>1, <2>4 DEF D
  <2>6. [page |-> r.page, routes |-> r.routes, dirs |-> [v.dirs EXCEPT ![i] = e]] \in Visited(dirs)
    BY <2>2, <2>5 DEF Visited, D, S
  <2> QED
    BY <1>5, <2>6 DEF Enter, c, r
<1> QED
  BY <1>4, <1>5

LEMMA RouteSteps ==
  ASSUME NEW dirs, IsList(dirs), \A i \in 1..Len(dirs) : IsList(dirs[i])
  PROVE  \E at : RoutesBy(dirs, at)
<1> DEFINE N == Len(dirs)
           V == Visited(dirs)
           base == [page |-> "", routes |-> Root, dirs |-> dirs]
           step == [m \in (1..N) \X V |-> Enter(m[2], [i \in DOMAIN dirs |-> i][m[1]],
               FindChildRoute(m[2].routes, dirs[[i \in DOMAIN dirs |-> i][m[1]]],
               [i \in DOMAIN dirs |-> i][m[1]] = Len(dirs)))]
           Iter(g) == g = [s \in SUBSET (1..N) |->
                             IF s = {} THEN base ELSE Enter(g[s \ {Max(s)}],
                                 [i \in DOMAIN dirs |-> i][Max(s)],
                                 FindChildRoute(g[s \ {Max(s)}].routes,
                                 dirs[[i \in DOMAIN dirs |-> i][Max(s)]],
                                 [i \in DOMAIN dirs |-> i][Max(s)] = Len(dirs)))]
<1>1. N \in Nat /\ DOMAIN dirs = 1..N /\ \A i \in 1..N : [k \in DOMAIN dirs |-> k][i] = i
  BY ListIs
<1>2. ASSUME NEW v \in V, NEW i \in 1..N
      PROVE  Enter(v, i, FindChildRoute(v.routes, dirs[i], i = Len(dirs))) \in V
  BY EnterVisited
<1>4. base \in V
  <2> DEFINE S == UNION {ToSet(dirs[k]) : k \in 1..Len(dirs)}
  <2>1. ASSUME NEW i \in 1..Len(dirs) PROVE dirs[i] \in Seq(S)
    <3>1. \A k \in 1..Len(dirs[i]) : dirs[i][k] \in ToSet(dirs[i])
      BY ListIs
    <3>2. ToSet(dirs[i]) \subseteq S
      OBVIOUS
    <3> HIDE DEF S
    <3>3. \A k \in 1..Len(dirs[i]) : dirs[i][k] \in S
      BY <3>1, <3>2
    <3> DEFINE d == dirs[i]
    <3>4. IsList(d) /\ \A k \in 1..Len(d) : d[k] \in S
      BY <3>3
    <3> HIDE DEF d
    <3>5. d \in Seq(S)
      BY <3>4, ListWithin
    <3> QED
      BY <3>5 DEF d
  <2> HIDE DEF S
  <2>2. dirs \in [1..Len(dirs) -> Seq(S)]
    BY <2>1, ListIs
  <2>3. "" \in PageNames /\ Root \in RouteLists
    BY DEF PageNames, RouteLists
  <2> QED
    BY <2>2, <2>3 DEF Visited, S
<1>3. step \in [(1..N) \X V -> V]
  <2>1. ASSUME NEW m \in (1..N) \X V
        PROVE  Enter(m[2], [i \in DOMAIN dirs |-> i][m[1]],
                   FindChildRoute(m[2].routes, dirs[[i \in DOMAIN dirs |-> i][m[1]]],
                   [i \in DOMAIN dirs |-> i][m[1]] = Len(dirs))) \in V
    BY <1>1, <1>2
  <2> QED
    BY <2>1
<1>5. PICK it \in [SUBSET (1..N) -> V] : Folded(N, base, step, it)
  <2> HIDE DEF N, V, step, base
  <2> QED
    BY <1>1, <1>3, <1>4, FoldExists
<1>6. Iter(it)
  <2>1. ASSUME NEW s \in SUBSET (1..N), s # {}
        PROVE  step[<<Max(s), it[s \ {Max(s)}]>>] = Enter(it[s \ {Max(s)}],
                   [i \in DOMAIN dirs |-> i][Max(s)], FindChildRoute(it[s \ {Max(s)}].routes,
                   dirs[[i \in DOMAIN dirs |-> i][Max(s)]], [i \in DOMAIN dirs |-> i][Max(s)] = Len(dirs)))
    <3>1. Max(s) \in s
      BY <1>1, <2>1, GreatestIndex
    <3>2. s \ {Max(s)} \in SUBSET (1..N) /\ Max(s) \in 1..N
      BY <3>1
    <3>3. <<Max(s), it[s \ {Max(s)}]>> \in (1..N) \X V
      BY <1>5, <3>2
    <3> QED
      BY <3>3
  <2> HIDE DEF step, V, N, base
  <2> QED
    BY <1>5, <2>1 DEF Folded
<1> DEFINE iter == CHOOSE g : Iter(g)
<1>7. Iter(iter)
  <2> HIDE DEF Iter
  <2> QED
    BY <1>6
<1>8. FindRoute(dirs) = iter[1..N]
  BY <1>1 DEF FindRoute, FoldLeft, MapThenFoldSet
<1> HIDE DEF iter
<1> DEFINE at == [n \in 0..N |-> iter[1..n]]
<1>9. at[0] = base
  <2>1. 1..0 = {} /\ {} \in SUBSET (1..N) /\ 0 \in 0..N
    BY <1>1
  <2> HIDE DEF base
  <2> QED
    BY <1>7, <2>1
<1>10. ASSUME NEW n \in 1..N
       PROVE  at[n] = Enter(at[n - 1], [i \in DOMAIN dirs |-> i][n],
                  FindChildRoute(at[n - 1].routes, dirs[[i \in DOMAIN dirs |-> i][n]],
                  [i \in DOMAIN dirs |-> i][n] = Len(dirs)))
  <2>1. 1..n \in SUBSET (1..N) /\ 1..n # {} /\ Max(1..n) = n /\ (1..n) \ {n} = 1..(n - 1)
    BY <1>1, FirstNumbers
  <2>2. iter[1..n] = Enter(iter[(1..n) \ {Max(1..n)}], [i \in DOMAIN dirs |-> i][Max(1..n)],
            FindChildRoute(iter[(1..n) \ {Max(1..n)}].routes, dirs[[i \in DOMAIN dirs |-> i][Max(1..n)]],
            [i \in DOMAIN dirs |-> i][Max(1..n)] = Len(dirs)))
    <3> HIDE DEF N, base
    <3> QED
      BY <1>7, <2>1
  <2>3. n \in 0..N /\ n - 1 \in 0..N
    BY <1>1
  <2> QED
    BY <2>1, <2>2, <2>3
<1> HIDE DEF at
<1>14. ASSUME NEW n \in 1..N
       PROVE  at[n] = Enter(at[n - 1], n, FindChildRoute(at[n - 1].routes, dirs[n], n = Len(dirs)))
  <2>1. [i \in DOMAIN dirs |-> i][n] = n
    BY <1>1
  <2> QED
    BY <1>10, <2>1
<1>11. \A n \in 0..N : at[n] \in V
  <2> DEFINE Good == {n \in Nat : n <= N => at[n] \in V}
  <2>1. 0 \in Good
    BY <1>4, <1>9
  <2>2. ASSUME NEW n \in Nat, n \in Good PROVE n + 1 \in Good
    <3>1. SUFFICES ASSUME n + 1 <= N PROVE at[n + 1] \in V
      OBVIOUS
    <3>2. at[n] \in V /\ n + 1 \in 1..N /\ (n + 1) - 1 = n
      BY <1>1, <2>2, <3>1
    <3>3. at[n + 1] = Enter(at[(n + 1) - 1], n + 1, FindChildRoute(at[(n + 1) - 1].routes, dirs[n + 1],
              n + 1 = Len(dirs)))
      BY <1>14, <3>2
    <3> HIDE DEF V, N
    <3>4. Enter(at[n], n + 1, FindChildRoute(at[n].routes, dirs[n + 1], n + 1 = Len(dirs))) \in V
      BY <1>2, <3>2
    <3> QED
      BY <3>2, <3>3, <3>4
  <2>3. Nat \subseteq Good
    <3> HIDE DEF Good
    <3> QED
      BY <2>1, <2>2, Induction
  <2> QED
    BY <1>1, <2>3
<1>12. at \in [0..N -> V] /\ FindRoute(dirs) = at[N]
  BY <1>1, <1>8, <1>11 DEF at
<1>13. RoutesBy(dirs, at)
  BY <1>1, <1>9, <1>12, <1>14 DEF RoutesBy
<1> QED
  BY <1>13

\* A route that is found has a page of the site, and its directories are those asked, or a part of them.
LEMMA RouteFound ==
  ASSUME NEW dirs, IsList(dirs), Len(dirs) >= 1, \A i \in 1..Len(dirs) : IsList(dirs[i])
  PROVE  /\ FindRoute(dirs) \in Visited(dirs)
         /\ FindRoute(dirs).page \notin PlainPages => Len(dirs) = 1 \/ Len(dirs) = 2
         /\ Len(dirs) = 2 =>
               /\ FindRoute(dirs).page = "search" => FindRoute(dirs).dirs[1] \in Sections
               /\ FindRoute(dirs).page \in HtmlLists => FindRoute(dirs).dirs[2] \in Orders(FindRoute(dirs).page)
<1>1. PICK at : RoutesBy(dirs, at)
  BY RouteSteps
<1> DEFINE N == Len(dirs)
<1>2. N \in Nat \ {0} /\ DOMAIN dirs = 1..N
  BY ListIs
<1>3. /\ at \in [0..N -> Visited(dirs)] /\ at[0] = [page |-> "", routes |-> Root, dirs |-> dirs]
      /\ FindRoute(dirs) = at[N]
      /\ \A n \in 1..N : at[n] = Enter(at[n - 1], n, FindChildRoute(at[n - 1].routes, dirs[n], n = Len(dirs)))
  BY <1>1 DEF RoutesBy
<1>11. at \in [0..N -> Visited(dirs)] /\ FindRoute(dirs) = at[N]
  BY <1>3
<1>12. at[0] = [page |-> "", routes |-> Root, dirs |-> dirs]
  BY <1>3
<1>13. ASSUME NEW n \in 1..N
       PROVE  at[n] = Enter(at[n - 1], n, FindChildRoute(at[n - 1].routes, dirs[n], n = Len(dirs)))
  BY <1>3
<1>4. FindRoute(dirs) \in Visited(dirs)
  BY <1>2, <1>11
<1>5. \/ at[1].routes \in QuietRoutes
      \/ at[1].routes \in {PlayersRoutes, ClansRoutes, ServersRoutes} /\ at[1].dirs[1] \in Sections
  <2>1. at[1] = Enter(at[0], 1, FindChildRoute(at[0].routes, dirs[1], 1 = Len(dirs)))
    <3>1. 1 \in 1..N /\ 1 - 1 = 0
      BY <1>2
    <3> QED
      BY <1>13, <3>1
  <2>2. at[0].routes = Root
    <3> DEFINE start == [page |-> "", routes |-> Root, dirs |-> dirs]
    <3>1. start.routes = Root
      OBVIOUS
    <3>2. at[0] = start
      BY <1>12
    <3> HIDE DEF start
    <3> QED
      BY <3>1, <3>2
  <2>3. at[1] = Enter([page |-> "", routes |-> Root, dirs |-> dirs], 1,
            FindChildRoute(Root, dirs[1], 1 = Len(dirs)))
    BY <1>12, <2>1, <2>2
  <2> QED
    BY <1>2, <2>3, FirstEntered
<1>15. ASSUME N >= 2 PROVE at[1].dirs[2] = dirs[2]
  <2>1. 1 \in 1..N /\ 2 \in 1..N /\ 1 - 1 = 0
    BY <1>2, <1>15
  <2> DEFINE c == FindChildRoute(at[0].routes, dirs[1], 1 = Len(dirs))
             start == [page |-> "", routes |-> Root, dirs |-> dirs]
  <2>2. at[1] = Enter(at[0], 1, c)
    BY <1>13, <2>1
  <2>3. start.dirs = dirs
    OBVIOUS
  <2>4. at[0] = start
    BY <1>12
  <2> HIDE DEF c, start
  <2>5. at[0].dirs = dirs
    BY <2>3, <2>4
  <2>6. Enter(at[0], 1, c).dirs[2] = dirs[2]
    BY <1>2, <2>1, <2>5 DEF Enter
  <2> QED
    BY <2>2, <2>6
<1>6. "" \in PageNames /\ "" \in PlainPages /\ <<>> \in LastRoutes /\ <<>> \in {<<>>}
  BY DEF PageNames, LastRoutes, PlainPages
<1>14. ASSUME NEW page \in PlainPages PROVE page # "search" /\ page \notin HtmlLists
  BY DEF PlainPages, HtmlLists
<1>7. ASSUME N >= 2
      PROVE  /\ at[2].routes \in LastRoutes
             /\ at[2].page = "search" => at[2].dirs[1] \in Sections
             /\ at[2].page \in HtmlLists => at[2].dirs[2] \in Orders(at[2].page)
  <2>1. 2 \in 1..N /\ 1 \in 0..N /\ 2 - 1 = 1
    BY <1>2, <1>7
  <2>2. at[2] = Enter(at[1], 2, FindChildRoute(at[1].routes, dirs[2], 2 = Len(dirs)))
    BY <1>13, <2>1
  <2>3. CASE at[1].routes \in QuietRoutes
    <3>1. IsList(at[1].routes) /\ \A r \in ToSet(at[1].routes) : Known(r, PlainPages, LastRoutes)
      BY <2>3, QuietChildren
    <3>2. at[2].routes \in LastRoutes /\ at[2].page \in PlainPages
      <4> DEFINE v == at[1]
             c == FindChildRoute(v.routes, dirs[2], 2 = Len(dirs))
      <4>1. IsList(v.routes) /\ \A r \in ToSet(v.routes) : Known(r, PlainPages, LastRoutes)
        BY <3>1
      <4>2. at[2] = Enter(v, 2, c)
        BY <2>2
      <4> HIDE DEF v
      <4>3. Enter(v, 2, c).page \in PlainPages /\ Enter(v, 2, c).routes \in LastRoutes
        BY <1>6, <4>1, Entered
      <4> QED
        BY <4>2, <4>3
    <3> QED
      BY <1>14, <3>2
  <2>4. CASE at[1].routes \in {PlayersRoutes, ClansRoutes, ServersRoutes} /\ at[1].dirs[1] \in Sections
    <3>5. IsList(at[1].routes) /\ \A r \in ToSet(at[1].routes) : InSection(r)
      BY <2>4, SectionChildren
    <3>4. IsList(at[1].routes) /\ \A r \in ToSet(at[1].routes) : Known(r, PageNames, LastRoutes)
      BY <3>5 DEF InSection
    <3>1. at[2].routes \in LastRoutes
      <4> DEFINE v == at[1]
             c == FindChildRoute(v.routes, dirs[2], 2 = Len(dirs))
      <4>1. IsList(v.routes) /\ \A r \in ToSet(v.routes) : Known(r, PageNames, LastRoutes)
        BY <3>4
      <4>2. at[2] = Enter(v, 2, c)
        BY <2>2
      <4> HIDE DEF v
      <4>3. Enter(v, 2, c).page \in PageNames /\ Enter(v, 2, c).routes \in LastRoutes
        BY <1>6, <4>1, Entered
      <4> QED
        BY <4>2, <4>3
    <3>2. at[1].dirs \in [1..N -> Seq(UNION {ToSet(dirs[k]) : k \in 1..Len(dirs)})]
      BY <1>3, <2>1 DEF Visited
    <3> DEFINE c == FindChildRoute(at[1].routes, dirs[2], 2 = Len(dirs))
    <3>3. Enter(at[1], 2, c).dirs[1] = at[1].dirs[1]
      <4> HIDE DEF c
      <4>1. 1 \in 1..N
        BY <1>2
      <4> QED
        BY <3>2, <4>1 DEF Enter
    <3>6. ASSUME c = 0 PROVE Enter(at[1], 2, c).page \notin HtmlLists
      <4> HIDE DEF c
      <4>1. Enter(at[1], 2, c).page = ""
        BY <3>6 DEF Enter
      <4>2. "" \notin HtmlLists
        BY DEF HtmlLists
      <4> QED
        BY <4>1, <4>2
    <3>7. ASSUME c # 0, Enter(at[1], 2, c).page \in HtmlLists
          PROVE  Enter(at[1], 2, c).dirs[2] \in Orders(Enter(at[1], 2, c).page)
      <4> DEFINE r == at[1].routes[c]
      <4>1. c \in 1..Len(at[1].routes) /\ RouteMatch(r, dirs[2])
        BY <3>4, <3>7, ChildFound DEF Candidates
      <4>2. r \in ToSet(at[1].routes)
        BY <3>4, <4>1, ListIs
      <4> HIDE DEF c
      <4>3. Enter(at[1], 2, c).page = r.page /\ Enter(at[1], 2, c).dirs[2] = Cut(at[1].dirs[2], r.ext)
        <5>1. 2 \in 1..N
          BY <2>1
        <5> QED
          BY <3>2, <3>7, <5>1 DEF Enter
      <4> HIDE DEF r
      <4>4. r.name \in Orders(r.page) /\ r.page \in HtmlLists
        <5>1. InSection(r)
          BY <3>5, <4>2
        <5> QED
          BY <3>7, <4>3, <5>1 DEF InSection
      <4>5. r.name # Star
        BY <4>4 DEF Orders, HtmlLists, Star
      <4>6. r.name = Cut(dirs[2], r.ext)
        BY <4>1, <4>5 DEF RouteMatch
      <4> QED
        BY <1>15, <1>7, <4>3, <4>4, <4>6
    <3> QED
      BY <2>2, <2>4, <3>1, <3>3, <3>6, <3>7
  <2> QED
    BY <1>5, <2>3, <2>4
<1>8. ASSUME N >= 3 PROVE at[3].routes = <<>> /\ at[3].page \in PlainPages
  <2>1. 3 \in 1..N /\ 3 - 1 = 2
    BY <1>2, <1>8
  <2>2. at[3] = Enter(at[2], 3, FindChildRoute(at[2].routes, dirs[3], 3 = Len(dirs)))
    BY <1>13, <2>1
  <2>3. at[2].routes \in LastRoutes
    BY <1>2, <1>7, <1>8
  <2>5. IsList(at[2].routes) /\ \A r \in ToSet(at[2].routes) : Known(r, PlainPages, {<<>>})
    BY <2>3, LastChildren
  <2>4. at[3].routes \in {<<>>} /\ at[3].page \in PlainPages
    <3> DEFINE v == at[2]
           c == FindChildRoute(v.routes, dirs[3], 3 = Len(dirs))
    <3>1. IsList(v.routes) /\ \A r \in ToSet(v.routes) : Known(r, PlainPages, {<<>>})
      BY <2>5
    <3>2. at[3] = Enter(v, 3, c)
      BY <2>2
    <3> HIDE DEF v
    <3>3. Enter(v, 3, c).page \in PlainPages /\ Enter(v, 3, c).routes \in {<<>>}
      BY <1>6, <3>1, Entered
    <3> QED
      BY <3>2, <3>3
  <2> QED
    BY <2>4
<1>9. ASSUME NEW n \in 3..N PROVE at[n].routes = <<>> /\ at[n].page \in PlainPages
  <2> DEFINE Good == {k \in Nat : k + 3 <= N => at[k + 3].routes = <<>> /\ at[k + 3].page \in PlainPages}
  <2>1. 0 \in Good
    BY <1>8
  <2>2. ASSUME NEW k \in Nat, k \in Good PROVE k + 1 \in Good
    <3>1. SUFFICES ASSUME (k + 1) + 3 <= N PROVE at[(k + 1) + 3].routes = <<>> /\ at[(k + 1) + 3].page \in PlainPages
      OBVIOUS
    <3>2. (k + 1) + 3 \in 1..N /\ ((k + 1) + 3) - 1 = k + 3 /\ at[k + 3].routes = <<>>
      BY <1>2, <2>2, <3>1
    <3>3. at[(k + 1) + 3] = Enter(at[k + 3], (k + 1) + 3,
              FindChildRoute(at[k + 3].routes, dirs[(k + 1) + 3], (k + 1) + 3 = Len(dirs)))
      <4> HIDE DEF N, Good
      <4>1. at[(k + 1) + 3] = Enter(at[((k + 1) + 3) - 1], (k + 1) + 3,
                FindChildRoute(at[((k + 1) + 3) - 1].routes, dirs[(k + 1) + 3], (k + 1) + 3 = Len(dirs)))
        BY <1>13, <3>2
      <4> QED
        BY <3>2, <4>1
    <3>4. FindChildRoute(<<>>, dirs[(k + 1) + 3], (k + 1) + 3 = Len(dirs)) = 0
      <4>1. Candidates(<<>>, dirs[(k + 1) + 3], (k + 1) + 3 = Len(dirs)) = {}
        BY EmptyList DEF Candidates
      <4> QED
        BY <4>1, EmptyList, ChildFound
    <3> HIDE DEF N, Good
    <3>5. at[(k + 1) + 3] = [page |-> "", routes |-> <<>>, dirs |-> at[k + 3].dirs]
      BY <3>2, <3>3, <3>4 DEF Enter
    <3> DEFINE last == [page |-> "", routes |-> <<>>, dirs |-> at[k + 3].dirs]
    <3>6. last.routes = <<>> /\ last.page \in PlainPages
      BY <1>6
    <3>7. at[(k + 1) + 3] = last
      BY <3>5
    <3> HIDE DEF last
    <3> QED
      BY <3>6, <3>7
  <2>3. Nat \subseteq Good
    <3> HIDE DEF Good
    <3> QED
      BY <2>1, <2>2, Induction
  <2>4. n - 3 \in Nat /\ (n - 3) + 3 = n /\ n <= N
    BY <1>2
  <2> QED
    BY <2>3, <2>4
<1>10. ASSUME FindRoute(dirs).page \notin PlainPages, N # 1 PROVE N = 2
  <2>1. N < 3
    <3>1. N >= 3 => N \in 3..N
      BY <1>2
    <3> QED
      BY <1>2, <1>9, <1>10, <1>11, <3>1
  <2> QED
    BY <1>2, <1>10, <2>1
<1>16. ASSUME N = 2
       PROVE  /\ FindRoute(dirs).page = "search" => FindRoute(dirs).dirs[1] \in Sections
              /\ FindRoute(dirs).page \in HtmlLists => FindRoute(dirs).dirs[2] \in Orders(FindRoute(dirs).page)
  <2>1. FindRoute(dirs) = at[2] /\ N >= 2
    BY <1>11, <1>16
  <2> QED
    BY <1>7, <2>1
<1> QED
  BY <1>4, <1>10, <1>16

-----------------------------------------------------------------------------
\* The rows of the tables are lists.
LEMMA TablesListed ==
  ASSUME NEW d, IsDatabase(d)
  PROVE  /\ IsList(d.players) /\ Once(d.players) /\ \A pl \in ToSet(d.players) : IsPlayer(pl)
         /\ \A p, q \in ToSet(d.players) : p.name = q.name => p = q
         /\ IsList(d.servers) /\ Once(d.servers) /\ \A s \in ToSet(d.servers) : IsServer(s)
<1>1. /\ IsList(d.players) /\ \A i \in DOMAIN d.players : IsPlayer(d.players[i])
      /\ IsList(d.servers) /\ \A i \in DOMAIN d.servers : IsServer(d.servers[i])
      /\ \A i, j \in DOMAIN d.players : d.players[i].name = d.players[j].name => i = j
      /\ \A i, j \in DOMAIN d.servers :
           d.servers[i].ip = d.servers[j].ip /\ d.servers[i].port = d.servers[j].port => i = j
  BY DEF IsDatabase
<1>2. /\ DOMAIN d.players = 1..Len(d.players) /\ ToSet(d.players) = {d.players[i] : i \in 1..Len(d.players)}
      /\ DOMAIN d.servers = 1..Len(d.servers) /\ ToSet(d.servers) = {d.servers[i] : i \in 1..Len(d.servers)}
  BY <1>1, ListIs
<1>3. Once(d.players) /\ Once(d.servers)
  BY <1>1, <1>2 DEF Once
<1>4. \A p, q \in ToSet(d.players) : p.name = q.name => p = q
  <2>1. SUFFICES ASSUME NEW p \in ToSet(d.players), NEW q \in ToSet(d.players), p.name = q.name PROVE p = q
    OBVIOUS
  <2>2. PICK i \in 1..Len(d.players) : p = d.players[i]
    BY <1>2
  <2>3. PICK j \in 1..Len(d.players) : q = d.players[j]
    BY <1>2
  <2>4. i = j
    BY <1>1, <1>2, <2>1, <2>2, <2>3
  <2> QED
    BY <2>2, <2>3, <2>4
<1>5. (\A pl \in ToSet(d.players) : IsPlayer(pl)) /\ (\A s \in ToSet(d.servers) : IsServer(s))
  BY <1>1, <1>2
<1> QED
  BY <1>1, <1>3, <1>4, <1>5

LEMMA MembersListed ==
  ASSUME NEW d, IsDatabase(d), NEW clan
  PROVE  /\ IsList(Members(d, clan)) /\ Once(Members(d, clan))
         /\ ToSet(Members(d, clan)) = {pl \in ToSet(d.players) : pl.clan = clan}
         /\ Len(Members(d, clan)) \in 0..Len(d.players)
         /\ clan \in ClanNames(d) => Len(Members(d, clan)) # 0
<1> DEFINE K == {i \in DOMAIN d.players : d.players[i].clan = clan}
           s == d.players
           m == Select(s, K)
<1>1. IsList(s) /\ Once(s)
  BY TablesListed
<1>2. DOMAIN s = 1..Len(s) /\ ToSet(s) = {s[i] : i \in 1..Len(s)} /\ Len(s) \in Nat
  BY <1>1, ListIs
<1>3. Members(d, clan) = m
  BY DEF Members
<1>5. K \cap (1..Len(s)) = K
  BY <1>2
<1>6. {s[i] : i \in K} = {pl \in ToSet(s) : pl.clan = clan}
  BY <1>2
<1>7. clan \in ClanNames(d) => \E i \in K : TRUE
  BY DEF ClanNames
<1> HIDE DEF K
<1>4. IsList(m) /\ Len(m) \in 0..Len(s) /\ ToSet(m) = {s[i] : i \in K \cap (1..Len(s))} /\ Once(m)
  <2> HIDE DEF s
  <2> QED
    BY <1>1, SelectedList
<1>8. clan \in ClanNames(d) => ToSet(m) # {}
  BY <1>4, <1>5, <1>7
<1>9. Len(m) = 0 => ToSet(m) = {}
  <2>1. ToSet(m) = {m[i] : i \in 1..Len(m)}
    BY <1>4, ListIs
  <2>2. 1..0 = {}
    OBVIOUS
  <2> HIDE DEF m
  <2> QED
    BY <2>1, <2>2
<1> HIDE DEF m, s
<1>10. ToSet(m) = {pl \in ToSet(s) : pl.clan = clan}
  BY <1>4, <1>5, <1>6
<1>11. clan \in ClanNames(d) => Len(m) # 0
  BY <1>8, <1>9
<1> QED
  BY <1>3, <1>4, <1>10, <1>11 DEF s

LEMMA ClansListed ==
  ASSUME NEW d, IsDatabase(d)
  PROVE  IsList(Clans(d)) /\ Once(Clans(d)) /\ ToSet(Clans(d)) = ClanNames(d)
<1> DEFINE s == d.players
           F == {i \in DOMAIN d.players : /\ d.players[i].clan # <<>>
                                          /\ \A j \in 1..(i - 1) : d.players[j].clan # d.players[i].clan}
           f == Select(s, F)
           c == [i \in DOMAIN f |-> f[i].clan]
<1>1. IsList(s) /\ s \in Seq(ToSet(s))
  BY TablesListed DEF IsList
<1>2. DOMAIN s = 1..Len(s) /\ Len(s) \in Nat
  BY <1>1, ListIs
<1>3. Clans(d) = c
  BY DEF Clans
<1>4. f \in Seq(ToSet(s)) /\ \E place : Located(f, s, F \cap (1..Len(s)), place)
  <2> HIDE DEF s, F
  <2> QED
    BY <1>1, SelectPlaces
<1>5. F \cap (1..Len(s)) = F
  BY <1>2
<1> DEFINE K == F \cap (1..Len(s))
<1>6. PICK place : Located(f, s, K, place)
  BY <1>4
<1>7. /\ place \in [1..Len(f) -> F]
      /\ \A k \in 1..Len(f) : f[k] = s[place[k]]
      /\ \A k, j \in 1..Len(f) : k < j => place[k] < place[j]
      /\ \A i \in F : \E k \in 1..Len(f) : place[k] = i
  <2> HIDE DEF f, F
  <2> QED
    BY <1>5, <1>6 DEF Located
<1>8. Len(f) \in Nat /\ DOMAIN f = 1..Len(f)
  <2> HIDE DEF f
  <2> QED
    BY <1>4, LenProperties
<1>9. c = [i \in 1..Len(f) |-> f[i].clan]
  BY <1>8
<1>10. \A i \in F : i \in Nat /\ i \in 1..Len(s) /\ s[i].clan # <<>> /\ \A j \in 1..(i - 1) : s[j].clan # s[i].clan
  BY <1>2
<1>11. ASSUME NEW i \in 1..Len(s), s[i].clan # <<>> PROVE \E j \in F : s[j].clan = s[i].clan
  <2> DEFINE T == {j \in 1..Len(s) : s[j].clan = s[i].clan}
  <2>1. T \in SUBSET Nat /\ i \in T
    BY <1>2
  <2>2. PICK j \in T : \A k \in T : j <= k
    <3> HIDE DEF T
    <3> QED
      BY <2>1, LeastNatural
  <2>3. ASSUME NEW k \in 1..(j - 1) PROVE s[k].clan # s[j].clan
    <3>1. k \in 1..Len(s) /\ ~(j <= k)
      BY <1>2
    <3>2. k \notin T
      BY <2>2, <3>1
    <3> QED
      BY <3>1, <3>2
  <2>4. j \in F
    BY <1>2, <1>11, <2>3
  <2> QED
    BY <2>4
<1> HIDE DEF f, F, K
<1>12. IsList(c) /\ Len(c) = Len(f) /\ ToSet(c) = {c[i] : i \in 1..Len(f)}
  <2> DEFINE n == Len(f)
  <2>1. n \in Nat /\ c = [i \in 1..n |-> c[i]]
    BY <1>8, <1>9
  <2> HIDE DEF c, n
  <2>2. IsList(c) /\ Len(c) = n /\ ToSet(c) = {c[i] : i \in 1..n}
    BY <2>1, ListMade
  <2> QED
    BY <2>2 DEF n
<1>13. \A k \in 1..Len(f) : c[k] = s[place[k]].clan /\ place[k] \in F
  BY <1>7, <1>9
<1> HIDE DEF c
<1>14. Once(c)
  <2>1. SUFFICES ASSUME NEW i \in 1..Len(f), NEW k \in 1..Len(f), c[i] = c[k], i # k PROVE FALSE
    BY <1>12 DEF Once
  <2>2. s[place[i]].clan = s[place[k]].clan /\ place[i] \in F /\ place[k] \in F
    BY <1>13, <2>1
  <2>3. place[i] < place[k] \/ place[k] < place[i]
    BY <1>7, <1>8, <2>1
  <2>4. place[i] \in Nat \ {0} /\ place[k] \in Nat \ {0}
    BY <1>10, <2>2
  <2>5. CASE place[i] < place[k]
    <3>1. place[i] \in 1..(place[k] - 1)
      BY <2>4, <2>5
    <3> QED
      BY <1>10, <2>2, <3>1
  <2>6. CASE place[k] < place[i]
    <3>1. place[k] \in 1..(place[i] - 1)
      BY <2>4, <2>6
    <3> QED
      BY <1>10, <2>2, <3>1
  <2> QED
    BY <2>3, <2>5, <2>6
<1>15. ToSet(c) = ClanNames(d)
  <2>1. ASSUME NEW x \in ToSet(c) PROVE x \in ClanNames(d)
    <3>1. PICK k \in 1..Len(f) : x = c[k]
      BY <1>12
    <3>2. x = s[place[k]].clan /\ place[k] \in 1..Len(s) /\ s[place[k]].clan # <<>>
      BY <1>10, <1>13, <3>1
    <3> QED
      BY <1>2, <3>2 DEF ClanNames
  <2>2. ASSUME NEW x \in ClanNames(d) PROVE x \in ToSet(c)
    <3>1. PICK i \in DOMAIN s : x = s[i].clan /\ x # <<>>
      BY DEF ClanNames
    <3>2. PICK j \in F : s[j].clan = x
      BY <1>2, <1>11, <3>1
    <3>3. PICK k \in 1..Len(f) : place[k] = j
      BY <1>7
    <3>4. c[k] = x
      BY <1>13, <3>2, <3>3
    <3> QED
      BY <1>12, <3>4
  <2> QED
    BY <2>1, <2>2
<1> QED
  BY <1>3, <1>12, <1>14, <1>15

LEMMA ClanRowsListed ==
  ASSUME NEW d, IsDatabase(d), NEW page \in {"clan_list", "json_clan_list"}, NEW order
  PROVE  /\ IsList(Rows(d, page, order)) /\ Once(Rows(d, page, order))
         /\ ToSet(Rows(d, page, order)) = ClanNames(d)
<1> DEFINE c == Clans(d)
           n == Len(d.players)
           key == [i \in DOMAIN c |-> n + 1 - Len(Members(d, c[i]))]
<1>1. Rows(d, page, order) = SortedBy(c, key, n)
  BY DEF Rows
<1>2. IsList(c) /\ Once(c) /\ ToSet(c) = ClanNames(d)
  BY ClansListed
<1>3. n \in Nat
  BY TablesListed, ListIs
<1>4. ASSUME NEW i \in 1..Len(c) PROVE key[i] \in 1..n
  <2>1. c[i] \in ClanNames(d) /\ DOMAIN c = 1..Len(c)
    BY <1>2, ListIs
  <2>2. Len(Members(d, c[i])) \in 0..n /\ Len(Members(d, c[i])) # 0
    BY <2>1, MembersListed
  <2>3. key[i] = n + 1 - Len(Members(d, c[i]))
    BY <2>1
  <2> HIDE DEF n, key
  <2> QED
    BY <1>3, <2>2, <2>3
<1> HIDE DEF c, n, key
<1>5. IsList(SortedBy(c, key, n)) /\ ToSet(SortedBy(c, key, n)) = ToSet(c) /\ Once(SortedBy(c, key, n))
  BY <1>2, <1>3, <1>4, ListSorted
<1> QED
  BY <1>1, <1>2, <1>5

LEMMA PlayerRowsListed ==
  ASSUME NEW d, IsDatabase(d), NEW page \in {"player_list", "json_player_list"}, NEW order
  PROVE  /\ IsList(Rows(d, page, order)) /\ Once(Rows(d, page, order))
         /\ ToSet(Rows(d, page, order)) \subseteq ToSet(d.players)
<1> DEFINE s == d.players
           K == {i \in DOMAIN d.players : d.players[i].ranked}
           r == Select(s, K)
<1>1. IsList(s) /\ Once(s)
  BY TablesListed
<1>2. ToSet(s) = {s[i] : i \in 1..Len(s)}
  BY <1>1, ListIs
<1>3. RankedPlayers(d) = r
  BY DEF RankedPlayers
<1>4. Rows(d, page, order) = r \/ Rows(d, page, order) = Reverse(r)
  BY <1>3 DEF Rows
<1> HIDE DEF s, K
<1>5. IsList(r) /\ Once(r) /\ ToSet(r) = {s[i] : i \in K \cap (1..Len(s))}
  BY <1>1, SelectedList
<1> HIDE DEF r
<1>6. IsList(Reverse(r)) /\ Once(Reverse(r)) /\ ToSet(Reverse(r)) = ToSet(r)
  BY <1>5, ReversedList
<1>7. ToSet(r) \subseteq ToSet(s)
  BY <1>2, <1>5
<1> QED
  BY <1>4, <1>5, <1>6, <1>7 DEF s

LEMMA ServerRowsListed ==
  ASSUME NEW d, IsDatabase(d), NEW page \in {"server_list", "json_server_list"}, NEW order
  PROVE  /\ IsList(Rows(d, page, order)) /\ Once(Rows(d, page, order))
         /\ ToSet(Rows(d, page, order)) = ToSet(d.servers)
<1>1. Rows(d, page, order) = d.servers
  BY DEF Rows
<1> QED
  BY <1>1, TablesListed

LEMMA ServerIs ==
  ASSUME NEW s, IsServer(s)
  PROVE  IsList(s.ip) /\ IsList(s.port) /\ IsList(s.name)
  BY IpTextList, DecimalList DEF IsServer, PortText

-----------------------------------------------------------------------------
\* Every link of a page is an URL.

\* The links of a part of a page.
AllUrls(links) == \A l \in links : IsUrl(l.href)

\* A path and its arguments are an URL.
LEMMA LinkUrl ==
  ASSUME NEW path, IsList(path), NEW args, IsList(args), \A i \in 1..Len(args) : IsList(args[i].val),
             NEW page, NEW of
  PROVE  IsUrl(Link(path, args, page, of).href) /\ IsUrl(Url(path, args))
<1>1. DOMAIN args = 1..Len(args)
  BY ListIs
<1> DEFINE u == Url(path, args)
<1>2. u.path = path /\ u.args = args /\ u = Url(u.path, u.args)
  BY DEF Url
<1>3. Link(path, args, page, of).href = u
  BY DEF Link
<1> HIDE DEF u
<1>4. IsUrl(u)
  BY <1>1, <1>2 DEF IsUrl
<1> QED
  BY <1>3, <1>4 DEF u

LEMMA PlainUrl ==
  ASSUME NEW path, IsList(path), NEW page, NEW of
  PROVE  IsUrl(Link(path, <<>>, page, of).href) /\ IsUrl(Url(path, <<>>))
<1>1. IsList(<<>>) /\ \A i \in 1..Len(<<>>) : IsList(<<>>[i].val)
  BY EmptyList
<1> QED
  BY <1>1, LinkUrl

LEMMA NamedUrl ==
  ASSUME NEW path, IsList(path), NEW name, NEW val, IsList(val), NEW page, NEW of
  PROVE  /\ IsUrl(Link(path, <<[name |-> name, val |-> val]>>, page, of).href)
         /\ IsUrl(Url(path, <<[name |-> name, val |-> val]>>))
<1> DEFINE arg == [name |-> name, val |-> val]
           args == <<arg>>
<1>1. IsList(args) /\ Len(args) = 1 /\ args[1] = arg /\ arg.val = val
  BY Single
<1>2. \A i \in 1..Len(args) : IsList(args[i].val)
  <2> HIDE DEF args, arg
  <2> QED
    BY <1>1
<1> HIDE DEF args
<1>3. IsUrl(Link(path, args, page, of).href) /\ IsUrl(Url(path, args))
  BY <1>1, <1>2, LinkUrl
<1> QED
  BY <1>3 DEF args

\* The links of a row of a list.
LEMMA EntryUrls ==
  ASSUME NEW pl, IsList(pl.name), IsList(pl.clan), \A s \in pl.online : IsList(s[1]) /\ IsList(s[2])
  PROVE  AllUrls(PlayerEntry(pl))
<1>1. IsUrl(PlayerLink(pl.name).href)
  <2>1. IsList(<<"/", "player", "/">> \o UrlEncode(pl.name))
    BY UrlEncodeList, PathList
  <2> QED
    BY <2>1, PlainUrl DEF PlayerLink
<1>2. IsUrl(ClanLink(pl.clan).href)
  <2>1. IsList(<<"/", "clan", "/">> \o UrlEncode(pl.clan))
    BY UrlEncodeList, PathList
  <2> QED
    BY <2>1, PlainUrl DEF ClanLink
<1>3. ASSUME NEW s \in pl.online PROVE IsUrl(ServerLink(s[1], s[2]).href)
  <2>1. IsList(<<"/", "server", "/">> \o BuildAddr(s[1], s[2]))
    BY AddrList, PathList
  <2> QED
    BY <2>1, PlainUrl DEF ServerLink
<1> QED
  BY <1>1, <1>2, <1>3 DEF AllUrls, PlayerEntry

LEMMA PlayerIs ==
  ASSUME NEW pl, IsPlayer(pl)
  PROVE  /\ IsList(pl.name) /\ IsList(pl.clan) /\ \A s \in pl.online : IsList(s[1]) /\ IsList(s[2])
         /\ pl = [name |-> pl.name, clan |-> pl.clan, ranked |-> pl.ranked, online |-> pl.online]
  BY ListIn DEF IsPlayer, Naming

LEMMA ClientUrls ==
  ASSUME NEW d, IsDatabase(d), NEW c, IsPlayer(c)
  PROVE  AllUrls(ClientEntry(d, c))
<1> DEFINE K == {i \in DOMAIN d.players : d.players[i].name = c.name}
           s == d.players
           found == Select(s, K)
           pl == IF found = <<>> THEN c ELSE found[1]
           q == [pl EXCEPT !.online = {}]
<1>1. IsList(s) /\ \A x \in ToSet(s) : IsPlayer(x)
  BY TablesListed
<1>2. IsList(found) /\ ToSet(found) \subseteq ToSet(s)
  <2>1. ToSet(s) = {s[i] : i \in 1..Len(s)}
    BY <1>1, ListIs
  <2> HIDE DEF s, K
  <2>2. IsList(found) /\ ToSet(found) = {s[i] : i \in K \cap (1..Len(s))}
    BY <1>1, SelectedList
  <2> QED
    BY <2>1, <2>2
<1>3. ClientEntry(d, c) = PlayerEntry(q)
  BY DEF ClientEntry
<1> HIDE DEF found
<1>4. ASSUME found # <<>> PROVE IsPlayer(found[1])
  <2>1. Len(found) # 0 /\ Len(found) \in Nat /\ ToSet(found) = {found[i] : i \in 1..Len(found)}
    <3>1. found \in Seq(ToSet(found))
      BY <1>2 DEF IsList
    <3> QED
      BY <1>2, <1>4, <3>1, EmptySeq, ListIs
  <2>2. found[1] \in ToSet(found)
    BY <2>1
  <2> QED
    BY <1>1, <1>2, <2>2
<1>5. IsPlayer(pl)
  BY <1>4
<1> HIDE DEF pl
<1>6. q.name = pl.name /\ q.clan = pl.clan /\ q.online = {}
  <2>1. pl = [name |-> pl.name, clan |-> pl.clan, ranked |-> pl.ranked, online |-> pl.online]
    BY <1>5, PlayerIs
  <2> DEFINE u == [name |-> pl.name, clan |-> pl.clan, ranked |-> pl.ranked, online |-> pl.online]
  <2>2. [u EXCEPT !.online = {}].name = pl.name /\ [u EXCEPT !.online = {}].clan = pl.clan /\ [u EXCEPT !.online = {}].online = {}
    OBVIOUS
  <2> HIDE DEF u
  <2>3. pl = u
    BY <2>1 DEF u
  <2> QED
    BY <2>2, <2>3
<1> HIDE DEF q
<1>7. IsList(q.name) /\ IsList(q.clan) /\ \A x \in q.online : IsList(x[1]) /\ IsList(x[2])
  BY <1>5, <1>6, PlayerIs
<1>8. AllUrls(PlayerEntry(q))
  BY <1>7, EntryUrls
<1> QED
  BY <1>3, <1>8

LEMMA EntriesUrls ==
  ASSUME NEW page \in HtmlLists, NEW rows, IsList(rows),
         page = "player_list" => \A r \in ToSet(rows) : IsPlayer(r),
         page = "clan_list" => \A r \in ToSet(rows) : IsList(r),
         page = "server_list" => \A r \in ToSet(rows) : IsServer(r)
  PROVE  AllUrls(Entries(page, rows))
<1>1. DOMAIN rows = 1..Len(rows) /\ ToSet(rows) = {rows[i] : i \in 1..Len(rows)}
  BY ListIs
<1> DEFINE E(i) == CASE page = "player_list" -> PlayerEntry(rows[i])
                     [] page = "clan_list"   -> {ClanLink(rows[i])}
                     [] page = "server_list" -> {ServerLink(rows[i].ip, rows[i].port)}
<1>2. ASSUME NEW i \in DOMAIN rows PROVE AllUrls(E(i))
  <2>1. rows[i] \in ToSet(rows)
    BY <1>1
  <2>2. CASE page = "player_list"
    <3>1. AllUrls(PlayerEntry(rows[i]))
      BY <2>1, <2>2, PlayerIs, EntryUrls
    <3> QED
      BY <2>2, <3>1
  <2>3. CASE page = "clan_list"
    <3>1. IsList(<<"/", "clan", "/">> \o UrlEncode(rows[i]))
      BY <2>1, <2>3, UrlEncodeList, PathList
    <3>2. IsUrl(ClanLink(rows[i]).href)
      BY <3>1, PlainUrl DEF ClanLink
    <3> QED
      BY <2>3, <3>2 DEF AllUrls
  <2>4. CASE page = "server_list"
    <3>1. IsList(rows[i].ip) /\ IsList(rows[i].port)
      BY <2>1, <2>4, ServerIs
    <3>2. IsList(<<"/", "server", "/">> \o BuildAddr(rows[i].ip, rows[i].port))
      BY <3>1, AddrList, PathList
    <3>3. IsUrl(ServerLink(rows[i].ip, rows[i].port).href)
      BY <3>2, PlainUrl DEF ServerLink
    <3> QED
      BY <2>4, <3>3 DEF AllUrls
  <2> QED
    BY <2>2, <2>3, <2>4 DEF HtmlLists
<1> HIDE DEF E
<1>3. Entries(page, rows) = UNION {E(i) : i \in DOMAIN rows}
  BY DEF Entries, E
<1> QED
  BY <1>2, <1>3 DEF AllUrls

-----------------------------------------------------------------------------
\* What is found by a search.
SectionNames == {"players", "clans", "servers"}

LEMMA ListOfSection ==
  /\ ListOf("players") = "player_list" /\ ListOf("clans") = "clan_list" /\ ListOf("servers") = "server_list"
  /\ \A section \in SectionNames : ListOf(section) \in HtmlLists
<1>1. ASSUME NEW page PROVE page \in HtmlLists /\ Section(page) = "players" <=> page = "player_list"
  BY DEF HtmlLists, Section
<1>2. ASSUME NEW page PROVE page \in HtmlLists /\ Section(page) = "clans" <=> page = "clan_list"
  BY DEF HtmlLists, Section
<1>3. ASSUME NEW page PROVE page \in HtmlLists /\ Section(page) = "servers" <=> page = "server_list"
  BY DEF HtmlLists, Section
<1>4. ListOf("players") = "player_list" /\ ListOf("clans") = "clan_list" /\ ListOf("servers") = "server_list"
  BY <1>1, <1>2, <1>3 DEF ListOf
<1> QED
  BY <1>4 DEF SectionNames, HtmlLists

\* What is searched in a section.
LEMMA SearchableListed ==
  ASSUME NEW d, IsDatabase(d), NEW section \in SectionNames
  PROVE  /\ IsList(Searchable(d, section)) /\ Once(Searchable(d, section))
         /\ section = "players" => ToSet(Searchable(d, section)) = ToSet(d.players)
         /\ section = "clans" => ToSet(Searchable(d, section)) = ClanNames(d)
         /\ section = "servers" => ToSet(Searchable(d, section)) = ToSet(d.servers)
<1>1. CASE section = "players"
  <2>1. Searchable(d, section) = Reverse(d.players)
    BY <1>1 DEF Searchable
  <2> QED
    BY <1>1, <2>1, TablesListed, ReversedList
<1>2. CASE section = "clans"
  <2> DEFINE r == Rows(d, "clan_list", <<"by-nmembers">>)
  <2>1. Searchable(d, section) = Reverse(r)
    BY <1>2 DEF Searchable
  <2>2. IsList(r) /\ Once(r) /\ ToSet(r) = ClanNames(d)
    BY ClanRowsListed
  <2> HIDE DEF r
  <2>3. IsList(Reverse(r)) /\ Once(Reverse(r)) /\ ToSet(Reverse(r)) = ToSet(r)
    BY <2>2, ReversedList
  <2> QED
    BY <1>2, <2>1, <2>2, <2>3
<1>3. CASE section = "servers"
  <2>1. Searchable(d, section) = Reverse(d.servers)
    BY <1>3 DEF Searchable
  <2> QED
    BY <1>3, <2>1, TablesListed, ReversedList
<1> QED
  BY <1>1, <1>2, <1>3 DEF SectionNames

\* What a search finds is a list of what can be searched.
LEMMA FoundListed ==
  ASSUME NEW d, IsDatabase(d), NEW section \in SectionNames, NEW q
  PROVE  /\ IsList(Found(d, section, q)) /\ Once(Found(d, section, q))
         /\ ToSet(Found(d, section, q)) = {r \in ToSet(Searchable(d,
              section)) : IsRelevant(NameOf(section, r), q)}
         /\ Len(Found(d, section, q)) = SearchCount(d, section, q)
<1> DEFINE all  == Searchable(d, section)
           K    == {i \in DOMAIN all : IsRelevant(NameOf(section, all[i]), q)}
           rows == Select(all, K)
           key  == [i \in DOMAIN rows |-> 1 + Relevance(NameOf(section, rows[i]), q)]
<1>1. IsList(all) /\ Once(all)
  BY SearchableListed
<1>2. DOMAIN all = 1..Len(all) /\ ToSet(all) = {all[i] : i \in 1..Len(all)}
  BY <1>1, ListIs
<1>3. Found(d, section, q) = SortedBy(rows, key, 4)
  BY DEF Found
<1>4. SearchCount(d, section, q) = Cardinality(K)
  BY DEF SearchCount
<1>5. K \cap (1..Len(all)) = K
  BY <1>2
<1>6. {all[i] : i \in K} = {r \in ToSet(all) : IsRelevant(NameOf(section, r), q)}
  BY <1>2
<1> HIDE DEF all, K
<1>7. /\ IsList(rows) /\ Once(rows) /\ ToSet(rows) = {all[i] : i \in K \cap (1..Len(all))}
      /\ Len(rows) = Cardinality(K \cap (1..Len(all)))
  BY <1>1, SelectedList
<1>8. DOMAIN rows = 1..Len(rows)
  BY <1>7, ListIs
<1> HIDE DEF rows
<1>9. ASSUME NEW i \in 1..Len(rows) PROVE key[i] \in 1..4
  <2>1. \A text : Relevance(text, q) \in 0..3
    BY DEF Relevance
  <2>2. key[i] = 1 + Relevance(NameOf(section, rows[i]), q)
    BY <1>8
  <2> HIDE DEF key
  <2> QED
    BY <2>1, <2>2
<1> HIDE DEF key
<1>10. /\ IsList(SortedBy(rows, key, 4)) /\ Len(SortedBy(rows, key, 4)) = Len(rows)
       /\ ToSet(SortedBy(rows, key, 4)) = ToSet(rows) /\ Once(SortedBy(rows, key, 4))
  <2>1. 4 \in Nat
    OBVIOUS
  <2> QED
    BY <1>7, <1>9, <2>1, ListSorted
<1>11. ToSet(rows) = {r \in ToSet(all) : IsRelevant(NameOf(section, r), q)} /\ Len(rows) = Cardinality(K)
  BY <1>5, <1>6, <1>7
<1> QED
  BY <1>3, <1>4, <1>10, <1>11 DEF all

LEMMA RowsKnown ==
  ASSUME NEW d, IsDatabase(d), NEW page \in HtmlLists \cup JsonLists, NEW order
  PROVE  /\ IsList(Rows(d, page, order)) /\ Once(Rows(d, page, order))
         /\ page = "player_list" => \A r \in ToSet(Rows(d, page, order)) : IsPlayer(r)
         /\ page = "clan_list" => \A r \in ToSet(Rows(d, page, order)) : IsList(r)
         /\ page = "server_list" => \A r \in ToSet(Rows(d, page, order)) : IsServer(r)
<1>1. CASE page \in {"player_list", "json_player_list"}
  BY <1>1, PlayerRowsListed, TablesListed
<1>2. CASE page \in {"clan_list", "json_clan_list"}
  <2>1. \A c \in ClanNames(d) : IsList(c)
    <3>1. SUFFICES ASSUME NEW c \in ClanNames(d) PROVE IsList(c)
      OBVIOUS
    <3>2. PICK i \in DOMAIN d.players : c = d.players[i].clan
      BY DEF ClanNames
    <3>3. IsPlayer(d.players[i])
      BY DEF IsDatabase
    <3> QED
      BY <3>2, <3>3, PlayerIs
  <2> QED
    BY <1>2, <2>1, ClanRowsListed
<1>3. CASE page \in {"server_list", "json_server_list"}
  BY <1>3, ServerRowsListed, TablesListed
<1> QED
  BY <1>1, <1>2, <1>3 DEF HtmlLists, JsonLists

LEMMA LimitListed ==
  ASSUME NEW rows, IsList(rows), NEW p \in Nat \ {0}
  PROVE  IsList(Limit(rows, p)) /\ ToSet(Limit(rows, p)) \subseteq ToSet(rows)
<1> DEFINE m == (p - 1) * PageSize + 1
           n == Min({p * PageSize, Len(rows)})
<1>1. PageSize \in Nat /\ Len(rows) \in Nat
  BY PagesAssumption, ListIs
<1>2. (p - 1) * PageSize \in Nat /\ p * PageSize \in Nat
  BY <1>1
<1>3. m \in Nat \ {0}
  BY <1>2
<1>4. n \in Int /\ n <= Len(rows)
  <2> DEFINE a == p * PageSize
             b == Len(rows)
  <2>1. a \in Nat /\ b \in Nat
    BY <1>1, <1>2
  <2> HIDE DEF a, b
  <2>2. Min({a, b}) \in Nat /\ Min({a, b}) <= b
    BY <2>1 DEF Min
  <2> QED
    BY <2>2 DEF a, b
<1>5. Limit(rows, p) = SubSeq(rows, m, n)
  BY DEF Limit
<1> DEFINE t == SubSeq(rows, m, n)
<1> HIDE DEF m, n
<1>6. IsList(t) /\ \A i \in 1..Len(t) : t[i] = rows[m + i - 1] /\ m + i - 1 \in 1..Len(rows)
  BY <1>3, <1>4, PartWithin
<1> HIDE DEF t
<1>7. ToSet(t) = {t[i] : i \in 1..Len(t)} /\ ToSet(rows) = {rows[i] : i \in 1..Len(rows)}
  BY <1>6, ListIs
<1>8. ToSet(t) \subseteq ToSet(rows)
  BY <1>6, <1>7
<1> QED
  BY <1>5, <1>6, <1>8 DEF t

-----------------------------------------------------------------------------
\* Every link of an answer is an URL.

\* The links that can be followed, and the next page.
AnswerUrls(a) == AllUrls(a.links) /\ \A u \in a.next : IsUrl(u)

LEMMA OneUrl == ASSUME NEW l, IsUrl(l.href) PROVE AllUrls({l})
  BY DEF AllUrls

LEMMA ListLinkUrl ==
  ASSUME NEW page, NEW order, IsList(order), NEW p
  PROVE  IsUrl(ListLink(page, order, p).href)
<1> DEFINE path == <<"/", Section(page)>> \o (IF order = <<"by-lastseen">> THEN <<"/">> \o order ELSE <<>>)
           tail == IF order = <<"by-lastseen">> THEN <<"/">> \o order ELSE <<>>
<1>1. IsList(tail)
  BY EmptyList, Single, JoinedLists
<1>2. path = <<"/", Section(page)>> \o tail
  OBVIOUS
<1> HIDE DEF tail
<1>3. IsList(<<"/", Section(page)>> \o tail)
  BY <1>1, Pair, JoinedLists
<1>4. IsList(path)
  BY <1>2, <1>3
<1>5. ListLink(page, order, p) = Link(path, <<[name |-> "p", val |-> Decimal(p)]>>, page,
          <<Decimal(p), order>>)
  BY DEF ListLink, P
<1> HIDE DEF path
<1> QED
  BY <1>4, <1>5, DecimalList, NamedUrl

LEMMA JsonListLinkUrl ==
  ASSUME NEW page, NEW order, IsList(order), NEW p
  PROVE  IsUrl(JsonListLink(page, order, p).href)
<1> DEFINE path == <<"/", Section(page), "/">> \o order \o <<".", "json">>
<1>1. IsList(path)
  BY PathList
<1>2. JsonListLink(page, order, p) = Link(path, <<[name |-> "p", val |-> Decimal(p)]>>, JsonOf(page),
          <<Decimal(p), order>>)
  BY DEF JsonListLink, P
<1> HIDE DEF path
<1> QED
  BY <1>1, <1>2, DecimalList, NamedUrl

LEMMA OrdersLists ==
  ASSUME NEW page \in HtmlLists \cup JsonLists
  PROVE  (\A o \in Orders(page) : IsList(o)) /\ DefaultOrder(page) \in Orders(page)
<1>1. IsList(<<"by-rank">>) /\ IsList(<<"by-lastseen">>) /\ IsList(<<"by-nmembers">>) /\ IsList(<<"by-nplayers">>)
  BY Single
<1>2. \A o \in Orders(page) : IsList(o)
  BY <1>1 DEF Orders, HtmlLists, JsonLists
<1>3. \E o \in Orders(page) : o # <<"by-lastseen">>
  BY DEF Orders, HtmlLists, JsonLists
<1> QED
  BY <1>2, <1>3 DEF DefaultOrder

LEMMA QuietUrls ==
  ASSUME NEW status, NEW page, NEW of, NEW rows, NEW count
  PROVE  AnswerUrls(Answer(status, page, of, rows, count, {}, {}))
  BY DEF AnswerUrls, AllUrls, Answer

LEMMA FailedUrls == ASSUME NEW status PROVE AnswerUrls(Failed(status))
  BY QuietUrls DEF Failed

LEMMA LinkedUrls ==
  ASSUME NEW status, NEW page, NEW of, NEW rows, NEW count, NEW links, AllUrls(links)
  PROVE  AnswerUrls(Answer(status, page, of, rows, count, links, {}))
<1> DEFINE a == Answer(status, page, of, rows, count, links, {})
<1>1. a.links = links /\ a.next = {}
  BY DEF Answer
<1> HIDE DEF a
<1> QED
  BY <1>1 DEF AnswerUrls, a

LEMMA RedirectedUrls ==
  ASSUME NEW path, NEW args, IsUrl(Url(path, args))
  PROVE  AnswerUrls(Redirected(path, args))
<1> DEFINE a == Answer(301, "", <<>>, {}, 0, {}, {Url(path, args)})
<1>1. a.links = {} /\ a.next = {Url(path, args)}
  BY DEF Answer
<1>2. Redirected(path, args) = a
  BY DEF Redirected
<1> HIDE DEF a
<1> QED
  BY <1>1, <1>2 DEF AnswerUrls, AllUrls

LEMMA HtmlRowsUrls ==
  ASSUME NEW page \in HtmlLists, NEW p, NEW order, IsList(order), NEW rows, NEW npages,
             AllUrls(Entries(page, rows))
  PROVE  AnswerUrls(HtmlRows(page, p, order, rows, npages))
<1> DEFINE links == Entries(page, rows) \cup TabLinks(page)
                    \cup {ListLink(page, o, p) : o \in Orders(page) \ {order}}
                    \cup {JsonListLink(page, order, p)}
                    \cup {ListLink(page, order, n) : n \in NavPages(p, npages)}
           next == IF p = npages THEN {} ELSE {ListLink(page, order, p + 1).href}
           a == Answer(200, page, <<Decimal(p), order>>, ToSet(rows), Len(rows), links, next)
<1>1. AllUrls(TabLinks(page))
  <2>1. ASSUME NEW l
        PROVE  IsUrl(Link(<<"/", Section(l)>>, <<>>, l, <<Decimal(1), DefaultOrder(l)>>).href)
    BY Pair, PlainUrl
  <2> QED
    BY <2>1 DEF AllUrls, TabLinks
<1>2. ASSUME NEW o \in Orders(page) PROVE IsUrl(ListLink(page, o, p).href)
  BY OrdersLists, ListLinkUrl
<1>3. IsUrl(JsonListLink(page, order, p).href)
  BY JsonListLinkUrl
<1>4. ASSUME NEW n PROVE IsUrl(ListLink(page, order, n).href)
  BY ListLinkUrl
<1>5. AllUrls(links)
  BY <1>1, <1>2, <1>3, <1>4 DEF AllUrls
<1>6. \A u \in next : IsUrl(u)
  BY <1>4
<1>7. CASE rows = <<>> /\ p > 1
  <2>1. HtmlRows(page, p, order, rows, npages) = Failed(404)
    BY <1>7 DEF HtmlRows
  <2> QED
    BY <2>1, FailedUrls
<1>8. CASE ~(rows = <<>> /\ p > 1)
  <2>1. HtmlRows(page, p, order, rows, npages) = a
    BY <1>8 DEF HtmlRows
  <2> HIDE DEF links, next
  <2>2. a.links = links /\ a.next = next
    BY DEF Answer
  <2> HIDE DEF a
  <2> QED
    BY <1>5, <1>6, <2>1, <2>2 DEF AnswerUrls
<1> QED
  BY <1>7, <1>8

LEMMA PnumIs ==
  ASSUME NEW text, ParsePnum(text).valid
  PROVE  ParsePnum(text).p = PageNumber(text) /\ PageNumber(text) \in 1..9999 /\ PageNumber(text) \in Nat \ {0}
<1> DEFINE u == PageNumber(text)
           v == u \in 1..MaxPage
<1> HIDE DEF v
<1>1. ParsePnum(text) = [valid |-> v, p |-> u]
  BY DEF ParsePnum, v
<1> HIDE DEF u
<1>2. [valid |-> v, p |-> u].valid = v /\ [valid |-> v, p |-> u].p = u
  OBVIOUS
<1>3. v
  BY <1>1, <1>2
<1>4. ParsePnum(text).p = u
  BY <1>1, <1>2
<1>5. u \in 1..9999
  BY <1>3 DEF v, MaxPage
<1>6. u \in Nat \ {0}
  BY <1>5
<1> QED
  BY <1>4, <1>5, <1>6 DEF u

\* A list, with the links of its rows, its tabs and its pages.
LEMMA ListUrls ==
  ASSUME NEW first, IsDatabase(first), NEW last, NEW page \in HtmlLists \cup JsonLists, NEW text,
             NEW order, IsList(order)
  PROVE  AnswerUrls(List(first, last, page, ParsePnum(text), order))
<1> DEFINE pnum == ParsePnum(text)
<1>1. CASE page \in JsonLists \/ ~pnum.valid
  <2>1. page \in JsonLists => page \notin HtmlLists
    BY DEF HtmlLists, JsonLists
  <2>2. AnswerUrls(JsonList(first, page, pnum.p, order))
    BY QuietUrls, FailedUrls DEF JsonList, JsonRows
  <2> QED
    BY <1>1, <2>1, <2>2, FailedUrls DEF List
<1>2. CASE page \in HtmlLists /\ pnum.valid
  <2> DEFINE p == pnum.p
             rows == Rows(first, page, order)
             n == NumberOfPages(Len(Rows(last, page, order)))
  <2>1. p \in Nat \ {0}
    BY <1>2, PnumIs
  <2>2. /\ IsList(rows)
        /\ page = "player_list" => \A r \in ToSet(rows) : IsPlayer(r)
        /\ page = "clan_list" => \A r \in ToSet(rows) : IsList(r)
        /\ page = "server_list" => \A r \in ToSet(rows) : IsServer(r)
    BY <1>2, RowsKnown
  <2>3. List(first, last, page, pnum, order) = HtmlRows(page, p, order, Limit(rows, p), n)
    BY <1>2 DEF List, HtmlList
  <2> HIDE DEF rows, p, n
  <2>4. IsList(Limit(rows, p)) /\ ToSet(Limit(rows, p)) \subseteq ToSet(rows)
    BY <2>1, <2>2, LimitListed
  <2>5. AllUrls(Entries(page, Limit(rows, p)))
    BY <1>2, <2>2, <2>4, EntriesUrls
  <2>6. AnswerUrls(HtmlRows(page, p, order, Limit(rows, p), n))
    BY <1>2, <2>5, HtmlRowsUrls
  <2> QED
    BY <2>3, <2>6
<1> QED
  BY <1>1, <1>2

\* The links of three pages.
PlayerLinks(first, name) ==
    (UNION {PlayerEntry(pl) \ {PlayerLink(name)} : pl \in {q \in ToSet(first.players) : q.name = name}})
    \cup {GraphLink(name), JsonLink("players", JsonHexstring(name), "json_player", <<name>>)}

ClanLinks(rows, clan) ==
    (UNION {PlayerEntry(pl) \ {ClanLink(clan)} : pl \in rows})
    \cup {JsonLink("clans", JsonHexstring(clan), "json_clan", <<clan>>)}

ServerLinks(last, ip, port) ==
    (UNION {ClientEntry(last, c) : c \in Clients(last, ip, port)})
    \cup {JsonLink("servers", BuildAddr(ip, port), "json_server", <<ip, port>>)}

LEMMA PlayerAnswer ==
  ASSUME NEW first, NEW page, NEW name
  PROVE  Player(first, page, name) =
            IF \E i \in DOMAIN first.players : first.players[i].name = name
            THEN Answer(200, page, <<name>>, {}, 0,
                IF page = "json_player" THEN {} ELSE PlayerLinks(first, name), {})
            ELSE Failed(404)
  BY DEF Player, PlayerLinks

LEMMA ClanAnswer ==
  ASSUME NEW page, NEW clan, NEW rows
  PROVE  ClanRows(page, clan, rows) =
            IF rows = {} THEN Failed(404)
            ELSE Answer(200, page, <<clan>>, rows, Cardinality(rows),
                        IF page = "json_clan" THEN {} ELSE ClanLinks(rows, clan), {})
  BY DEF ClanRows, ClanLinks

LEMMA ServerAnswer ==
  ASSUME NEW first, NEW last, NEW page, NEW parsed
  PROVE  Server(first, last, page, parsed) =
            IF ~parsed.valid \/ (\A i \in DOMAIN first.servers :
                            <<first.servers[i].ip, first.servers[i].port>> # <<parsed.ip, parsed.port>>)
            THEN Failed(404)
            ELSE IF page = "json_server"
            THEN Answer(200, page, <<parsed.ip, parsed.port>>, Clients(last, parsed.ip, parsed.port),
                        Cardinality(Clients(first, parsed.ip, parsed.port)), {}, {})
            ELSE Answer(200, page, <<parsed.ip, parsed.port>>, Clients(last, parsed.ip, parsed.port),
                        ShownClients(first, last, parsed.ip, parsed.port),
                            ServerLinks(last, parsed.ip, parsed.port), {})
  BY DEF Server, ServerLinks

\* The page of a player ...
LEMMA PlayerUrls ==
  ASSUME NEW first, IsDatabase(first), NEW page, NEW name, IsList(name)
  PROVE  AnswerUrls(Player(first, page, name))
<1> DEFINE who == {q \in ToSet(first.players) : q.name = name}
           others == UNION {PlayerEntry(pl) \ {PlayerLink(name)} : pl \in who}
           own == {GraphLink(name), JsonLink("players", JsonHexstring(name), "json_player", <<name>>)}
           links == IF page = "json_player" THEN {} ELSE PlayerLinks(first, name)
<1>1. AllUrls(others)
  <2>1. ASSUME NEW pl \in who PROVE AllUrls(PlayerEntry(pl))
    BY TablesListed, PlayerIs, EntryUrls
  <2> QED
    BY <2>1 DEF AllUrls
<1>2. IsUrl(GraphLink(name).href)
  BY UrlEncodeList, PathList, PlainUrl DEF GraphLink
<1>3. IsUrl(JsonLink("players", JsonHexstring(name), "json_player", <<name>>).href)
  BY HexstringList, PathList, PlainUrl DEF JsonLink
<1>4. AllUrls(own)
  BY <1>2, <1>3 DEF AllUrls
<1>5. AllUrls(PlayerLinks(first, name))
  <2>1. ASSUME NEW l \in PlayerLinks(first, name) PROVE l \in others \/ l \in own
    BY DEF PlayerLinks
  <2> HIDE DEF others, own
  <2> QED
    BY <1>1, <1>4, <2>1 DEF AllUrls
<1>6. AllUrls(links)
  BY <1>5 DEF AllUrls
<1>7. \/ Player(first, page, name) = Failed(404)
      \/ Player(first, page, name) = Answer(200, page, <<name>>, {}, 0, links, {})
  BY PlayerAnswer
<1> HIDE DEF links
<1> QED
  BY <1>6, <1>7, FailedUrls, LinkedUrls

\* ... that of a clan ...
LEMMA ClanUrls ==
  ASSUME NEW first, IsDatabase(first), NEW page, NEW clan, IsList(clan)
  PROVE  AnswerUrls(Clan(first, page, clan))
<1> DEFINE rows == IF clan = <<>> THEN {} ELSE ToSet(Members(first, clan))
           theirs == UNION {PlayerEntry(pl) \ {ClanLink(clan)} : pl \in rows}
           own == {JsonLink("clans", JsonHexstring(clan), "json_clan", <<clan>>)}
           links == IF page = "json_clan" THEN {} ELSE ClanLinks(rows, clan)
<1>1. \A pl \in rows : IsPlayer(pl)
  BY MembersListed, TablesListed
<1>8. Clan(first, page, clan) = ClanRows(page, clan, rows)
  BY DEF Clan
<1> HIDE DEF rows
<1>2. \A pl \in rows : AllUrls(PlayerEntry(pl))
  BY <1>1, PlayerIs, EntryUrls
<1>3. IsUrl(JsonLink("clans", JsonHexstring(clan), "json_clan", <<clan>>).href)
  BY HexstringList, PathList, PlainUrl DEF JsonLink
<1>4. AllUrls(theirs)
  BY <1>2 DEF AllUrls
<1>5. AllUrls(ClanLinks(rows, clan))
  <2>1. ASSUME NEW l \in ClanLinks(rows, clan) PROVE l \in theirs \/ l \in own
    BY DEF ClanLinks
  <2>2. AllUrls(own)
    BY <1>3, OneUrl
  <2> HIDE DEF theirs, own
  <2> QED
    BY <1>4, <2>1, <2>2 DEF AllUrls
<1>6. AllUrls(links)
  BY <1>5 DEF AllUrls
<1>7. \/ Clan(first, page, clan) = Failed(404)
      \/ Clan(first, page, clan) = Answer(200, page, <<clan>>, rows, Cardinality(rows), links, {})
  BY <1>8, ClanAnswer
<1> HIDE DEF links
<1> QED
  BY <1>6, <1>7, FailedUrls, LinkedUrls

\* ... that of a server ...
LEMMA ServerUrls ==
  ASSUME NEW first, IsDatabase(first), NEW last, IsDatabase(last), NEW page, NEW parsed
  PROVE  AnswerUrls(Server(first, last, page, parsed))
<1> DEFINE missing == ~parsed.valid \/ (\A i \in DOMAIN first.servers :
                            <<first.servers[i].ip, first.servers[i].port>> # <<parsed.ip, parsed.port>>)
           clients == Clients(last, parsed.ip, parsed.port)
           theirs == UNION {ClientEntry(last, c) : c \in clients}
           own == {JsonLink("servers", BuildAddr(parsed.ip, parsed.port), "json_server",
               <<parsed.ip, parsed.port>>)}
<1>1. CASE missing
  <2>1. Server(first, last, page, parsed) = Failed(404)
    BY <1>1, ServerAnswer
  <2> QED
    BY <2>1, FailedUrls
<1>2. CASE ~missing
  <2>1. PICK i \in DOMAIN first.servers : <<first.servers[i].ip, first.servers[i].port>> = <<parsed.ip,
                 parsed.port>>
    BY <1>2
  <2>2. IsServer(first.servers[i])
    BY DEF IsDatabase
  <2>3. IsList(parsed.ip) /\ IsList(parsed.port)
    <3>1. first.servers[i].ip = parsed.ip /\ first.servers[i].port = parsed.port
      BY <2>1
    <3> QED
      BY <2>2, <3>1, ServerIs
  <2>4. IsUrl(JsonLink("servers", BuildAddr(parsed.ip, parsed.port), "json_server",
            <<parsed.ip, parsed.port>>).href)
    BY <2>3, AddrList, PathList, PlainUrl DEF JsonLink
  <2>5. ASSUME NEW c \in clients PROVE AllUrls(ClientEntry(last, c))
    <3>1. PICK j \in DOMAIN last.servers : c \in last.servers[j].clients
      BY DEF Clients
    <3>2. IsPlayer(c)
      BY <3>1 DEF IsDatabase, IsServer
    <3> QED
      BY <3>2, ClientUrls
  <2>6. AllUrls(ServerLinks(last, parsed.ip, parsed.port))
    <3>1. ASSUME NEW l \in ServerLinks(last, parsed.ip, parsed.port) PROVE l \in theirs \/ l \in own
      BY DEF ServerLinks
    <3> HIDE DEF clients
    <3>2. AllUrls(theirs)
      BY <2>5 DEF AllUrls
    <3>3. AllUrls(own)
      BY <2>4, OneUrl
    <3> HIDE DEF theirs, own
    <3> QED
      BY <3>1, <3>2, <3>3 DEF AllUrls
  <2>7. \/ Server(first, last, page, parsed)
             = Answer(200, page, <<parsed.ip, parsed.port>>, clients,
                 Cardinality(Clients(first, parsed.ip, parsed.port)), {}, {})
        \/ Server(first, last, page, parsed)
             = Answer(200, page, <<parsed.ip, parsed.port>>, clients,
                 ShownClients(first, last, parsed.ip, parsed.port),
                      ServerLinks(last, parsed.ip, parsed.port), {})
    BY <1>2, ServerAnswer
  <2> QED
    BY <2>6, <2>7, QuietUrls, LinkedUrls
<1> QED
  BY <1>1, <1>2

\* ... and the results of a search.
LEMMA SearchUrls ==
  ASSUME NEW first, NEW last, IsDatabase(last), NEW section \in SectionNames, NEW q, IsList(q)
  PROVE  AnswerUrls(Search(first, last, section, q))
<1> DEFINE found == Found(last, section, q)
           n == Min({MaxResults, Len(found)})
           rows == SubSeq(found, 1, n)
           links == Entries(ListOf(section), rows) \cup SearchTabs(section, q)
<1>1. Search(first, last, section, q) = Answer(200, "search", << <<section>>, q>>, ToSet(rows),
          SearchCount(first, section, q), links, {})
  BY DEF Search, SearchRows
<1>2. IsList(found) /\ ToSet(found) \subseteq ToSet(Searchable(last, section))
  BY FoundListed
<1>3. /\ section = "players" => \A r \in ToSet(found) : IsPlayer(r)
      /\ section = "clans" => \A r \in ToSet(found) : IsList(r)
      /\ section = "servers" => \A r \in ToSet(found) : IsServer(r)
  <2>1. \A c \in ClanNames(last) : IsList(c)
    <3>1. SUFFICES ASSUME NEW c \in ClanNames(last) PROVE IsList(c)
      OBVIOUS
    <3>2. PICK i \in DOMAIN last.players : c = last.players[i].clan
      BY DEF ClanNames
    <3>3. IsPlayer(last.players[i])
      BY DEF IsDatabase
    <3> QED
      BY <3>2, <3>3, PlayerIs
  <2> HIDE DEF found
  <2> QED
    BY <1>2, <2>1, SearchableListed, TablesListed
<1>4. Len(found) \in Nat /\ MaxResults \in Nat /\ ToSet(found) = {found[i] : i \in 1..Len(found)}
  BY <1>2, PagesAssumption, ListIs
<1> HIDE DEF found
<1>5. n \in Nat /\ n <= Len(found)
  BY <1>4 DEF Min
<1> HIDE DEF n
<1>6. IsList(rows) /\ \A i \in 1..Len(rows) : rows[i] = found[1 + i - 1] /\ 1 + i - 1 \in 1..Len(found)
  <2>1. n \in Int /\ 1 \in Nat \ {0}
    BY <1>5
  <2> QED
    BY <1>2, <1>5, <2>1, PartWithin
<1> HIDE DEF rows
<1>7. ToSet(rows) \subseteq ToSet(found)
  <2>1. ToSet(rows) = {rows[i] : i \in 1..Len(rows)}
    BY <1>6, ListIs
  <2> QED
    BY <1>4, <1>6, <2>1
<1>8. AllUrls(Entries(ListOf(section), rows))
  <2> DEFINE page == ListOf(section)
  <2>2. /\ page \in HtmlLists /\ (page = "player_list" => section = "players")
        /\ (page = "clan_list" => section = "clans") /\ (page = "server_list" => section = "servers")
    BY ListOfSection DEF SectionNames
  <2> HIDE DEF page
  <2>3. AllUrls(Entries(page, rows))
    BY <1>3, <1>6, <1>7, <2>2, EntriesUrls
  <2> QED
    BY <2>3 DEF page
<1>9. AllUrls(SearchTabs(section, q))
  <2>1. ASSUME NEW s
        PROVE  IsUrl(Link(<<"/", s, "/", "search">>, <<[name |-> "q", val |-> UrlEncode(q)]>>, "search",
                   << <<s>>, q>>).href)
    BY Fourth, UrlEncodeList, NamedUrl
  <2> QED
    BY <2>1 DEF AllUrls, SearchTabs
<1>10. AllUrls(links)
  BY <1>8, <1>9 DEF AllUrls
<1> HIDE DEF links
<1> QED
  BY <1>1, <1>10, LinkedUrls

-----------------------------------------------------------------------------
\* A request: the URL is cut, a route is found, and a page is served.

\* A route that may be found, with its directories, and the arguments of an URL.
IsFound(route) ==
    /\ route.page \in PageNames
    /\ IsList(route.dirs) /\ Len(route.dirs) >= 1 /\ \A i \in 1..Len(route.dirs) : IsList(route.dirs[i])
    /\ route.page = "search" => SearchSection(route.dirs) \in SectionNames
    /\ route.page \in HtmlLists => OrderArgument(route) \in Orders(route.page)

AreArguments(args) == IsList(args) /\ \A i \in 1..Len(args) : IsList(args[i].val)

LEMMA QueryList ==
  ASSUME NEW args, AreArguments(args), Queries(args) # <<>>
  PROVE  IsList(UrlDecode(Last(Queries(args)).val))
<1> DEFINE K == {i \in DOMAIN args : args[i].name = "q"}
           t == Select(args, K)
<1>1. Queries(args) = t
  BY DEF Queries
<1> HIDE DEF K
<1>2. IsList(args) /\ ToSet(args) = {args[i] : i \in 1..Len(args)}
  BY ListIs DEF AreArguments
<1>3. IsList(t) /\ ToSet(t) = {args[i] : i \in K \cap (1..Len(args))}
  BY <1>2, SelectedList
<1> HIDE DEF t
<1>4. t \in Seq(ToSet(t)) /\ t # <<>>
  BY <1>1, <1>3 DEF IsList
<1>5. Last(t) \in ToSet(t)
  BY <1>4, Fronted
<1>6. IsList(Last(t).val)
  BY <1>3, <1>5 DEF AreArguments
<1> QED
  BY <1>1, <1>6, UrlDecodeList

LEMMA OldUrls ==
  ASSUME NEW page, page \in {"old_player_list", "old_player", "old_graph", "old_clan", "old_server"},
         NEW name, IsList(name), NEW above, IsList(above)
  PROVE  AnswerUrls(OldUrl(page, name, above))
<1>1. CASE page = "old_player_list"
  <2>1. IsUrl(Url(<<"/", "players">>, <<[name |-> "p", val |-> name]>>))
    BY Pair, NamedUrl
  <2>2. OldUrl(page, name, above) = Redirected(<<"/", "players">>, <<[name |-> "p", val |-> name]>>)
    BY <1>1 DEF OldUrl
  <2> QED
    BY <2>1, <2>2, RedirectedUrls
<1>2. CASE page = "old_player"
  <2>1. IsList(<<"/", "player", "/">> \o UrlEncode(ConvertHexname(name)))
    BY ConvertedList, UrlEncodeList, PathList
  <2>2. OldUrl(page, name, above) = Redirected(<<"/", "player", "/">> \o UrlEncode(ConvertHexname(name)),
            <<>>)
    BY <1>2 DEF OldUrl
  <2> QED
    BY <2>1, <2>2, PlainUrl, RedirectedUrls
<1>3. CASE page = "old_graph"
  <2>1. IsList(<<"/", "player", "/">> \o UrlEncode(ConvertHexname(above)) \o <<"/", "historic", ".", "svg">>)
    BY ConvertedList, UrlEncodeList, PathList
  <2>2. OldUrl(page, name, above)
          = Redirected(<<"/", "player", "/">> \o UrlEncode(ConvertHexname(above)) \o <<"/", "historic",
              ".", "svg">>, <<>>)
    BY <1>3 DEF OldUrl
  <2> QED
    BY <2>1, <2>2, PlainUrl, RedirectedUrls
<1>4. CASE page = "old_clan"
  <2>1. IsList(<<"/", "clan", "/">> \o UrlEncode(ConvertHexname(name)))
    BY ConvertedList, UrlEncodeList, PathList
  <2>2. OldUrl(page, name, above) = Redirected(<<"/", "clan", "/">> \o UrlEncode(ConvertHexname(name)), <<>>)
    BY <1>4 DEF OldUrl
  <2> QED
    BY <2>1, <2>2, PlainUrl, RedirectedUrls
<1>5. CASE page = "old_server"
  <2>1. IsList(<<"/", "server", "/">> \o name)
    BY PathList
  <2>2. OldUrl(page, name, above) = Redirected(<<"/", "server", "/">> \o name, <<>>)
    BY <1>5 DEF OldUrl
  <2> QED
    BY <2>1, <2>2, PlainUrl, RedirectedUrls
<1> QED
  BY <1>1, <1>2, <1>3, <1>4, <1>5

\* Whichever page is served, its links are URLs.
LEMMA SetupUrls ==
  ASSUME NEW first, IsDatabase(first), NEW last, IsDatabase(last), NEW route, IsFound(route),
         NEW args, AreArguments(args), NEW name, IsList(name), NEW above, IsList(above)
  PROVE  AnswerUrls(Setup(first, last, route, args, name, above))
<1> DEFINE a == Setup(first, last, route, args, name, above)
<1>1. CASE route.page = ""
  <2>1. a = Failed(404)
    BY <1>1 DEF Setup, HtmlLists, JsonLists
  <2> QED
    BY <2>1, FailedUrls
<1>2. CASE route.page \in HtmlLists \cup JsonLists
  <2>1. a = List(first, last, route.page, ParsePnum(PageArgument(args)), OrderArgument(route))
    <3>1. route.page # ""
      BY <1>2 DEF HtmlLists, JsonLists
    <3> QED
      BY <1>2, <3>1 DEF Setup, HtmlLists, JsonLists
  <2>2. IsList(OrderArgument(route))
    <3>1. IsList(DefaultOrder(route.page))
      BY <1>2, OrdersLists
    <3>2. Len(route.dirs) = 2 => IsList(route.dirs[2])
      BY DEF IsFound
    <3> QED
      BY <3>1, <3>2 DEF OrderArgument
  <2>3. AnswerUrls(List(first, last, route.page, ParsePnum(PageArgument(args)), OrderArgument(route)))
    BY <1>2, <2>2, ListUrls
  <2> QED
    BY <2>1, <2>3
<1>3. CASE route.page = "player"
  <2>1. a = Player(first, route.page, name)
    BY <1>3 DEF Setup, HtmlLists, JsonLists
  <2> QED
    BY <2>1, PlayerUrls
<1>4. CASE route.page = "graph"
  <2>1. a = PlayerGraph(above)
    BY <1>4 DEF Setup, HtmlLists, JsonLists
  <2> QED
    BY <2>1, QuietUrls DEF PlayerGraph
<1>5. CASE route.page = "json_player"
  <2>1. a = Failed(400) \/ a = Player(first, route.page, ConvertHexname(name))
    BY <1>5 DEF Setup, HtmlLists, JsonLists
  <2> QED
    BY <2>1, ConvertedList, PlayerUrls, FailedUrls
<1>6. CASE route.page = "clan"
  <2>1. a = Clan(first, route.page, name)
    BY <1>6 DEF Setup, HtmlLists, JsonLists
  <2> QED
    BY <2>1, ClanUrls
<1>7. CASE route.page = "json_clan"
  <2>1. a = Clan(first, route.page, ConvertHexname(name))
    BY <1>7 DEF Setup, HtmlLists, JsonLists
  <2> QED
    BY <2>1, ConvertedList, ClanUrls
<1>8. CASE route.page \in {"server", "json_server"}
  <2>1. a = Server(first, last, route.page, ParseAddr(name))
    BY <1>8 DEF Setup, HtmlLists, JsonLists
  <2> QED
    BY <2>1, ServerUrls
<1>9. CASE route.page = "search"
  <2>1. CASE Queries(args) = <<>>
    <3>1. a = Failed(400)
      BY <1>9, <2>1 DEF Setup, HtmlLists, JsonLists
    <3> QED
      BY <3>1, FailedUrls
  <2>2. CASE Queries(args) # <<>>
    <3>1. a = Search(first, last, SearchSection(route.dirs), UrlDecode(Last(Queries(args)).val))
      BY <1>9, <2>2 DEF Setup, HtmlLists, JsonLists
    <3>2. SearchSection(route.dirs) \in SectionNames
      BY <1>9 DEF IsFound
    <3>3. IsList(UrlDecode(Last(Queries(args)).val))
      BY <2>2, QueryList
    <3>4. AnswerUrls(Search(first, last, SearchSection(route.dirs), UrlDecode(Last(Queries(args)).val)))
      BY <3>2, <3>3, SearchUrls
    <3> QED
      BY <3>1, <3>4
  <2> QED
    BY <2>1, <2>2
<1>10. CASE route.page \in {"old_player_list", "old_player", "old_graph", "old_clan", "old_server"}
  <2>1. a = OldUrl(route.page, name, above)
    BY <1>10 DEF Setup, HtmlLists, JsonLists
  <2> QED
    BY <1>10, <2>1, OldUrls
<1>11. route.page \in PageNames
  BY DEF IsFound
<1> HIDE DEF a
<1> QED
  BY <1>1, <1>2, <1>3, <1>4, <1>5, <1>6, <1>7, <1>8, <1>9, <1>10, <1>11 DEF PageNames, HtmlLists, JsonLists, a

\* What is asked of a page: the URL is cut, and a route found.
LEMMA RouteIsFound ==
  ASSUME NEW dirs, IsList(dirs), Len(dirs) >= 1, \A i \in 1..Len(dirs) : IsList(dirs[i])
  PROVE  IsFound(FindRoute(dirs)) /\ Len(FindRoute(dirs).dirs) = Len(dirs)
<1> DEFINE r == FindRoute(dirs)
           S == UNION {ToSet(dirs[k]) : k \in 1..Len(dirs)}
<1>1. r \in Visited(dirs)
  BY RouteFound
<1>9. /\ r.page \notin PlainPages => Len(dirs) = 1 \/ Len(dirs) = 2
      /\ Len(dirs) = 2 => /\ r.page = "search" => r.dirs[1] \in Sections
                          /\ r.page \in HtmlLists => r.dirs[2] \in Orders(r.page)
  BY RouteFound
<1>2. r.page = "search" => Len(dirs) = 1 \/ (Len(dirs) = 2 /\ r.dirs[1] \in Sections)
  BY <1>9 DEF PlainPages
<1>10. r.page \in HtmlLists => Len(dirs) = 1 \/ (Len(dirs) = 2 /\ r.dirs[2] \in Orders(r.page))
  BY <1>9 DEF PlainPages, HtmlLists
<1>3. Len(dirs) \in Nat
  BY ListIs
<1> HIDE DEF r
<1>4. r.page \in PageNames /\ r.dirs \in [1..Len(dirs) -> Seq(S)]
  BY <1>1 DEF Visited
<1> HIDE DEF S
<1>5. IsList(r.dirs) /\ Len(r.dirs) = Len(dirs)
  <2> DEFINE d == r.dirs
  <2>1. d = [i \in 1..Len(dirs) |-> d[i]]
    BY <1>4
  <2> HIDE DEF d
  <2>2. IsList(d) /\ Len(d) = Len(dirs)
    BY <1>3, <2>1, ListMade
  <2> QED
    BY <2>2 DEF d
<1>6. \A i \in 1..Len(r.dirs) : IsList(r.dirs[i])
  <2>1. SUFFICES ASSUME NEW i \in 1..Len(r.dirs) PROVE IsList(r.dirs[i])
    OBVIOUS
  <2>2. r.dirs[i] \in Seq(S)
    BY <1>4, <1>5
  <2> QED
    BY <2>2, ListIn
<1>7. r.page = "search" => SearchSection(r.dirs) \in SectionNames
  <2>1. SUFFICES ASSUME r.page = "search" PROVE SearchSection(r.dirs) \in SectionNames
    OBVIOUS
  <2>2. CASE Len(dirs) = 1
    <3>1. SearchSection(r.dirs) = "players"
      BY <1>5, <2>2 DEF SearchSection
    <3> QED
      BY <3>1 DEF SectionNames
  <2>3. CASE Len(dirs) = 2 /\ r.dirs[1] \in Sections
    <3>1. SearchSection(r.dirs) = r.dirs[1][1]
      BY <1>5, <2>3 DEF SearchSection
    <3>2. <<"players">>[1] = "players" /\ <<"clans">>[1] = "clans" /\ <<"servers">>[1] = "servers"
      OBVIOUS
    <3> QED
      BY <2>3, <3>1, <3>2 DEF Sections, SectionNames
  <2> QED
    BY <1>2, <2>1, <2>2, <2>3
<1>11. r.page \in HtmlLists => OrderArgument(r) \in Orders(r.page)
  <2>1. SUFFICES ASSUME r.page \in HtmlLists PROVE OrderArgument(r) \in Orders(r.page)
    OBVIOUS
  <2>2. CASE Len(dirs) = 1
    <3>1. OrderArgument(r) = DefaultOrder(r.page)
      BY <1>5, <2>2 DEF OrderArgument
    <3> QED
      BY <2>1, <3>1, OrdersLists
  <2>3. CASE Len(dirs) = 2 /\ r.dirs[2] \in Orders(r.page)
    BY <1>5, <2>3 DEF OrderArgument
  <2> QED
    BY <1>10, <2>1, <2>2, <2>3
<1>8. IsFound(r)
  BY <1>4, <1>5, <1>6, <1>7, <1>11 DEF IsFound
<1> QED
  BY <1>5, <1>8 DEF r

\* An answer that is a page of a route.
LEMMA Served ==
  ASSUME NEW first, NEW last, NEW url, IsUrl(url)
  PROVE  \/ Serve(first, last, url) = Failed(414)
         \/ \E route, name, above :
               /\ IsFound(route) /\ IsList(name) /\ IsList(above) /\ AreArguments(url.args)
               /\ Serve(first, last, url) = Setup(first, last, route, url.args, name, above)
<1> DEFINE dirs == Dirs(url.path)
           r == FindRoute(dirs)
<1>1. IsList(url.path) /\ AreArguments(url.args)
  <2>1. IsList(url.path) /\ IsList(url.args) /\ \A i \in DOMAIN url.args : IsList(url.args[i].val)
    BY DEF IsUrl
  <2>2. DOMAIN url.args = 1..Len(url.args)
    BY <2>1, ListIs
  <2> QED
    BY <2>1, <2>2 DEF AreArguments
<1>2. IsList(dirs) /\ Len(dirs) >= 1 /\ \A i \in 1..Len(dirs) : IsList(dirs[i])
  BY <1>1, DirsList
<1>3. Serve(first, last, url) = IF Len(dirs) > MaxDirs \/ Len(url.args) > MaxArgs THEN Failed(414)
                                ELSE RunRoute(first, last, r, url.args)
  BY DEF Serve, DoRoute
<1>4. IsFound(r)
  <2> HIDE DEF dirs
  <2> QED
    BY <1>2, RouteIsFound
<1>5. RunRoute(first, last, r, url.args) = Setup(first, last, r, url.args, Last(r.dirs),
          r.dirs[Max({1, Len(r.dirs) - 1})])
  BY DEF RunRoute
<1> HIDE DEF r
<1>6. IsList(r.dirs) /\ Len(r.dirs) >= 1 /\ \A i \in 1..Len(r.dirs) : IsList(r.dirs[i])
  BY <1>4 DEF IsFound
<1>7. Len(r.dirs) \in Nat
  BY <1>6, ListIs
<1>8. IsList(Last(r.dirs))
  <2>1. Last(r.dirs) = r.dirs[Len(r.dirs)] /\ Len(r.dirs) \in 1..Len(r.dirs)
    BY <1>6, <1>7 DEF Last
  <2> QED
    BY <1>6, <2>1
<1>9. IsList(r.dirs[Max({1, Len(r.dirs) - 1})])
  <2> DEFINE n == Len(r.dirs)
             T == {1, n - 1}
  <2>1. n \in Nat \ {0}
    BY <1>6, <1>7
  <2> HIDE DEF n
  <2>2. Max(T) \in 1..n
    <3>1. CASE n = 1
      <4>1. T \ {0} = {1} /\ 0 \in T /\ 1 \in T
        BY <3>1
      <4>2. Max(T) = 1
        BY <3>1, <4>1 DEF Max
      <4> QED
        BY <3>1, <4>2
    <3>2. CASE n > 1
      <4>1. T \in SUBSET (1..n) /\ T # {}
        BY <2>1, <3>2
      <4> HIDE DEF T
      <4>2. Max(T) \in T
        BY <2>1, <4>1, GreatestIndex
      <4> QED
        BY <4>1, <4>2
    <3> QED
      BY <2>1, <3>1, <3>2
  <2>3. IsList(r.dirs[Max(T)])
    BY <1>6, <2>2 DEF n
  <2> QED
    BY <2>3 DEF n
<1> QED
  BY <1>1, <1>3, <1>4, <1>5, <1>8, <1>9

\* Whatever is asked, the links of the answer are URLs.
LEMMA ServeUrls ==
  ASSUME NEW first, IsDatabase(first), NEW last, IsDatabase(last), NEW url, IsUrl(url)
  PROVE  AnswerUrls(Serve(first, last, url))
<1>1. CASE Serve(first, last, url) = Failed(414)
  BY <1>1, FailedUrls
<1>2. CASE \E route, name, above :
               /\ IsFound(route) /\ IsList(name) /\ IsList(above) /\ AreArguments(url.args)
               /\ Serve(first, last, url) = Setup(first, last, route, url.args, name, above)
  BY <1>2, SetupUrls
<1> QED
  BY <1>1, <1>2, Served

-----------------------------------------------------------------------------
\* The invariant of the reader, and the page that she sees.
LEMMA FailedIs ==
  ASSUME NEW status
  PROVE  Failed(status).page = "" /\ Failed(status).status = status /\ Failed(status).links = {} /\ Failed(status).next = {}
  BY DEF Failed, Answer

PageOf(a) == a.page

NoPage == ""

LEMMA AnswerPage ==
  ASSUME NEW status, NEW page, NEW of, NEW rows, NEW count, NEW links, NEW next
  PROVE  PageOf(Answer(status, page, of, rows, count, links, next)) = page
  BY DEF Answer, PageOf

LEMMA FailedPage == ASSUME NEW status PROVE PageOf(Failed(status)) = NoPage
  BY DEF Failed, Answer, PageOf, NoPage

LEMMA PlayerPage ==
  ASSUME NEW first, NEW page, NEW name
  PROVE  PageOf(Player(first, page, name)) \in {page, NoPage}
<1> DEFINE links == IF page = "json_player" THEN {} ELSE PlayerLinks(first, name)
<1>1. Player(first, page, name) = Failed(404) \/ Player(first, page, name) = Answer(200, page, <<name>>,
          {}, 0, links, {})
  BY PlayerAnswer
<1> HIDE DEF links
<1> QED
  BY <1>1, AnswerPage, FailedPage

LEMMA ClanPage ==
  ASSUME NEW first, NEW page, NEW clan
  PROVE  PageOf(Clan(first, page, clan)) \in {page, NoPage}
<1> DEFINE rows == IF clan = <<>> THEN {} ELSE ToSet(Members(first, clan))
           links == IF page = "json_clan" THEN {} ELSE ClanLinks(rows, clan)
<1>1. Clan(first, page, clan) = ClanRows(page, clan, rows)
  BY DEF Clan
<1> HIDE DEF rows
<1>2. \/ ClanRows(page, clan, rows) = Failed(404)
      \/ ClanRows(page, clan, rows) = Answer(200, page, <<clan>>, rows, Cardinality(rows), links, {})
  BY ClanAnswer
<1> HIDE DEF links
<1> QED
  BY <1>1, <1>2, AnswerPage, FailedPage

LEMMA ServerPage ==
  ASSUME NEW first, NEW last, NEW page, NEW parsed
  PROVE  PageOf(Server(first, last, page, parsed)) \in {page, NoPage}
<1>1. \/ Server(first, last, page, parsed) = Failed(404)
      \/ \E rows, count, links : Server(first, last, page, parsed) = Answer(200, page,
           <<parsed.ip, parsed.port>>, rows, count, links, {})
  BY ServerAnswer
<1> QED
  BY <1>1, AnswerPage, FailedPage

\* The page of an answer is that of its route, or none.
LEMMA SetupPage ==
  ASSUME NEW first, NEW last, NEW route, IsFound(route), NEW args, NEW name, NEW above
  PROVE  PageOf(Setup(first, last, route, args, name, above)) \in {route.page, NoPage}
<1> DEFINE a == Setup(first, last, route, args, name, above)
<1>1. CASE route.page = ""
  <2>1. a = Failed(404)
    BY <1>1 DEF Setup, HtmlLists, JsonLists
  <2> QED
    BY <2>1, FailedPage
<1>2. CASE route.page \in HtmlLists \cup JsonLists
  <2> DEFINE pnum == ParsePnum(PageArgument(args))
             order == OrderArgument(route)
  <2>1. a = List(first, last, route.page, pnum, order)
    BY <1>2 DEF Setup, HtmlLists, JsonLists
  <2> HIDE DEF a, pnum, order
  <2>2. PageOf(HtmlList(first, last, route.page, pnum.p, order)) \in {route.page, NoPage}
    BY AnswerPage, FailedPage DEF HtmlList, HtmlRows
  <2>3. PageOf(JsonList(first, route.page, pnum.p, order)) \in {route.page, NoPage}
    BY AnswerPage, FailedPage DEF JsonList, JsonRows
  <2> QED
    BY <2>1, <2>2, <2>3, FailedPage DEF List, a
<1>3. CASE route.page = "player"
  <2>1. a = Player(first, route.page, name)
    BY <1>3 DEF Setup, HtmlLists, JsonLists
  <2> QED
    BY <2>1, PlayerPage, FailedPage
<1>4. CASE route.page = "graph"
  <2>1. a = PlayerGraph(above)
    BY <1>4 DEF Setup, HtmlLists, JsonLists
  <2> QED
    BY <1>4, <2>1 DEF PlayerGraph, Answer, PageOf
<1>5. CASE route.page = "json_player"
  <2>1. a = Failed(400) \/ a = Player(first, route.page, ConvertHexname(name))
    BY <1>5 DEF Setup, HtmlLists, JsonLists
  <2> QED
    BY <2>1, PlayerPage, FailedPage
<1>6. CASE route.page = "clan"
  <2>1. a = Clan(first, route.page, name)
    BY <1>6 DEF Setup, HtmlLists, JsonLists
  <2> QED
    BY <2>1, ClanPage
<1>7. CASE route.page = "json_clan"
  <2>1. a = Clan(first, route.page, ConvertHexname(name))
    BY <1>7 DEF Setup, HtmlLists, JsonLists
  <2> QED
    BY <2>1, ClanPage
<1>8. CASE route.page \in {"server", "json_server"}
  <2>1. a = Server(first, last, route.page, ParseAddr(name))
    BY <1>8 DEF Setup, HtmlLists, JsonLists
  <2> QED
    BY <2>1, ServerPage
<1>9. CASE route.page = "search"
  <2>1. a = Failed(400) \/ a = Search(first, last, SearchSection(route.dirs),
            UrlDecode(Last(Queries(args)).val))
    BY <1>9 DEF Setup, HtmlLists, JsonLists
  <2>2. \A section, q : PageOf(Search(first, last, section, q)) = "search"
    BY DEF Search, SearchRows, Answer, PageOf
  <2> QED
    BY <1>9, <2>1, <2>2, FailedPage
<1>10. CASE route.page \in {"old_player_list", "old_player", "old_graph", "old_clan", "old_server"}
  <2>1. a = OldUrl(route.page, name, above)
    BY <1>10 DEF Setup, HtmlLists, JsonLists
  <2>2. \A path, args0 : PageOf(Redirected(path, args0)) = NoPage
    BY DEF Redirected, Answer, PageOf, NoPage
  <2>3. PageOf(OldUrl(route.page, name, above)) = NoPage
    BY <1>10, <2>2 DEF OldUrl
  <2> QED
    BY <2>1, <2>3
<1>11. route.page \in PageNames
  BY DEF IsFound
<1> HIDE DEF a
<1> QED
  BY <1>1, <1>2, <1>3, <1>4, <1>5, <1>6, <1>7, <1>8, <1>9, <1>10, <1>11 DEF PageNames, HtmlLists, JsonLists, a

\* A link that is followed is sent as an URL.
LEMMA BrowsedUrl ==
  ASSUME NEW url, IsUrl(url)
  PROVE  IsUrl(Browse(url)) /\ Browse(url).args = url.args
<1> DEFINE path == url.path
           args == url.args
<1>1. url = Url(path, args) /\ IsList(path) /\ AreArguments(args)
  <2>1. url = Url(path, args) /\ IsList(path) /\ IsList(args) /\ \A i \in DOMAIN args : IsList(args[i].val)
    BY DEF IsUrl
  <2>2. DOMAIN args = 1..Len(args)
    BY <2>1, ListIs
  <2> QED
    BY <2>1, <2>2 DEF AreArguments
<1> HIDE DEF path, args
<1>2. PICK t : IsList(t) /\ Browse(Url(path, args)) = Url(t, args)
  BY <1>1, BrowsedList
<1>3. IsUrl(Url(t, args))
  BY <1>1, <1>2, LinkUrl DEF AreArguments
<1>4. Url(t, args).args = args
  BY DEF Url
<1>5. Browse(url) = Url(t, args)
  BY <1>1, <1>2
<1> QED
  BY <1>3, <1>4, <1>5 DEF args

(***************************************************************************)
(* What the reader asks is an URL, and what she sees was made of two       *)
(* databases, of which the last has the players that are committed still,  *)
(* and the servers that are, or those of a commit before.                  *)
(***************************************************************************)

AreServers(servers) == servers = <<>> \/ \E d \in Databases : servers = <<d.servers>>

Asking(url, first, servers) == [url |-> url, first |-> first, servers |-> servers]

Asked(r) == \E url, first, servers : IsUrl(url) /\ first \in Databases /\ AreServers(servers)
                                     /\ r = <<Asking(url, first, servers)>>

Seen(s, d) == \E url, first, last : IsUrl(url) /\ first \in Databases /\ IsDatabase(last)
                 /\ s = [answer |-> Serve(first, last, url), whole |-> first = d /\ last = d]

LEMMA AskingIs ==
  ASSUME NEW url, NEW first, NEW servers, NEW r, r = <<Asking(url, first, servers)>>
  PROVE  /\ Head(r).url = url /\ Head(r).first = first /\ Head(r).servers = servers
         /\ \A new : [Head(r) EXCEPT !.servers = new] = Asking(url, first, new)
         /\ r # <<>>
<1> DEFINE u == Asking(url, first, servers)
<1>1. u.url = url /\ u.first = first /\ u.servers = servers
      /\ \A new : [u EXCEPT !.servers = new] = Asking(url, first, new)
  BY DEF Asking
<1> HIDE DEF u
<1>2. Head(r) = u
  BY DEF u
<1>3. r # <<>>
  BY OneNotEmpty DEF u
<1> QED
  BY <1>1, <1>2, <1>3

\* What is read last is a database.
LEMMA LaterIs ==
  ASSUME db \in Databases, NEW servers, AreServers(servers)
  PROVE  IsDatabase(Later(servers))
<1>1. CASE servers = <<>>
  BY <1>1, DatabasesAssumption DEF Later
<1>2. ASSUME NEW d \in Databases, servers = <<d.servers>> PROVE IsDatabase(Later(servers))
  <2> DEFINE rows == d.servers
             last == [players |-> db.players, servers |-> rows]
  <2>1. servers = <<rows>>
    BY <1>2
  <2>2. IsDatabase(d) /\ IsDatabase(db)
    BY DatabasesAssumption
  <2>3. last.players = db.players /\ last.servers = d.servers
    OBVIOUS
  <2>4. Later(servers) = last
    <3> HIDE DEF rows
    <3>1. servers # <<>> /\ servers[1] = rows
      BY <2>1, Single, OneNotEmpty
    <3> QED
      BY <3>1 DEF Later
  <2> HIDE DEF last
  <2>5. IsDatabase(last)
    BY <2>2, <2>3 DEF IsDatabase
  <2> QED
    BY <2>4, <2>5
<1> QED
  BY <1>1, <1>2 DEF AreServers

Reading == /\ db \in Databases
           /\ request = <<>> \/ Asked(request)
           /\ shown = Blank \/ Seen(shown, db)

\* Every step of the reader and of the updater keeps it.
LEMMA ReadingNext ==
  ASSUME Reading, [Next]_vars
  PROVE  Reading'
<1> USE DEF Reading
<1>1. CASE Commit
  BY <1>1 DEF Commit
<1>2. ASSUME NEW url \in Typed \cup {l.href : l \in shown.answer.links} \cup shown.answer.next, Request(url)
      PROVE  Reading'
  <2>1. IsUrl(url)
    <3>1. CASE url \in Typed
      BY <3>1, TypedAssumption
    <3>2. CASE shown = Blank
      <4>1. shown.answer = Failed(0)
        BY <3>2 DEF Blank
      <4>2. shown.answer.links = {} /\ shown.answer.next = {}
        BY <4>1, FailedIs
      <4> QED
        BY <1>2, <4>2, TypedAssumption
    <3>3. CASE Seen(shown, db)
      <4>1. PICK u, first, last : IsUrl(u) /\ first \in Databases /\ IsDatabase(last)
                                  /\ shown = [answer |-> Serve(first, last, u), whole |-> first = db /\ last = db]
        BY <3>3 DEF Seen
      <4>2. AnswerUrls(Serve(first, last, u))
        BY <4>1, ServeUrls, DatabasesAssumption
      <4>3. shown.answer = Serve(first, last, u)
        BY <4>1
      <4>4. AnswerUrls(shown.answer)
        BY <4>2, <4>3
      <4> QED
        BY <1>2, <4>4, TypedAssumption DEF AnswerUrls, AllUrls
    <3> QED
      BY <3>2, <3>3
  <2>2. IsUrl(Browse(url))
    BY <2>1, BrowsedUrl
  <2>3. request' = <<Asking(Browse(url), db, <<>>)>> /\ shown' = Blank /\ db' = db
    BY <1>2 DEF Request, Asking
  <2>4. Asked(request')
    BY <2>2, <2>3 DEF Asked, AreServers
  <2> QED
    BY <2>3, <2>4
<1>3. CASE ReadClients
  <2>1. PICK url, first, servers : IsUrl(url) /\ first \in Databases /\ request = <<Asking(url, first, servers)>>
    BY <1>3 DEF ReadClients, Asked
  <2>2. request' = <<[Head(request) EXCEPT !.servers = <<db.servers>>]>> /\ db' = db /\ shown' = shown
    BY <1>3 DEF ReadClients
  <2> DEFINE new == <<db.servers>>
  <2>3. AreServers(new)
    BY DEF AreServers
  <2>4. request' = <<Asking(url, first, new)>>
    <3>1. request' = <<[Head(request) EXCEPT !.servers = new]>>
      BY <2>2
    <3> HIDE DEF new
    <3> QED
      BY <2>1, <3>1, AskingIs
  <2> HIDE DEF new
  <2>5. Asked(request')
    BY <2>1, <2>3, <2>4 DEF Asked
  <2> QED
    BY <2>2, <2>5
<1>5. CASE Generate
  <2>1. Asked(request)
    BY <1>5 DEF Generate
  <2>2. PICK url, first, servers : /\ IsUrl(url) /\ first \in Databases /\ AreServers(servers)
                                   /\ request = <<Asking(url, first, servers)>>
    BY <2>1 DEF Asked
  <2>3. Head(request).url = url /\ Head(request).first = first /\ Head(request).servers = servers
    BY <2>2, AskingIs
  <2> DEFINE last == Later(servers)
  <2>4. IsDatabase(last)
    BY <2>2, LaterIs
  <2>5. shown' = [answer |-> Serve(first, last, url), whole |-> first = db /\ last = db]
        /\ request' = <<>> /\ db' = db
    BY <1>5, <2>3 DEF Generate
  <2> HIDE DEF last
  <2>6. Seen(shown', db')
    BY <2>2, <2>4, <2>5 DEF Seen
  <2> QED
    BY <2>5, <2>6
<1>4. CASE UNCHANGED vars
  BY <1>4 DEF vars
<1> QED
  BY <1>1, <1>2, <1>3, <1>4, <1>5 DEF Next

\* Everything the reader asks is an URL that the site can be asked, and what she looks at was
\* generated by Serve() from one database, or from more if some were committed in between.
THEOREM ReadingHolds == Spec => []Reading
<1>1. Init => Reading
  BY DEF Init, Reading
<1>2. Reading /\ [Next]_vars => Reading'
  BY ReadingNext
<1> QED
  BY <1>1, <1>2, PTL DEF Spec

-----------------------------------------------------------------------------
\* The counts of the pages.

\* The parts of an answer, whose page is a variable for the provers.
LEMMA AnswerParts ==
  ASSUME NEW a, NEW status, NEW page, NEW of, NEW rows, NEW count, NEW links, NEW next,
         a = Answer(status, page, of, rows, count, links, next)
  PROVE  /\ a.status = status /\ a.page = page /\ a.of = of /\ a.rows = rows
         /\ a.count = count /\ a.links = links /\ a.next = next
<1> DEFINE b == Answer(status, page, of, rows, count, links, next)
<1>1. /\ b.status = status /\ b.page = page /\ b.of = of /\ b.rows = rows
      /\ b.count = count /\ b.links = links /\ b.next = next
  BY DEF Answer
<1> HIDE DEF b
<1>2. a = b
  BY DEF b
<1> QED
  BY <1>1, <1>2

\* What a route answers, of a page that is p.
FromRoute(a, whole, d, p) ==
    \E first, last, route, args, name, above :
       /\ whole = (first = d /\ last = d)
       /\ IsFound(route) /\ route.page = p /\ AreArguments(args) /\ IsList(name) /\ IsList(above)
       /\ a = Setup(first, last, route, args, name, above)

\* An answer that the reader sees, of a page that some route has.
LEMMA SeenPage ==
  ASSUME NEW s, NEW d, Seen(s, d), NEW p, s.answer.page = p, p # ""
  PROVE  FromRoute(s.answer, s.whole, d, p)
<1>1. PICK url, first, last : IsUrl(url) /\ first \in Databases /\ IsDatabase(last)
                              /\ s = [answer |-> Serve(first, last, url), whole |-> first = d /\ last = d]
  BY DEF Seen
<1> DEFINE a == Serve(first, last, url)
           w == first = d /\ last = d
           r == [answer |-> a, whole |-> w]
<1>2. s.answer = a /\ s.whole = w
  <2> HIDE DEF a, w
  <2>1. r.answer = a /\ r.whole = w
    OBVIOUS
  <2>2. s = r
    BY <1>1 DEF a, w
  <2> HIDE DEF r
  <2> QED
    BY <2>1, <2>2
<1>3. a # Failed(414)
  <2>1. PageOf(s.answer) = p
    BY DEF PageOf
  <2>2. p # NoPage
    BY DEF NoPage
  <2> HIDE DEF a
  <2> QED
    BY <1>2, <2>1, <2>2, FailedPage
<1>4. PICK route, name, above :
               /\ IsFound(route) /\ IsList(name) /\ IsList(above) /\ AreArguments(url.args)
               /\ a = Setup(first, last, route, url.args, name, above)
  BY <1>1, <1>3, Served
<1>5. route.page = p
  <2>1. PageOf(s.answer) = p
    BY DEF PageOf
  <2>2. p # NoPage
    BY DEF NoPage
  <2>3. PageOf(a) \in {route.page, NoPage}
    BY <1>4, SetupPage
  <2> HIDE DEF a
  <2> QED
    BY <1>2, <2>1, <2>2, <2>3
<1> HIDE DEF a
<1> QED
  BY <1>1, <1>2, <1>4, <1>5 DEF FromRoute, IsUrl, Url

LEMMA ServerCounted ==
  ASSUME NEW first, NEW last, NEW page, NEW parsed, page = "json_server" => first = last, NEW a,
         a = Server(first, last, page, parsed), a # Failed(404)
  PROVE  a.count = Cardinality(a.rows)
<1> DEFINE rows == Clients(last, parsed.ip, parsed.port)
           count == IF page = "json_server" THEN Cardinality(Clients(first, parsed.ip, parsed.port))
                    ELSE ShownClients(first, last, parsed.ip, parsed.port)
           links == IF page = "json_server" THEN {} ELSE ServerLinks(last, parsed.ip, parsed.port)
<1>1. a = Answer(200, page, <<parsed.ip, parsed.port>>, rows, count, links, {})
  BY ServerAnswer
<1>2. count = Cardinality(rows)
  BY DEF ShownClients
<1> HIDE DEF rows, count, links
<1>3. a.count = count /\ a.rows = rows
  BY <1>1, AnswerParts
<1> QED
  BY <1>2, <1>3

\* The page of a server counts the clients of the server.
LEMMA ReadingCounts == ASSUME Reading PROVE ClientsCounted
<1> DEFINE a == shown.answer
<1>1. SUFFICES ASSUME a.page = "server" \/ (a.page = "json_server" /\ shown.whole)
               PROVE  a.count = Cardinality(a.rows)
  BY DEF ClientsCounted
<1>2. Seen(shown, db)
  <2>1. ASSUME shown = Blank PROVE FALSE
    <3>1. shown.answer = Failed(0)
      BY <2>1 DEF Blank
    <3>2. PageOf(a) = NoPage
      BY <3>1, FailedPage
    <3> QED
      BY <1>1, <3>2 DEF PageOf, NoPage
  <2> QED
    BY <2>1 DEF Reading
<1> DEFINE p == a.page
<1> DEFINE w == shown.whole
<1>3. FromRoute(a, w, db, p)
  <2>1. p # ""
    BY <1>1
  <2> HIDE DEF p
  <2>2. a.page = p
    BY DEF p
  <2> QED
    BY <1>2, <2>1, <2>2, SeenPage
<1>9. PICK first, last, route, args, name, above :
            /\ w = (first = db /\ last = db)
            /\ IsFound(route) /\ route.page = p /\ AreArguments(args) /\ IsList(name) /\ IsList(above)
            /\ a = Setup(first, last, route, args, name, above)
  <2> HIDE DEF a, w, p
  <2> QED
    BY <1>3 DEF FromRoute
<1>4. route.page \in {"server", "json_server"}
  BY <1>1, <1>9
<1>5. a = Server(first, last, route.page, ParseAddr(name))
  BY <1>9, <1>4 DEF Setup, HtmlLists, JsonLists
<1>6. a # Failed(404)
  <2>1. PageOf(a) # NoPage
    BY <1>1 DEF PageOf, NoPage
  <2> QED
    BY <2>1, FailedPage
<1>7. route.page = "json_server" => first = last
  BY <1>1, <1>9
<1> HIDE DEF a
<1> QED
  BY <1>5, <1>6, <1>7, ServerCounted

\* The number of players on the page of a server is that of the rows it shows (server.html.c).
THEOREM ClientsCountedHolds == Spec => []ClientsCounted
<1>1. Reading => ClientsCounted
  BY ReadingCounts
<1> QED
  BY <1>1, ReadingHolds, PTL

\* The tabs of a search count what their pages find.
LEMMA ResultsCount ==
  ASSUME NEW d, IsDatabase(d), NEW section \in SectionNames, NEW q, NEW a, a = Search(d, d, section, q)
  PROVE  Cardinality(a.rows) = Min({a.count, MaxResults})
<1> DEFINE found == Found(d, section, q)
           n == Min({MaxResults, Len(found)})
           rows == SubSeq(found, 1, n)
           count == SearchCount(d, section, q)
           links == Entries(ListOf(section), rows) \cup SearchTabs(section, q)
<1>1. a = Answer(200, "search", << <<section>>, q>>, ToSet(rows), count, links, {})
  BY DEF Search, SearchRows
<1>2. IsList(found) /\ Once(found) /\ Len(found) = count
  BY FoundListed
<1>3. Len(found) \in Nat /\ MaxResults \in Nat
  BY <1>2, PagesAssumption, ListIs
<1> HIDE DEF found, count
<1>4. n \in Nat /\ n <= Len(found) /\ n = Min({count, MaxResults})
  <2>1. n \in Nat /\ n <= Len(found)
    BY <1>3 DEF Min
  <2>2. {MaxResults, Len(found)} = {count, MaxResults}
    BY <1>2
  <2> QED
    BY <2>1, <2>2
<1> HIDE DEF n
<1>5. IsList(rows) /\ Len(rows) = n /\ \A i \in 1..Len(rows) : rows[i] = found[1 + i - 1] /\ 1 + i - 1 \in 1..Len(found)
  <2>1. n \in Int /\ 1 \in Nat \ {0}
    BY <1>4
  <2>2. IsList(rows) /\ Len(rows) = IF 1 <= n THEN n - 1 + 1 ELSE 0
    BY <1>2, <1>4, <2>1, PartWithin
  <2>3. Len(rows) = n
    BY <1>4, <2>2
  <2>4. \A i \in 1..Len(rows) : rows[i] = found[1 + i - 1] /\ 1 + i - 1 \in 1..Len(found)
    BY <1>2, <1>4, <2>1, PartWithin
  <2> QED
    BY <2>2, <2>3, <2>4
<1> HIDE DEF rows
<1>6. Cardinality(ToSet(rows)) = n
  <2>1. ToSet(rows) = {rows[i] : i \in 1..n} /\ DOMAIN rows = 1..n
    BY <1>5, ListIs
  <2>2. rows \in [1..n -> ToSet(rows)]
    BY <1>5, <2>1, ListIs
  <2>3. \A k, j \in 1..n : rows[k] = rows[j] => k = j
    <3>1. ASSUME NEW k \in 1..n PROVE rows[k] = found[k] /\ k \in 1..Len(found)
      <4>1. 1 + k - 1 = k
        BY <1>4
      <4>2. k \in 1..Len(rows)
        BY <1>5
      <4> QED
        BY <1>5, <4>1, <4>2
    <3> QED
      BY <1>2, <3>1 DEF Once
  <2>4. \A x \in ToSet(rows) : \E k \in 1..n : rows[k] = x
    BY <2>1
  <2>5. Numbers(rows, n, ToSet(rows))
    BY <2>2, <2>3, <2>4 DEF Numbers
  <2> QED
    BY <1>4, <2>5, Numbered
<1>7. a.rows = ToSet(rows) /\ a.count = count
  <2> DEFINE p == "search"
  <2>1. a = Answer(200, p, << <<section>>, q>>, ToSet(rows), count, links, {})
    BY <1>1
  <2> HIDE DEF p, links
  <2> QED
    BY <2>1, AnswerParts
<1> QED
  BY <1>4, <1>6, <1>7

LEMMA ReadingResults == ASSUME Reading PROVE ResultsCounted
<1> DEFINE a == shown.answer
<1>1. SUFFICES ASSUME a.page = "search", shown.whole
               PROVE  Cardinality(a.rows) = Min({a.count, MaxResults})
  BY DEF ResultsCounted
<1>2. Seen(shown, db)
  <2>1. ASSUME shown = Blank PROVE FALSE
    <3>1. shown.answer = Failed(0)
      BY <2>1 DEF Blank
    <3>2. PageOf(a) = NoPage
      BY <3>1, FailedPage
    <3> QED
      BY <1>1, <3>2 DEF PageOf, NoPage
  <2> QED
    BY <2>1 DEF Reading
<1> DEFINE p == a.page
<1> DEFINE w == shown.whole
<1>3. FromRoute(a, w, db, p)
  <2>1. p # ""
    BY <1>1
  <2> HIDE DEF p
  <2>2. a.page = p
    BY DEF p
  <2> QED
    BY <1>2, <2>1, <2>2, SeenPage
<1>9. PICK first, last, route, args, name, above :
            /\ w = (first = db /\ last = db)
            /\ IsFound(route) /\ route.page = p /\ AreArguments(args) /\ IsList(name) /\ IsList(above)
            /\ a = Setup(first, last, route, args, name, above)
  <2> HIDE DEF a, w, p
  <2> QED
    BY <1>3 DEF FromRoute
<1>4. route.page = "search" /\ first = db /\ last = db
  BY <1>1, <1>9
<1>5. a = Failed(400) \/ a = Search(db, db, SearchSection(route.dirs), UrlDecode(Last(Queries(args)).val))
  BY <1>9, <1>4 DEF Setup, HtmlLists, JsonLists
<1>6. a # Failed(400)
  <2>1. PageOf(a) # NoPage
    BY <1>1 DEF PageOf, NoPage
  <2> QED
    BY <2>1, FailedPage
<1>7. SearchSection(route.dirs) \in SectionNames
  BY <1>9, <1>4 DEF IsFound
<1>8. IsDatabase(db)
  BY DatabasesAssumption DEF Reading
<1> HIDE DEF a
<1> QED
  BY <1>5, <1>6, <1>7, <1>8, ResultsCount

\* The counts of the tabs of a search are those of the results (search.html.c), up to MAX_RESULTS.
THEOREM ResultsCountedHolds == Spec => []ResultsCounted
<1>1. Reading => ResultsCounted
  BY ReadingResults
<1> QED
  BY <1>1, ReadingHolds, PTL

-----------------------------------------------------------------------------
\* A search finds the name that is searched.

\* How much of the text may be matched, symbol after symbol of the pattern.
MatchesBy(text, pattern, at) ==
    /\ at \in [0..Len(pattern) -> SUBSET (0..Len(text))]
    /\ at[0] = {0} /\ Like(text, pattern) = (Len(text) \in at[Len(pattern)])
    /\ \A n \in 1..Len(pattern) : at[n] = Matched(at[n - 1], pattern[n], text)

LEMMA MatchSteps ==
  ASSUME NEW text, IsList(text), NEW pattern, IsList(pattern)
  PROVE  \E at : MatchesBy(text, pattern, at)
<1> DEFINE N == Len(pattern)
           V == SUBSET (0..Len(text))
           base == {0}
           step == [m \in (1..N) \X V |-> Matched(m[2], pattern[m[1]], text)]
           Iter(g) == g = [s \in SUBSET (1..N) |->
                             IF s = {} THEN base ELSE Matched(g[s \ {Max(s)}], pattern[Max(s)], text)]
<1>1. N \in Nat /\ DOMAIN pattern = 1..N /\ \A i \in 1..N : pattern[i] \in ToSet(pattern)
  BY ListIs
<1>2. ASSUME NEW v \in V, NEW c \in ToSet(pattern) PROVE Matched(v, c, text) \in V
  <2>1. Len(text) \in Nat
    BY ListIs
  <2>2. c = "%" => Matched(v, c, text) \subseteq 0..Len(text)
    BY DEF Matched
  <2>3. c # "%" => Matched(v, c, text) \subseteq 1..Len(text)
    BY DEF Matched
  <2>4. 1..Len(text) \subseteq 0..Len(text)
    BY <2>1
  <2> QED
    BY <2>2, <2>3, <2>4
<1>4. base \in V
  BY ListIs
<1>3. step \in [(1..N) \X V -> V]
  <2>1. ASSUME NEW m \in (1..N) \X V PROVE Matched(m[2], pattern[m[1]], text) \in V
    BY <1>1, <1>2
  <2> QED
    BY <2>1
<1>5. PICK it \in [SUBSET (1..N) -> V] : Folded(N, base, step, it)
  <2> HIDE DEF N, V, step, base
  <2> QED
    BY <1>1, <1>3, <1>4, FoldExists
<1>6. Iter(it)
  <2>1. ASSUME NEW s \in SUBSET (1..N), s # {}
        PROVE  step[<<Max(s), it[s \ {Max(s)}]>>] = Matched(it[s \ {Max(s)}], pattern[Max(s)], text)
    <3>1. Max(s) \in s
      BY <1>1, <2>1, GreatestIndex
    <3>2. s \ {Max(s)} \in SUBSET (1..N) /\ Max(s) \in 1..N
      BY <3>1
    <3>3. <<Max(s), it[s \ {Max(s)}]>> \in (1..N) \X V
      BY <1>5, <3>2
    <3> QED
      BY <3>3
  <2> HIDE DEF step, V, N, base
  <2> QED
    BY <1>5, <2>1 DEF Folded
<1> DEFINE iter == CHOOSE g : Iter(g)
<1>7. Iter(iter)
  <2> HIDE DEF Iter
  <2> QED
    BY <1>6
<1>8. Like(text, pattern) = (Len(text) \in iter[1..N])
  BY <1>1 DEF Like, FoldLeft, MapThenFoldSet
<1> HIDE DEF iter
<1> DEFINE at == [n \in 0..N |-> iter[1..n]]
<1>9. at[0] = base
  <2>1. 1..0 = {} /\ {} \in SUBSET (1..N) /\ 0 \in 0..N
    BY <1>1
  <2> HIDE DEF base
  <2> QED
    BY <1>7, <2>1
<1>10. ASSUME NEW n \in 1..N PROVE at[n] = Matched(at[n - 1], pattern[n], text)
  <2>1. 1..n \in SUBSET (1..N) /\ 1..n # {} /\ Max(1..n) = n /\ (1..n) \ {n} = 1..(n - 1)
    BY <1>1, FirstNumbers
  <2>2. iter[1..n] = Matched(iter[(1..n) \ {Max(1..n)}], pattern[Max(1..n)], text)
    <3> HIDE DEF N, base
    <3> QED
      BY <1>7, <2>1
  <2>3. n \in 0..N /\ n - 1 \in 0..N
    BY <1>1
  <2> QED
    BY <2>1, <2>2, <2>3
<1> HIDE DEF at
<1>11. \A n \in 0..N : at[n] \in V
  <2> DEFINE Good == {n \in Nat : n <= N => at[n] \in V}
  <2>1. 0 \in Good
    BY <1>4, <1>9
  <2>2. ASSUME NEW n \in Nat, n \in Good PROVE n + 1 \in Good
    <3>1. SUFFICES ASSUME n + 1 <= N PROVE at[n + 1] \in V
      OBVIOUS
    <3>2. at[n] \in V /\ n + 1 \in 1..N /\ (n + 1) - 1 = n
      BY <1>1, <2>2, <3>1
    <3> HIDE DEF V
    <3> QED
      BY <1>1, <1>2, <1>10, <3>2
  <2>3. Nat \subseteq Good
    <3> HIDE DEF Good
    <3> QED
      BY <2>1, <2>2, Induction
  <2> QED
    BY <1>1, <2>3
<1>12. at \in [0..N -> V] /\ Like(text, pattern) = (Len(text) \in at[N])
  BY <1>1, <1>8, <1>11 DEF at
<1>13. MatchesBy(text, pattern, at)
  BY <1>9, <1>10, <1>12 DEF MatchesBy
<1> QED
  BY <1>13

\* A text matches itself.
LEMMA LikeItself == ASSUME NEW q, IsList(q) PROVE Like(q, q)
<1>1. PICK at : MatchesBy(q, q, at)
  BY MatchSteps
<1>2. Len(q) \in Nat
  BY ListIs
<1> DEFINE Good == {n \in Nat : n <= Len(q) => n \in at[n]}
<1>3. 0 \in Good
  BY <1>1 DEF MatchesBy
<1>4. ASSUME NEW n \in Nat, n \in Good PROVE n + 1 \in Good
  <2>1. SUFFICES ASSUME n + 1 <= Len(q) PROVE n + 1 \in at[n + 1]
    OBVIOUS
  <2>2. n \in at[n] /\ n + 1 \in 1..Len(q) /\ (n + 1) - 1 = n /\ n + 1 \in 0..Len(q) /\ n <= n + 1
    BY <1>2, <1>4, <2>1
  <2>3. at[n + 1] = Matched(at[n], q[n + 1], q)
    BY <1>1, <2>2 DEF MatchesBy
  <2>4. n + 1 \in Matched(at[n], q[n + 1], q)
    BY <2>2 DEF Matched
  <2> QED
    BY <2>3, <2>4
<1>5. Nat \subseteq Good
  <2> HIDE DEF Good
  <2> QED
    BY <1>3, <1>4, Induction
<1>6. Len(q) \in at[Len(q)]
  BY <1>2, <1>5
<1> QED
  BY <1>1, <1>6 DEF MatchesBy

\* ... and whoever asks for what contains it.
LEMMA RelevantItself == ASSUME NEW q, IsList(q) PROVE IsRelevant(q, q)
<1> DEFINE pattern == <<"%">> \o q \o <<"%">>
           m == Len(q)
<1>1. m \in Nat
  BY ListIs
<1>2. /\ IsList(pattern) /\ Len(pattern) = m + 2
      /\ pattern[1] = "%" /\ pattern[m + 2] = "%" /\ \A n \in 1..m : pattern[n + 1] = q[n]
  <2> DEFINE a == <<"%">>
             b == a \o q
  <2>1. IsList(a) /\ Len(a) = 1 /\ a[1] = "%"
    BY Single
  <2> HIDE DEF a
  <2>2. IsList(b) /\ Len(b) = 1 + m /\ \A n \in 1..(1 + m) : b[n] = IF n <= 1 THEN a[n] ELSE q[n - 1]
    <3>1. IsList(q)
      OBVIOUS
    <3>2. /\ IsList(b) /\ Len(b) = Len(a) + Len(q)
          /\ \A n \in 1..(Len(a) + Len(q)) : b[n] = IF n <= Len(a) THEN a[n] ELSE q[n - Len(a)]
      BY <2>1, <3>1, JoinedLists
    <3> HIDE DEF b
    <3> QED
      BY <2>1, <3>2
  <2> HIDE DEF b
  <2>3. /\ IsList(b \o a) /\ Len(b \o a) = (1 + m) + 1
        /\ \A n \in 1..((1 + m) + 1) : (b \o a)[n] = IF n <= 1 + m THEN b[n] ELSE a[n - (1 + m)]
    <3> DEFINE e == b \o a
    <3>1. /\ IsList(e) /\ Len(e) = Len(b) + Len(a)
          /\ \A n \in 1..(Len(b) + Len(a)) : e[n] = IF n <= Len(b) THEN b[n] ELSE a[n - Len(b)]
      BY <2>1, <2>2, JoinedLists
    <3> HIDE DEF e, m
    <3> QED
      BY <2>1, <2>2, <3>1 DEF e
  <2>4. pattern = b \o a
    BY DEF a, b
  <2> HIDE DEF pattern
  <2>5. pattern[1] = "%"
    <3>1. 1 \in 1..((1 + m) + 1) /\ 1 \in 1..(1 + m) /\ 1 <= 1 /\ 1 <= 1 + m
      BY <1>1
    <3> QED
      BY <2>1, <2>2, <2>3, <2>4, <3>1
  <2>6. pattern[m + 2] = "%"
    <3>1. m + 2 \in 1..((1 + m) + 1) /\ ~(m + 2 <= 1 + m) /\ (m + 2) - (1 + m) = 1
      BY <1>1
    <3> QED
      BY <2>1, <2>3, <2>4, <3>1
  <2>7. ASSUME NEW n \in 1..m PROVE pattern[n + 1] = q[n]
    <3>1. n + 1 \in 1..((1 + m) + 1) /\ n + 1 \in 1..(1 + m) /\ n + 1 <= 1 + m /\ ~(n + 1 <= 1) /\ (n + 1) - 1 = n
      BY <1>1
    <3> QED
      BY <2>2, <2>3, <2>4, <3>1
  <2>8. (1 + m) + 1 = m + 2
    BY <1>1
  <2> QED
    BY <2>3, <2>4, <2>5, <2>6, <2>7, <2>8
<1>3. IsRelevant(q, q) = Like(q, pattern)
  BY DEF IsRelevant
<1> HIDE DEF pattern
<1>4. PICK at : MatchesBy(q, pattern, at)
  BY <1>2, MatchSteps
<1> HIDE DEF m
<1> DEFINE Good == {n \in Nat : n <= m => n \in at[n + 1]}
<1>5. 0 \in Good
  <2>1. 1 \in 1..Len(pattern) /\ 1 - 1 = 0 /\ 0 + 1 = 1 /\ 0 \in 0..m
    BY <1>1, <1>2
  <2>2. at[1] = Matched(at[0], "%", q) /\ at[0] = {0}
    BY <1>2, <1>4, <2>1 DEF MatchesBy
  <2>3. 0 \in Matched({0}, "%", q)
    BY <2>1 DEF Matched, m
  <2> QED
    BY <2>1, <2>2, <2>3
<1>6. ASSUME NEW n \in Nat, n \in Good PROVE n + 1 \in Good
  <2>1. SUFFICES ASSUME n + 1 <= m PROVE n + 1 \in at[(n + 1) + 1]
    OBVIOUS
  <2>2. /\ n \in at[n + 1] /\ n + 1 \in 1..m /\ (n + 1) - 1 = n /\ n + 1 \in 0..m /\ n <= n + 1
        /\ (n + 1) + 1 \in 1..Len(pattern) /\ ((n + 1) + 1) - 1 = n + 1
    BY <1>1, <1>2, <1>6, <2>1
  <2>3. at[(n + 1) + 1] = Matched(at[n + 1], q[n + 1], q)
    BY <1>2, <1>4, <2>2 DEF MatchesBy
  <2>4. n + 1 \in Matched(at[n + 1], q[n + 1], q)
    BY <2>2 DEF Matched, m
  <2> QED
    BY <2>3, <2>4
<1>7. Nat \subseteq Good
  <2> HIDE DEF Good
  <2> QED
    BY <1>5, <1>6, Induction
<1>8. m \in at[m + 1]
  BY <1>1, <1>7
<1>9. m \in at[m + 2]
  <2>1. m + 2 \in 1..Len(pattern) /\ (m + 2) - 1 = m + 1 /\ m \in 0..m /\ m <= m
    BY <1>1, <1>2
  <2>2. at[m + 2] = Matched(at[m + 1], "%", q)
    BY <1>2, <1>4, <2>1 DEF MatchesBy
  <2>3. m \in Matched(at[m + 1], "%", q)
    BY <1>8, <2>1 DEF Matched, m
  <2> QED
    BY <2>2, <2>3
<1> QED
  BY <1>2, <1>3, <1>4, <1>9 DEF MatchesBy, m

\* What is found comes in the order of its relevance.
LEMMA FoundRanked ==
  ASSUME NEW d, IsDatabase(d), NEW section \in SectionNames, NEW q,
         NEW j \in 1..Len(Found(d, section, q)), NEW k \in 1..Len(Found(d, section, q)), k < j
  PROVE  Relevance(NameOf(section, Found(d, section, q)[k]), q)
           <= Relevance(NameOf(section, Found(d, section, q)[j]), q)
<1> DEFINE all  == Searchable(d, section)
           K    == {i \in DOMAIN all : IsRelevant(NameOf(section, all[i]), q)}
           rows == Select(all, K)
           key  == [i \in DOMAIN rows |-> 1 + Relevance(NameOf(section, rows[i]), q)]
           found == SortedBy(rows, key, 4)
<1>1. IsList(all)
  BY SearchableListed
<1>2. Found(d, section, q) = found
  BY DEF Found
<1> HIDE DEF all, K
<1>3. IsList(rows)
  BY <1>1, SelectedList
<1>4. DOMAIN rows = 1..Len(rows) /\ rows \in Seq(ToSet(rows))
  BY <1>3, ListIs DEF IsList
<1> HIDE DEF rows
<1>5. \A text : Relevance(text, q) \in 0..3
  BY DEF Relevance
<1>6. ASSUME NEW i \in 1..Len(rows)
      PROVE  key[i] = 1 + Relevance(NameOf(section, rows[i]), q) /\ key[i] \in 1..4
  <2>1. key[i] = 1 + Relevance(NameOf(section, rows[i]), q)
    BY <1>4
  <2> HIDE DEF key
  <2> QED
    BY <1>5, <2>1
<1> HIDE DEF key
<1>7. \E place : Ordered(found, rows, key, 1..Len(rows), place)
  <2>1. 4 \in Nat
    OBVIOUS
  <2> QED
    BY <1>4, <1>6, <2>1, SortedPlaces
<1> HIDE DEF found
<1>8. PICK place : Ordered(found, rows, key, 1..Len(rows), place)
  BY <1>7
<1>9. /\ place[k] \in 1..Len(rows) /\ place[j] \in 1..Len(rows) /\ key[place[k]] <= key[place[j]]
      /\ found[k] = rows[place[k]] /\ found[j] = rows[place[j]]
  BY <1>2, <1>8 DEF Ordered
<1> DEFINE x == Relevance(NameOf(section, found[k]), q)
           y == Relevance(NameOf(section, found[j]), q)
<1>10. 1 + x <= 1 + y /\ x \in 0..3 /\ y \in 0..3
  BY <1>5, <1>6, <1>9
<1> HIDE DEF x, y
<1>11. x <= y
  BY <1>10
<1> QED
  BY <1>2, <1>11 DEF x, y

LEMMA SearchableFinite ==
  ASSUME NEW d, IsDatabase(d), NEW section \in SectionNames
  PROVE  IsFiniteSet(ToSet(Searchable(d, section)))
<1> DEFINE s == Searchable(d, section)
<1>1. IsList(s)
  BY SearchableListed
<1> HIDE DEF s
<1>2. s \in Seq(ToSet(s)) /\ Len(s) \in Nat /\ ToSet(s) = {s[i] : i \in 1..Len(s)}
  BY <1>1, ListIs DEF IsList
<1>3. IsFiniteSet(1..Len(s))
  <2>1. 1 \in Int /\ Len(s) \in Int
    BY <1>2
  <2> QED
    BY <2>1, FS_Interval
<1>4. s \in Surjection(1..Len(s), ToSet(s))
  BY <1>2 DEF Surjection
<1>5. IsFiniteSet(ToSet(s))
  BY <1>3, <1>4, FS_Surjection
<1> QED
  BY <1>5 DEF s

\* Who has the name that is asked is among the first, if those it matches whole are no more.
LEMMA NamedFirst ==
  ASSUME NEW d, IsDatabase(d), NEW section \in SectionNames, NEW q, IsList(q),
         NEW r \in ToSet(Searchable(d, section)), NameOf(section, r) = q, NEW n \in Nat,
         Cardinality({x \in ToSet(Searchable(d, section)) : Like(NameOf(section, x), q)}) <= n
  PROVE  \E j \in 1..Len(Found(d, section, q)) : j <= n /\ Found(d, section, q)[j] = r
<1> DEFINE found == Found(d, section, q)
           all == ToSet(Searchable(d, section))
           exact == {x \in all : Like(NameOf(section, x), q)}
<1>1. /\ IsList(found) /\ Once(found) /\ ToSet(found) = {x \in all : IsRelevant(NameOf(section, x), q)}
  BY FoundListed
<1>2. Len(found) \in Nat /\ ToSet(found) = {found[i] : i \in 1..Len(found)}
  BY <1>1, ListIs
<1>3. r \in ToSet(found)
  BY <1>1, RelevantItself
<1>4. PICK j \in 1..Len(found) : found[j] = r
  BY <1>2, <1>3
<1>5. Relevance(NameOf(section, found[j]), q) = 0
  <2>1. NameOf(section, found[j]) = q
    BY <1>4
  <2>2. Relevance(q, q) = 0
    BY LikeItself DEF Relevance
  <2> QED
    BY <2>1, <2>2
<1>6. ASSUME NEW k \in 1..j PROVE k \in 1..Len(found) /\ found[k] \in exact
  <2>1. k \in 1..Len(found) /\ (k < j \/ k = j)
    BY <1>2
  <2> DEFINE x == Relevance(NameOf(section, found[k]), q)
  <2>2. x <= 0
    <3>1. CASE k = j
      BY <1>5, <3>1
    <3>2. CASE k < j
      BY <1>5, <2>1, <3>2, FoundRanked
    <3> QED
      BY <2>1, <3>1, <3>2
  <2>3. x \in 0..3 /\ (x = 0 => Like(NameOf(section, found[k]), q))
    BY DEF Relevance
  <2> HIDE DEF x
  <2>4. Like(NameOf(section, found[k]), q)
    BY <2>2, <2>3
  <2>5. found[k] \in all
    BY <1>1, <1>2, <2>1
  <2> QED
    BY <2>1, <2>4, <2>5
<1>7. j <= Cardinality(exact)
  <2> DEFINE first == {found[k] : k \in 1..j}
             place == [k \in 1..j |-> found[k]]
  <2> HIDE DEF found
  <2>1. Numbers(place, j, first)
    <3>1. \A k, i \in 1..j : place[k] = place[i] => k = i
      BY <1>1, <1>6 DEF Once
    <3> QED
      BY <3>1 DEF Numbers
  <2>2. Cardinality(first) = j
    <3>1. j \in Nat
      BY <1>2, <1>4
    <3> HIDE DEF place, first
    <3> QED
      BY <2>1, <3>1, Numbered
  <2>3. IsFiniteSet(exact)
    <3>1. IsFiniteSet(all)
      BY SearchableFinite
    <3> QED
      BY <3>1, FS_Subset
  <2>4. first \subseteq exact
    BY <1>6
  <2> HIDE DEF first, exact
  <2> QED
    BY <2>2, <2>3, <2>4, FS_Subset
<1>8. IsFiniteSet(exact)
  <2>1. IsFiniteSet(all)
    BY SearchableFinite
  <2> QED
    BY <2>1, FS_Subset
<1>9. j <= n
  <2>1. Cardinality(exact) \in Nat /\ Cardinality(exact) <= n
    BY <1>8, FS_CardinalityType
  <2> HIDE DEF exact, found
  <2> QED
    BY <1>2, <1>4, <1>7, <2>1
<1> QED
  BY <1>4, <1>9

\* Rows whose names are the query are on the page.
LEMMA SearchShows ==
  ASSUME NEW d, IsDatabase(d), NEW section \in SectionNames, NEW q, IsList(q), NEW a,
             a = Search(d, d, section, q),
         Cardinality({x \in ToSet(Searchable(d, section)) : Like(NameOf(section, x), q)}) <= MaxResults
  PROVE  /\ a.of = << <<section>>, q>>
         /\ {x \in ToSet(Searchable(d, section)) : NameOf(section, x) = q} \subseteq a.rows
<1> DEFINE found == Found(d, section, q)
           all == ToSet(Searchable(d, section))
           exact == {x \in all : Like(NameOf(section, x), q)}
           n == Min({MaxResults, Len(found)})
           rows == SubSeq(found, 1, n)
           count == SearchCount(d, section, q)
           links == Entries(ListOf(section), rows) \cup SearchTabs(section, q)
           of == << <<section>>, q>>
<1>1. a = Answer(200, "search", of, ToSet(rows), count, links, {})
  BY DEF Search, SearchRows
<1>2. IsList(found)
  BY FoundListed
<1>3. MaxResults \in Nat /\ Len(found) \in Nat
  BY <1>2, PagesAssumption, ListIs
<1>4. ASSUME NEW r \in all, NameOf(section, r) = q
      PROVE  \E j \in 1..Len(found) : j <= MaxResults /\ found[j] = r
  <2>1. Cardinality(exact) <= MaxResults
    OBVIOUS
  <2> QED
    BY <1>3, <1>4, <2>1, NamedFirst
<1> HIDE DEF found, all, count
<1>5. n \in Nat /\ n <= Len(found) /\ (n = MaxResults \/ n = Len(found))
  BY <1>3 DEF Min
<1> HIDE DEF n
<1>6. /\ IsList(rows) /\ Len(rows) = IF 1 <= n THEN n - 1 + 1 ELSE 0
      /\ \A i \in 1..Len(rows) : rows[i] = found[1 + i - 1]
  <2>1. n \in Int /\ 1 \in Nat \ {0}
    BY <1>5
  <2> QED
    BY <1>2, <1>5, <2>1, PartWithin
<1> HIDE DEF rows
<1>7. ToSet(rows) = {rows[i] : i \in 1..Len(rows)}
  BY <1>6, ListIs
<1>8. ASSUME NEW r \in all, NameOf(section, r) = q PROVE r \in ToSet(rows)
  <2>1. PICK j \in 1..Len(found) : j <= MaxResults /\ found[j] = r
    BY <1>4, <1>8
  <2>2. j \in 1..Len(rows) /\ 1 + j - 1 = j
    BY <1>3, <1>5, <1>6, <2>1
  <2>3. rows[j] = r
    BY <1>6, <2>1, <2>2
  <2> QED
    BY <1>7, <2>2, <2>3
<1>9. a.rows = ToSet(rows) /\ a.of = of
  <2> DEFINE p == "search"
             t == ToSet(rows)
  <2>1. a = Answer(200, p, of, t, count, links, {})
    BY <1>1
  <2> HIDE DEF p, links, of, t
  <2>2. a.rows = t /\ a.of = of
    BY <2>1, AnswerParts
  <2> QED
    BY <2>2 DEF t
<1> QED
  BY <1>8, <1>9 DEF all

\* A search of one database finds who has the name.
LEMMA ReadingFinds == ASSUME Reading PROVE SearchFinds
<1> DEFINE a == shown.answer
           section == a.of[1][1]
<1>1. SUFFICES ASSUME a.page = "search", shown.whole, Cardinality(Matching(section, a.of[2])) <= MaxResults
               PROVE  Named(section, a.of[2]) \subseteq a.rows
  BY DEF SearchFinds
<1>2. Seen(shown, db)
  <2>1. ASSUME shown = Blank PROVE FALSE
    <3>1. shown.answer = Failed(0)
      BY <2>1 DEF Blank
    <3>2. PageOf(a) = NoPage
      BY <3>1, FailedPage
    <3> QED
      BY <1>1, <3>2 DEF PageOf, NoPage
  <2> QED
    BY <2>1 DEF Reading
<1> DEFINE p == a.page
           w == shown.whole
<1>3. FromRoute(a, w, db, p)
  <2>1. p # ""
    BY <1>1
  <2> HIDE DEF p
  <2>2. a.page = p
    BY DEF p
  <2> QED
    BY <1>2, <2>1, <2>2, SeenPage
<1>9. PICK first, last, route, args, name, above :
            /\ w = (first = db /\ last = db)
            /\ IsFound(route) /\ route.page = p /\ AreArguments(args) /\ IsList(name) /\ IsList(above)
            /\ a = Setup(first, last, route, args, name, above)
  <2> HIDE DEF a, w, p
  <2> QED
    BY <1>3 DEF FromRoute
<1>4. route.page = "search" /\ first = db /\ last = db
  BY <1>1, <1>9
<1> DEFINE queries == Queries(args)
           q == UrlDecode(Last(queries).val)
           s == SearchSection(route.dirs)
<1>5. a = IF queries = <<>> THEN Failed(400) ELSE Search(db, db, s, q)
  BY <1>9, <1>4 DEF Setup, HtmlLists, JsonLists
<1>6. a # Failed(400)
  <2>1. PageOf(a) # NoPage
    BY <1>1 DEF PageOf, NoPage
  <2> QED
    BY <2>1, FailedPage
<1>7. s \in SectionNames
  BY <1>9, <1>4 DEF IsFound
<1>8. IsDatabase(db)
  BY DatabasesAssumption DEF Reading
<1>10. queries # <<>> /\ a = Search(db, db, s, q)
  BY <1>5, <1>6
<1>11. IsList(q)
  BY <1>9, <1>10, QueryList
<1> HIDE DEF q, s
<1>12. a.of = << <<s>>, q>>
  <2> DEFINE found == Found(db, s, q)
             rows == SubSeq(found, 1, Min({MaxResults, Len(found)}))
             t == ToSet(rows)
             links == Entries(ListOf(s), rows) \cup SearchTabs(s, q)
             page == "search"
             of == << <<s>>, q>>
             count == SearchCount(db, s, q)
  <2>1. a = Answer(200, page, of, t, count, links, {})
    BY <1>10 DEF Search, SearchRows
  <2> HIDE DEF a, t, links, page, of, count
  <2>2. a.of = of
    BY <2>1, AnswerParts
  <2> QED
    BY <2>2 DEF of
<1>13. section = s /\ a.of[2] = q
  <2> HIDE DEF a
  <2> QED
    BY <1>12
<1> HIDE DEF a
<1>14. Cardinality({x \in ToSet(Searchable(db, s)) : Like(NameOf(s, x), q)}) <= MaxResults
  BY <1>1, <1>13 DEF Matching
<1>15. {x \in ToSet(Searchable(db, s)) : NameOf(s, x) = q} \subseteq a.rows
  BY <1>7, <1>8, <1>10, <1>11, <1>14, SearchShows
<1> QED
  BY <1>13, <1>15 DEF Named

\* Who has just the name that is searched is among the results, if those whose names match it
\* whole are no more than MAX_RESULTS (search.html.c).
THEOREM SearchFindsHolds == Spec => []SearchFinds
<1>1. Reading => SearchFinds
  BY ReadingFinds
<1> QED
  BY <1>1, ReadingHolds, PTL

\* ... also as the argument of an URL.
LEMMA DecimalDecoded ==
  ASSUME NEW n \in Nat, n <= 99999
  PROVE  UrlDecode(Decimal(n)) = Decimal(n) /\ PageNumber(Decimal(n)) = n
<1> DEFINE t == Decimal(n)
<1>1. /\ IsList(t) /\ Len(t) >= 1 /\ \A i \in 1..Len(t) : t[i] \in DecimalDigits
      /\ Number(t) = n
  BY DecimalRead
<1> HIDE DEF t
<1>2. UrlDecode(t) = t
  BY <1>1, DigitsPlain, PlainDecoded
<1>3. IsNumber(t)
  <2>1. DOMAIN t = 1..Len(t)
    BY <1>1, ListIs
  <2>2. t # <<>>
    BY <1>1, EmptyList
  <2> QED
    BY <1>1, <2>1, <2>2 DEF IsNumber
<1> QED
  BY <1>1, <1>2, <1>3 DEF PageNumber, t

LEMMA OneDirFound ==
  ASSUME NEW dirs, IsList(dirs), Len(dirs) = 1, IsList(dirs[1]), NEW r, Finds(Root, dirs[1], TRUE, r),
             r.ext = <<>>
  PROVE  FindRoute(dirs) = Entry(r.page, r.routes, dirs)
<1>1. PICK at : RoutesBy(dirs, at)
  <2>1. \A i \in 1..Len(dirs) : IsList(dirs[i])
    OBVIOUS
  <2> QED
    BY <2>1, RouteSteps
<1> DEFINE start == Entry("", Root, dirs)
           leaf == 1 = Len(dirs)
<1>2. /\ at[0] = start /\ FindRoute(dirs) = at[1]
      /\ at[1] = Enter(at[0], 1, FindChildRoute(at[0].routes, dirs[1], leaf))
  <2>1. 1 \in 1..Len(dirs) /\ 1 - 1 = 0
    OBVIOUS
  <2>2. at[1] = Enter(at[1 - 1], 1, FindChildRoute(at[1 - 1].routes, dirs[1], leaf))
    BY <1>1, <2>1 DEF RoutesBy
  <2>3. at[0] = start /\ FindRoute(dirs) = at[1]
    BY <1>1 DEF RoutesBy, Entry
  <2> QED
    BY <2>1, <2>2, <2>3
<1>3. leaf = TRUE
  OBVIOUS
<1>4. start.routes = Root /\ start.dirs = dirs
  BY DEF Entry
<1> HIDE DEF start
<1> DEFINE c == FindChildRoute(start.routes, dirs[1], leaf)
<1>5. c \in 1..Len(start.routes) /\ start.routes[c] = r
  BY <1>3, <1>4 DEF Finds
<1> HIDE DEF c
<1>6. Enter(start, 1, c) = Entry(r.page, r.routes, dirs)
  <2>1. 1 \in 1..Len(dirs)
    OBVIOUS
  <2> QED
    BY <1>4, <1>5, <2>1, EnterFound
<1> QED
  BY <1>2, <1>6 DEF c

\* A route of two directories is found through its section.
LEMMA TwoDirsFound ==
  ASSUME NEW dirs, IsList(dirs), Len(dirs) = 2, IsList(dirs[1]), IsList(dirs[2]),
         NEW q, Finds(Root, dirs[1], FALSE, q), q.ext = <<>>,
         NEW r, Finds(q.routes, dirs[2], TRUE, r), r.ext = <<>>
  PROVE  FindRoute(dirs) = Entry(r.page, r.routes, dirs)
<1>1. PICK at : RoutesBy(dirs, at)
  <2>1. \A i \in 1..Len(dirs) : IsList(dirs[i])
    OBVIOUS
  <2> QED
    BY <2>1, RouteSteps
<1> DEFINE start == Entry("", Root, dirs)
           inner == Entry(q.page, q.routes, dirs)
           leaf1 == 1 = Len(dirs)
           leaf2 == 2 = Len(dirs)
<1>2. /\ at[0] = start /\ FindRoute(dirs) = at[2]
      /\ at[1] = Enter(at[0], 1, FindChildRoute(at[0].routes, dirs[1], leaf1))
      /\ at[2] = Enter(at[1], 2, FindChildRoute(at[1].routes, dirs[2], leaf2))
  <2>1. 1 \in 1..Len(dirs) /\ 1 - 1 = 0 /\ 2 \in 1..Len(dirs) /\ 2 - 1 = 1
    OBVIOUS
  <2>2. at[1] = Enter(at[1 - 1], 1, FindChildRoute(at[1 - 1].routes, dirs[1], leaf1))
    BY <1>1, <2>1 DEF RoutesBy
  <2>3. at[2] = Enter(at[2 - 1], 2, FindChildRoute(at[2 - 1].routes, dirs[2], leaf2))
    BY <1>1, <2>1 DEF RoutesBy
  <2>4. at[0] = start /\ FindRoute(dirs) = at[2]
    BY <1>1 DEF RoutesBy, Entry
  <2> QED
    BY <2>1, <2>2, <2>3, <2>4
<1>3. leaf1 = FALSE /\ leaf2 = TRUE
  OBVIOUS
<1>4. /\ start.routes = Root /\ start.dirs = dirs
      /\ inner.routes = q.routes /\ inner.dirs = dirs
  BY DEF Entry
<1> HIDE DEF start, inner
<1> DEFINE c1 == FindChildRoute(start.routes, dirs[1], leaf1)
           c2 == FindChildRoute(inner.routes, dirs[2], leaf2)
<1>5. /\ c1 \in 1..Len(start.routes) /\ start.routes[c1] = q
      /\ c2 \in 1..Len(inner.routes) /\ inner.routes[c2] = r
  BY <1>3, <1>4 DEF Finds
<1> HIDE DEF c1, c2
<1>6. Enter(start, 1, c1) = inner
  <2>1. 1 \in 1..Len(dirs)
    OBVIOUS
  <2>2. Enter(start, 1, c1) = Entry(q.page, q.routes, dirs)
    BY <1>4, <1>5, <2>1, EnterFound
  <2> QED
    BY <2>2 DEF inner
<1>7. Enter(inner, 2, c2) = Entry(r.page, r.routes, dirs)
  <2>1. 2 \in 1..Len(dirs)
    OBVIOUS
  <2> QED
    BY <1>4, <1>5, <2>1, EnterFound
<1>8. at[1] = inner
  BY <1>2, <1>6 DEF c1
<1> QED
  BY <1>2, <1>7, <1>8 DEF c2

\* The route of a list, for its path.
LEMMA SectionFound ==
  ASSUME NEW w, NEW page, IsSection(w, page),
         NEW dirs, IsList(dirs), Len(dirs) = 1, dirs[1] = <<w>>
  PROVE  FindRoute(dirs) = Entry(page, <<>>, dirs)
<1> DEFINE t == <<w>>
           e == <<>>
           r == Route(t, <<>>, page, <<>>)
<1>1. Finds(Root, t, TRUE, r)
  <2>1. Finds(Root, <<w>>, TRUE, Route(<<w>>, <<>>, page, <<>>))
    BY SectionLeaf
  <2> QED
    BY <2>1
<1>2. IsList(t)
  BY Single
<1>3. r.ext = e /\ r.page = page /\ r.routes = e
  BY DEF Route
<1> HIDE DEF t, r
<1>4. dirs[1] = t
  BY DEF t
<1>5. FindRoute(dirs) = Entry(r.page, r.routes, dirs)
  BY <1>1, <1>2, <1>3, <1>4, OneDirFound
<1> QED
  BY <1>3, <1>5

LEMMA LastSeenRoute ==
  ASSUME NEW dirs, IsList(dirs), Len(dirs) = 2, dirs[1] = <<"players">>, dirs[2] = <<"by-lastseen">>
  PROVE  FindRoute(dirs) = Entry("player_list", <<>>, dirs)
<1> DEFINE t == <<"players">>
           u == <<"by-lastseen">>
           p == "player_list"
           e == <<>>
           q == Route(t, e, "", PlayersRoutes)
           r == Route(u, e, p, e)
<1>1. Finds(Root, t, FALSE, q)
  BY PlayersEntered
<1>2. Finds(PlayersRoutes, u, TRUE, r)
  BY LastSeenFound
<1>3. IsList(t) /\ IsList(u)
  BY Single
<1>4. q.ext = e /\ q.routes = PlayersRoutes /\ r.ext = e /\ r.page = p /\ r.routes = e
  BY DEF Route
<1> HIDE DEF t, u, p, q, r
<1>5. dirs[1] = t /\ dirs[2] = u
  BY DEF t, u
<1>6. Finds(q.routes, u, TRUE, r)
  BY <1>2, <1>4
<1>7. FindRoute(dirs) = Entry(r.page, r.routes, dirs)
  BY <1>1, <1>3, <1>4, <1>5, <1>6, TwoDirsFound
<1> QED
  BY <1>4, <1>7 DEF p

\* The number of a page, through its link.
LEMMA PageArgumentIs ==
  ASSUME NEW n \in Nat, n <= 99999
  PROVE  PageArgument(P(n)) = Decimal(n)
<1> DEFINE a == [name |-> "p", val |-> Decimal(n)]
           args == <<a>>
           K == {i \in DOMAIN args : args[i].name = "p" /\ args[i].val # <<>>}
<1>1. P(n) = args
  BY DEF P
<1>2. a.name = "p" /\ a.val = Decimal(n)
  OBVIOUS
<1>3. Decimal(n) # <<>>
  BY DecimalRead, EmptyList
<1>4. IsList(args) /\ Len(args) = 1 /\ args[1] = a /\ DOMAIN args = 1..1
  <2>1. IsList(args) /\ Len(args) = 1 /\ args[1] = a
    BY Single
  <2> QED
    BY <2>1, ListIs
<1> HIDE DEF a, args
<1>5. K = 1..Len(args)
  BY <1>2, <1>3, <1>4
<1> HIDE DEF K
<1>6. Select(args, K) = args
  <2> DEFINE S == {a}
  <2>1. args \in Seq(S)
    BY <1>4, ListWithin
  <2>2. PICK taken : SelectsBy(S, args, K, taken)
    BY <2>1, SelectSteps
  <2>3. 1 \in 1..Len(args) /\ 1 - 1 = 0 /\ 1 \in K
    BY <1>4, <1>5
  <2>4. taken[0] = <<>> /\ Select(args, K) = taken[1] /\ taken[1] = Append(taken[0], args[1])
    BY <1>4, <2>2, <2>3 DEF SelectsBy
  <2>5. Append(<<>>, a) = <<a>>
    OBVIOUS
  <2> QED
    BY <1>4, <2>4, <2>5 DEF args
<1>7. PageArgument(args) = IF args = <<>> THEN <<"1">> ELSE UrlDecode(Last(args).val)
  <2>1. PageArgument(args) = IF Select(args, K) = <<>> THEN <<"1">> ELSE UrlDecode(Last(Select(args, K)).val)
    BY DEF PageArgument, K
  <2> QED
    BY <1>6, <2>1
<1>8. args # <<>> /\ Last(args) = a
  <2>1. Len(<<>>) = 0
    BY EmptyList
  <2> QED
    BY <1>4, <2>1 DEF Last
<1>9. PageArgument(args) = UrlDecode(Decimal(n))
  BY <1>2, <1>7, <1>8
<1> QED
  BY <1>1, <1>9, DecimalDecoded

\* The order that is in the directories, or else that of the page.
Ordering(dirs, page, order) ==
    \/ Len(dirs) = 1 /\ order = DefaultOrder(page)
    \/ Len(dirs) = 2 /\ order = dirs[2]

\* No link has more than one argument.
Few(args) == ~(Len(args) > MaxArgs)

LEMMA FewArguments == Few(<<>>) /\ \A a : Few(<<a>>)
<1>1. Few(<<>>)
  BY EmptyList DEF Few, MaxArgs
<1>2. ASSUME NEW a PROVE Few(<<a>>)
  <2>1. Len(<<a>>) = 1
    BY Single
  <2> QED
    BY <2>1 DEF Few, MaxArgs
<1> QED
  BY <1>1, <1>2

\* What is asked by the link of a list.
LEMMA ListAsked ==
  ASSUME NEW d, NEW page \in HtmlLists, NEW order, NEW args, Few(args), NEW path, IsList(path), NoBlanks(path),
         Undotted(path), NEW dirs, Dirs(path) = dirs, Ordering(dirs, page, order), FindRoute(dirs) = Entry(page, <<>>, dirs)
  PROVE  Serve(d, d, Browse(Url(path, args))) = List(d, d, page, ParsePnum(PageArgument(args)), order)
<1> DEFINE url == Url(path, args)
           route == Entry(page, <<>>, dirs)
<1>1. Browse(url) = url
  BY PlainBrowsed DEF NoBlanks
<1>2. url.path = path /\ url.args = args
  BY DEF Url
<1>3. route.page = page /\ route.dirs = dirs
  BY DEF Entry
<1> HIDE DEF url, route
<1>4. Serve(d, d, url) = RunRoute(d, d, route, args)
  <2>1. Len(dirs) = 1 \/ Len(dirs) = 2
    BY DEF Ordering
  <2>2. ~(Len(dirs) > MaxDirs)
    <3> DEFINE m == Len(dirs)
    <3>1. m = 1 \/ m = 2
      BY <2>1
    <3> HIDE DEF m
    <3>2. ~(m > 8)
      BY <3>1
    <3> QED
      BY <3>2 DEF m, MaxDirs
  <2>3. FindRoute(dirs) = route
    BY DEF route
  <2>4. Serve(d, d, url) = DoRoute(d, d, dirs, args)
    BY <1>2 DEF Serve
  <2> QED
    BY <2>2, <2>3, <2>4 DEF DoRoute, Few
<1> DEFINE name == Last(route.dirs)
           above == route.dirs[Max({1, Len(route.dirs) - 1})]
<1>5. RunRoute(d, d, route, args) = Setup(d, d, route, args, name, above)
  BY DEF RunRoute
<1> HIDE DEF name, above
<1>6. Setup(d, d, route, args, name, above)
        = List(d, d, route.page, ParsePnum(PageArgument(args)), OrderArgument(route))
  <2>1. route.page \in HtmlLists
    BY <1>3
  <2>2. route.page # ""
    BY <2>1 DEF HtmlLists
  <2> QED
    BY <2>1, <2>2 DEF Setup, HtmlLists, JsonLists
<1>7. OrderArgument(route) = order
  BY <1>3 DEF OrderArgument, Ordering
<1> QED
  BY <1>1, <1>3, <1>4, <1>5, <1>6, <1>7 DEF url

LEMMA ListLinkIs ==
  ASSUME NEW page, NEW order, NEW n
  PROVE  ListLink(page, order, n).href
           = Url(<<"/", Section(page)>> \o (IF order = <<"by-lastseen">> THEN <<"/">> \o order ELSE <<>>), P(n))
<1> DEFINE path == <<"/", Section(page)>> \o (IF order = <<"by-lastseen">> THEN <<"/">> \o order ELSE <<>>)
<1>1. ListLink(page, order, n) = Link(path, P(n), page, <<Decimal(n), order>>)
  BY DEF ListLink
<1> HIDE DEF path
<1>2. Link(path, P(n), page, <<Decimal(n), order>>).href = Url(path, P(n))
  BY DEF Link
<1> QED
  BY <1>1, <1>2 DEF path

\* The list by default, at the path of its section, ...
LEMMA SectionAsked ==
  ASSUME NEW d, NEW page \in HtmlLists, NEW w, IsSection(w, page), Section(page) = w,
         NEW order, order = DefaultOrder(page), order # <<"by-lastseen">>, NEW n \in Nat, n <= 99999
  PROVE  Serve(d, d, Browse(ListLink(page, order, n).href)) = List(d, d, page, ParsePnum(Decimal(n)), order)
<1> DEFINE slash == "/"
           path == <<slash, w>>
           t == <<w>>
           dirs == <<t>>
<1>1. Word(w)
  BY WordsAre DEF IsSection
<1>2. IsList(path) /\ Len(path) = 2 /\ path[1] = slash /\ path[2] = w
  BY Pair
<1>3. ListLink(page, order, n).href = Url(path, P(n))
  <2>1. <<slash, Section(page)>> \o <<>> = path
    BY <1>2, JoinedNone
  <2> DEFINE tail == IF order = <<"by-lastseen">> THEN <<"/">> \o order ELSE <<>>
  <2>3. ListLink(page, order, n).href = Url(<<slash, Section(page)>> \o tail, P(n))
    BY ListLinkIs
  <2>4. tail = <<>>
    OBVIOUS
  <2> HIDE DEF tail
  <2>2. ListLink(page, order, n).href = Url(<<slash, Section(page)>> \o <<>>, P(n))
    BY <2>3, <2>4
  <2> QED
    BY <2>1, <2>2
<1>4. Dirs(path) = dirs
  <2> HIDE DEF path
  <2>1. path[1] = "/"
    BY <1>2
  <2> QED
    BY <1>1, <1>2, <2>1, OneDir
<1>41. Undotted(path)
  BY <1>1, OneUndotted
<1>5. IsList(dirs) /\ Len(dirs) = 1 /\ dirs[1] = t
  BY Single
<1>6. NoBlanks(path)
  <2>1. ~IsBlank(slash) /\ ~IsBlank(w)
    BY <1>1, SlashNotBlank, WordNotBlank
  <2> HIDE DEF path, slash
  <2> QED
    BY <1>2, <2>1 DEF NoBlanks
<1> HIDE DEF path, dirs, slash
<1>7. FindRoute(dirs) = Entry(page, <<>>, dirs)
  BY <1>5, SectionFound
<1> HIDE DEF t
<1>8. Serve(d, d, Browse(Url(path, P(n)))) = List(d, d, page, ParsePnum(Decimal(n)), order)
  <2> DEFINE args == P(n)
  <2>1. PageArgument(args) = Decimal(n)
    BY PageArgumentIs
  <2>2. Ordering(dirs, page, order)
    BY <1>5 DEF Ordering
  <2>4. Few(args)
    BY FewArguments DEF P
  <2> HIDE DEF args
  <2>3. Serve(d, d, Browse(Url(path, args))) = List(d, d, page, ParsePnum(PageArgument(args)), order)
    BY <1>2, <1>4, <1>41, <1>6, <1>7, <2>2, <2>4, ListAsked
  <2> QED
    BY <2>1, <2>3 DEF args
<1> QED
  BY <1>3, <1>8

LEMMA TwoAndTwoJoined ==
  ASSUME NEW a, NEW b, NEW c, NEW t, IsList(t), NEW text, text = <<a, b>> \o (<<c>> \o t)
  PROVE  text = <<a, b, c>> \o t
<1> DEFINE s == <<a, b>>
           one == <<c>>
<1>1. IsList(s) /\ IsList(one)
  BY Pair, Single
<1>2. <<a, b, c>> = Append(s, c)
  OBVIOUS
<1> HIDE DEF s
<1>3. s \o one = Append(s, c)
  BY <1>1, JoinedOne
<1> HIDE DEF one
<1>4. (s \o one) \o t = s \o (one \o t)
  BY <1>1, JoinedThree
<1> QED
  BY <1>2, <1>3, <1>4 DEF s, one

\* ... and the players by the date of their last game.
LEMMA LastSeenAsked ==
  ASSUME NEW d, NEW n \in Nat, n <= 99999, NEW order, order = <<"by-lastseen">>, NEW page,
             page = "player_list"
  PROVE  Serve(d, d, Browse(ListLink(page, order, n).href)) = List(d, d, page, ParsePnum(Decimal(n)), order)
<1> DEFINE slash == "/"
           v == "players"
           w == "by-lastseen"
           head == <<slash, v>>
           tail == <<slash>> \o order
           path == head \o tail
           t == <<v>>
           u == <<w>>
           dirs == <<t, u>>
<1>1. Word(v) /\ Word(w)
  BY WordsAre
<1>2. IsList(path) /\ Len(path) = 4 /\ path[1] = slash /\ path[2] = v /\ path[3] = slash /\ path[4] = w
  <2> DEFINE one == <<slash>>
  <2>1. IsList(head) /\ Len(head) = 2 /\ head[1] = slash /\ head[2] = v
    BY Pair
  <2>2. IsList(one) /\ Len(one) = 1 /\ one[1] = slash /\ IsList(order) /\ Len(order) = 1 /\ order[1] = w
    BY Single
  <2>3. tail = one \o order
    OBVIOUS
  <2> HIDE DEF head, tail, slash, v, w, one
  <2>4. IsList(tail) /\ Len(tail) = 2 /\ tail[1] = slash /\ tail[2] = w
    BY <2>2, <2>3, OneAndOne
  <2> QED
    BY <2>1, <2>4, TwoAndTwo
<1>3. ListLink(page, order, n).href = Url(path, P(n))
  <2>1. Section(page) = v
    BY DEF Section
  <2>2. ListLink(page, order, n).href = Url(<<slash, Section(page)>> \o tail, P(n))
    BY ListLinkIs
  <2> QED
    BY <2>1, <2>2
<1>4. Dirs(path) = dirs
  <2> HIDE DEF path, v, w
  <2>1. path[1] = "/" /\ path[3] = "/"
    BY <1>2
  <2> QED
    BY <1>1, <1>2, <2>1, TwoDirs
<1>41. Undotted(path)
  <2> HIDE DEF v, w
  <2>0. IsList(u)
    BY Single
  <2>1. path = <<slash, v, slash>> \o u
    <3>1. order = u
      BY DEF w
    <3>2. path = <<slash, v>> \o (<<slash>> \o order)
      OBVIOUS
    <3> HIDE DEF u, path, slash
    <3>3. path = <<slash, v>> \o (<<slash>> \o u)
      BY <3>1, <3>2
    <3> QED
      BY <2>0, <3>3, TwoAndTwoJoined
  <2>2. IsList(u) /\ Without(u, "/") /\ ~IsDots(u) /\ u # <<>>
    <3>1. IsList(u) /\ Len(u) = 1 /\ u[1] = w /\ u # <<>>
      BY Single, OneNotEmpty
    <3>2. w # "/" /\ ~IsDots(u)
      BY <1>1, WordNoDots DEF Word
    <3> HIDE DEF u
    <3> QED
      BY <3>1, <3>2 DEF Without
  <2> HIDE DEF u, path
  <2>3. Undotted(<<"/", v, "/">> \o u)
    BY <1>1, <2>2, TwoUndotted
  <2> QED
    BY <2>1, <2>3
<1>5. IsList(dirs) /\ Len(dirs) = 2 /\ dirs[1] = t /\ dirs[2] = u
  BY Pair
<1>6. NoBlanks(path)
  <2>1. ~IsBlank(slash) /\ ~IsBlank(v) /\ ~IsBlank(w)
    BY <1>1, SlashNotBlank, WordNotBlank
  <2> HIDE DEF path, slash, v, w
  <2> QED
    BY <1>2, <2>1 DEF NoBlanks
<1> HIDE DEF path, dirs, slash, v, w
<1>7. FindRoute(dirs) = Entry(page, <<>>, dirs)
  <2>1. dirs[1] = <<"players">> /\ dirs[2] = <<"by-lastseen">>
    BY <1>5 DEF v, w
  <2> QED
    BY <1>5, <2>1, LastSeenRoute
<1>8. page \in HtmlLists
  BY DEF HtmlLists
<1>9. order = u
  BY DEF w
<1> HIDE DEF t, u
<1>10. order = dirs[2]
  BY <1>5, <1>9
<1>11. Serve(d, d, Browse(Url(path, P(n)))) = List(d, d, page, ParsePnum(Decimal(n)), order)
  <2> DEFINE args == P(n)
  <2>1. PageArgument(args) = Decimal(n)
    BY PageArgumentIs
  <2>2. Ordering(dirs, page, order)
    BY <1>5, <1>10 DEF Ordering
  <2>4. Few(args)
    BY FewArguments DEF P
  <2> HIDE DEF args
  <2>3. Serve(d, d, Browse(Url(path, args))) = List(d, d, page, ParsePnum(PageArgument(args)), order)
    BY <1>2, <1>4, <1>41, <1>6, <1>7, <1>8, <2>2, <2>4, ListAsked
  <2> QED
    BY <2>1, <2>3 DEF args
<1> QED
  BY <1>3, <1>11

\* The link of a list is answered by the list, in its order and at its page.
LEMMA ListServed ==
  ASSUME NEW d, NEW page \in HtmlLists, NEW order \in Orders(page), NEW n \in Nat, n <= 99999
  PROVE  Serve(d, d, Browse(ListLink(page, order, n).href)) = List(d, d, page, ParsePnum(Decimal(n)), order)
<1>1. CASE order = <<"by-lastseen">>
  <2>1. page = "player_list"
    <3>1. <<"by-nmembers">>[1] = "by-nmembers" /\ <<"by-nplayers">>[1] = "by-nplayers" /\ <<"by-lastseen">>[1] = "by-lastseen"
      OBVIOUS
    <3> QED
      BY <1>1, <3>1 DEF Orders, HtmlLists
  <2> QED
    BY <1>1, <2>1, LastSeenAsked
<1>2. CASE order # <<"by-lastseen">>
  <2>1. order = DefaultOrder(page)
    <3>1. \A o \in Orders(page) : o # <<"by-lastseen">> => o = order
      BY <1>2 DEF Orders, HtmlLists
    <3>2. \E o \in Orders(page) : o # <<"by-lastseen">>
      BY <1>2
    <3> QED
      BY <3>1, <3>2 DEF DefaultOrder
  <2>2. IsSection(Section(page), page)
    BY DEF IsSection, Section, HtmlLists
  <2> QED
    BY <1>2, <2>1, <2>2, SectionAsked
<1> QED
  BY <1>1, <1>2

-----------------------------------------------------------------------------
\* The walk from page to page.

\* The first n rows of a list.
FirstRows(rows, n) == {rows[i] : i \in {k \in 1..Len(rows) : k <= n}}

WalkOf(page, order, p, rows) == [page |-> page, order |-> order, p |-> p, rows |-> rows]

LEMMA WalkParts ==
  ASSUME NEW w, NEW page, NEW order, NEW p, NEW rows, w = WalkOf(page, order, p, rows)
  PROVE  /\ w.page = page /\ w.order = order /\ w.p = p /\ w.rows = rows
         /\ [w EXCEPT !.rows = {}] = WalkOf(page, order, p, {})
<1> DEFINE v == WalkOf(page, order, p, rows)
<1>1. /\ v.page = page /\ v.order = order /\ v.p = p /\ v.rows = rows
      /\ [v EXCEPT !.rows = {}] = WalkOf(page, order, p, {})
  BY DEF WalkOf
<1> HIDE DEF v
<1>2. w = v
  BY DEF v
<1> QED
  BY <1>1, <1>2

WalkAt(d, page, order, p) == WalkOf(page, order, p, FirstRows(Rows(d, page, order), p * PageSize))

NextOf(d, page, order, p) ==
    IF p = NumberOfPages(Len(Rows(d, page, order))) THEN {} ELSE {ListLink(page, order, p + 1).href}

IsWalk(w, d, page, order, p) ==
    /\ page \in HtmlLists /\ order \in Orders(page) /\ p \in Nat \ {0} /\ p <= MaxPage
    /\ w = WalkAt(d, page, order, p)

(***************************************************************************)
(* Who walks has seen the first rows of the list that is now committed,    *)
(* and looks at the page whose next page is that of her walk.              *)
(***************************************************************************)

Following ==
    \/ walk = NoWalk
    \/ \E page, order, p : /\ IsWalk(walk, db, page, order, p)
                           /\ request = <<>> => shown.answer.next = NextOf(db, page, order, p)

\* The rows of a page, after those of the pages before it.
LEMMA LimitRows ==
  ASSUME NEW rows, IsList(rows), NEW p \in Nat \ {0}
  PROVE  /\ ToSet(Limit(rows, p)) \cup FirstRows(rows, (p - 1) * PageSize) = FirstRows(rows, p * PageSize)
         /\ Limit(rows, p) = <<>> => Len(rows) <= (p - 1) * PageSize
<1> DEFINE before == (p - 1) * PageSize
           upto == p * PageSize
           last == Min({upto, Len(rows)})
           part == SubSeq(rows, before + 1, last)
<1>1. Len(rows) \in Nat
  BY ListIs
<1>2. before \in Nat /\ upto \in Nat /\ before < upto
  <2>1. PageSize \in Nat \ {0} /\ p \in Nat \ {0}
    BY PagesAssumption
  <2>2. before \in Nat /\ upto \in Nat /\ upto = before + PageSize
    BY <2>1
  <2> HIDE DEF before, upto
  <2> QED
    BY <2>1, <2>2
<1>3. Limit(rows, p) = part
  BY DEF Limit
<1> HIDE DEF before, upto
<1>4. last = IF upto <= Len(rows) THEN upto ELSE Len(rows)
  BY <1>1, <1>2 DEF Min
<1> HIDE DEF last
<1>5. /\ IsList(part) /\ Len(part) = IF before + 1 <= last THEN last - before - 1 + 1 ELSE 0
      /\ \A i \in 1..Len(part) : part[i] = rows[before + 1 + i - 1] /\ before + 1 + i - 1 \in 1..Len(rows)
  <2> DEFINE m == before + 1
  <2>1. m \in Nat \ {0} /\ last \in Int /\ last <= Len(rows)
    BY <1>1, <1>2, <1>4
  <2>2. last - m + 1 = last - before - 1 + 1
    BY <1>2, <2>1
  <2> HIDE DEF m
  <2>3. /\ IsList(SubSeq(rows, m, last)) /\ Len(SubSeq(rows, m, last)) = IF m <= last THEN last - m + 1 ELSE 0
        /\ \A i \in 1..Len(SubSeq(rows, m, last)) :
             SubSeq(rows, m, last)[i] = rows[m + i - 1] /\ m + i - 1 \in 1..Len(rows)
    BY <2>1, PartWithin
  <2> QED
    BY <2>2, <2>3 DEF m
<1> HIDE DEF part
<1>6. ToSet(part) = {part[i] : i \in 1..Len(part)} /\ Len(part) \in Nat
  BY <1>5, ListIs
<1>7. ASSUME NEW x \in ToSet(part) PROVE x \in FirstRows(rows, upto)
  <2>1. PICK i \in 1..Len(part) : x = part[i]
    BY <1>6
  <2> DEFINE k == before + 1 + i - 1
  <2>2. x = rows[k] /\ k \in 1..Len(rows)
    BY <1>5, <2>1
  <2>3. k <= upto
    BY <1>1, <1>2, <1>4, <1>5, <1>6, <2>1
  <2> HIDE DEF k
  <2> QED
    BY <2>2, <2>3 DEF FirstRows
<1>8. FirstRows(rows, before) \subseteq FirstRows(rows, upto)
  BY <1>1, <1>2 DEF FirstRows
<1>9. ASSUME NEW x \in FirstRows(rows, upto), x \notin FirstRows(rows, before)
      PROVE  x \in ToSet(part)
  <2>1. PICK k \in 1..Len(rows) : k <= upto /\ x = rows[k]
    BY <1>9 DEF FirstRows
  <2>2. ~(k <= before)
    BY <1>9, <2>1 DEF FirstRows
  <2> DEFINE i == k - before
  <2>3. i \in 1..Len(part) /\ before + 1 + i - 1 = k
    BY <1>1, <1>2, <1>4, <1>5, <1>6, <2>1, <2>2
  <2> HIDE DEF i
  <2> QED
    BY <1>5, <1>6, <2>1, <2>3
<1>10. ToSet(part) \cup FirstRows(rows, before) = FirstRows(rows, upto)
  BY <1>7, <1>8, <1>9
<1>11. part = <<>> => Len(rows) <= before
  <2>1. SUFFICES ASSUME Len(part) = 0 PROVE Len(rows) <= before
    BY EmptyList
  <2> QED
    BY <1>1, <1>2, <1>4, <1>5, <2>1
<1> QED
  BY <1>3, <1>10, <1>11 DEF before, upto

LEMMA NoneBefore == ASSUME NEW rows PROVE FirstRows(rows, (1 - 1) * PageSize) = {}
<1>1. (1 - 1) * PageSize = 0
  BY PagesAssumption
<1>2. {k \in 1..Len(rows) : k <= 0} = {}
  <2>1. \A k \in 1..Len(rows) : k >= 1 /\ k \in Int
    OBVIOUS
  <2> QED
    BY <2>1
<1> QED
  BY <1>1, <1>2 DEF FirstRows

LEMMA AllBefore ==
  ASSUME NEW rows, IsList(rows), NEW n \in Nat, Len(rows) <= n
  PROVE  FirstRows(rows, n) = ToSet(rows)
<1>1. Len(rows) \in Nat /\ ToSet(rows) = {rows[i] : i \in 1..Len(rows)}
  BY ListIs
<1>2. {k \in 1..Len(rows) : k <= n} = 1..Len(rows)
  BY <1>1
<1> QED
  BY <1>1, <1>2 DEF FirstRows

\* The page of a list that is found.
LEMMA ListFound ==
  ASSUME NEW d, NEW page \in HtmlLists, NEW text, NEW order, NEW a,
         a = List(d, d, page, ParsePnum(text), order), a.status = 200
  PROVE  \E p : /\ p \in Nat \ {0} /\ p <= MaxPage
                /\ a.of = <<Decimal(p), order>>
                /\ a.rows = ToSet(Limit(Rows(d, page, order), p))
                /\ a.next = NextOf(d, page, order, p)
<1> DEFINE pnum == ParsePnum(text)
           p == pnum.p
           rows == Limit(Rows(d, page, order), p)
           npages == NumberOfPages(Len(Rows(d, page, order)))
           links == Entries(page, rows) \cup TabLinks(page)
                    \cup {ListLink(page, o, p) : o \in Orders(page) \ {order}}
                    \cup {JsonListLink(page, order, p)}
                    \cup {ListLink(page, order, n) : n \in NavPages(p, npages)}
           next == IF p = npages THEN {} ELSE {ListLink(page, order, p + 1).href}
           found == Answer(200, page, <<Decimal(p), order>>, ToSet(rows), Len(rows), links, next)
<1>1. \A status : a = Failed(status) => status = 200
  BY FailedIs
<1>2. pnum.valid
  <2>1. ~pnum.valid => a = Failed(500)
    BY DEF List
  <2> QED
    BY <1>1, <2>1
<1>3. p \in Nat \ {0} /\ p <= MaxPage
  <2>1. p = PageNumber(text) /\ PageNumber(text) \in 1..9999 /\ PageNumber(text) \in Nat \ {0}
    BY <1>2, PnumIs
  <2> DEFINE u == PageNumber(text)
  <2>2. p = u /\ u \in 1..9999
    BY <2>1
  <2> HIDE DEF p, u
  <2>3. u \in Nat \ {0} /\ u <= 9999
    BY <2>2
  <2> QED
    BY <2>2, <2>3 DEF MaxPage
<1>4. a = HtmlList(d, d, page, p, order)
  BY <1>2 DEF List
<1>5. a = Failed(404) \/ a = found
  BY <1>4 DEF HtmlList, HtmlRows
<1>6. a = found
  BY <1>1, <1>5
<1>7. next = NextOf(d, page, order, p)
  BY DEF NextOf
<1> HIDE DEF links, next, p
<1>8. a.of = <<Decimal(p), order>> /\ a.rows = ToSet(rows) /\ a.next = next
  <2> DEFINE of == <<Decimal(p), order>>
             seen == ToSet(rows)
             count == Len(rows)
  <2>1. a = Answer(200, page, of, seen, count, links, next)
    BY <1>6
  <2> HIDE DEF of, seen, count
  <2>2. a.of = of /\ a.rows = seen /\ a.next = next
    BY <2>1, AnswerParts
  <2> QED
    BY <2>2 DEF of, seen
<1> QED
  BY <1>3, <1>7, <1>8

\* The walk after an answer.
LEMMA WalkedOn ==
  ASSUME NEW a, NEW w, NEW d, IsDatabase(d), NEW page \in HtmlLists, NEW order \in Orders(page),
             NEW p \in Nat \ {0},
         p <= MaxPage, a.status = 200, a.page = page, a.of = <<Decimal(p), order>>,
         a.rows = ToSet(Limit(Rows(d, page, order), p)),
         NEW old, old = NoWalk \/ \E page1, order1, p1 : IsWalk(old, d, page1, order1, p1), NEW new,
         LET q == Number(a.of[1])
         IN  new = IF ~TRUE \/ a.status # 200 \/ a.page \notin HtmlLists THEN NoWalk
                   ELSE IF q = 1 \/ [old EXCEPT !.rows = {}]
                                    = [page |-> a.page, order |-> a.of[2], p |-> q - 1, rows |-> {}]
                   THEN [page |-> a.page, order |-> a.of[2], p |-> q,
                         rows |-> a.rows \cup (IF q = 1 THEN {} ELSE old.rows)]
                   ELSE NoWalk
  PROVE  new = NoWalk \/ IsWalk(new, d, page, order, p)
<1> DEFINE rows == Rows(d, page, order)
           joined == a.rows \cup (IF p = 1 THEN {} ELSE old.rows)
<1>1. Number(a.of[1]) = p /\ a.of[2] = order
  <2> DEFINE t == Decimal(p)
  <2>1. a.of = <<t, order>>
    OBVIOUS
  <2> HIDE DEF t
  <2>2. a.of[1] = t /\ a.of[2] = order
    BY <2>1
  <2>3. p <= 99999
    BY DEF MaxPage
  <2>4. Number(Decimal(p)) = p
    BY <2>3, DecimalRead
  <2> QED
    BY <2>2, <2>4 DEF t
<1>2. \/ new = NoWalk
      \/ /\ p = 1 \/ [old EXCEPT !.rows = {}] = WalkOf(page, order, p - 1, {})
         /\ new = WalkOf(page, order, p, joined)
  BY <1>1 DEF WalkOf
<1> HIDE DEF joined
<1>3. IsList(rows)
  BY RowsKnown
<1>4. ASSUME p = 1 \/ [old EXCEPT !.rows = {}] = WalkOf(page, order, p - 1, {})
      PROVE  joined = FirstRows(rows, p * PageSize)
  <2>1. ToSet(Limit(rows, p)) \cup FirstRows(rows, (p - 1) * PageSize) = FirstRows(rows, p * PageSize)
    BY <1>3, LimitRows
  <2>2. CASE p = 1
    <3>1. joined = ToSet(Limit(rows, p)) \cup {}
      BY <2>2 DEF joined
    <3>2. FirstRows(rows, (p - 1) * PageSize) = {}
      BY <2>2, NoneBefore
    <3> QED
      BY <2>1, <3>1, <3>2
  <2>3. CASE p # 1
    <3>1. [old EXCEPT !.rows = {}] = WalkOf(page, order, p - 1, {})
      BY <1>4, <2>3
    <3> DEFINE cut == [old EXCEPT !.rows = {}]
               back == WalkOf(page, order, p - 1, {})
    <3>2. back.page = page /\ back.order = order /\ back.p = p - 1
      BY DEF WalkOf
    <3>3. cut = back
      BY <3>1
    <3> HIDE DEF cut, back
    <3>4. cut.page = page /\ cut.order = order /\ cut.p = p - 1
      BY <3>2, <3>3
    <3>5. old # NoWalk
      <4>1. SUFFICES ASSUME old = NoWalk PROVE FALSE
        OBVIOUS
      <4>2. cut.p = 0
        BY <4>1 DEF cut, NoWalk
      <4> QED
        BY <2>3, <3>4, <4>2
    <3>6. PICK page1, order1, p1 : IsWalk(old, d, page1, order1, p1)
      BY <3>5
    <3> DEFINE seen == FirstRows(Rows(d, page1, order1), p1 * PageSize)
    <3>7. old = WalkOf(page1, order1, p1, seen)
      BY <3>6 DEF IsWalk, WalkAt
    <3> HIDE DEF seen
    <3>8. old.rows = seen /\ cut = WalkOf(page1, order1, p1, {})
      BY <3>7, WalkParts DEF cut
    <3>9. cut.page = page1 /\ cut.order = order1 /\ cut.p = p1
      BY <3>8, WalkParts
    <3>10. old.rows = FirstRows(rows, (p - 1) * PageSize)
      BY <3>4, <3>8, <3>9 DEF seen
    <3>11. joined = ToSet(Limit(rows, p)) \cup old.rows
      BY <2>3 DEF joined
    <3> QED
      BY <2>1, <3>10, <3>11
  <2> QED
    BY <2>2, <2>3
<1> QED
  BY <1>2, <1>4 DEF IsWalk, WalkAt

LEMMA ListRoute ==
  ASSUME NEW s, NEW d, Seen(s, d), s.answer.page \in HtmlLists
  PROVE  FromRoute(s.answer, s.whole, d, s.answer.page)
<1> DEFINE p == s.answer.page
<1>1. p # ""
  BY DEF HtmlLists
<1> HIDE DEF p
<1>2. s.answer.page = p
  BY DEF p
<1>3. FromRoute(s.answer, s.whole, d, p)
  BY <1>1, <1>2, SeenPage
<1> QED
  BY <1>3 DEF p

\* What is seen of a list that was read whole.
LEMMA ListSeen ==
  ASSUME NEW s, NEW d, Seen(s, d), s.whole, s.answer.status = 200, s.answer.page \in HtmlLists
  PROVE  \E order, p : /\ order \in Orders(s.answer.page) /\ p \in Nat \ {0} /\ p <= MaxPage
                       /\ s.answer.of = <<Decimal(p), order>>
                       /\ s.answer.rows = ToSet(Limit(Rows(d, s.answer.page, order), p))
                       /\ s.answer.next = NextOf(d, s.answer.page, order, p)
<1> DEFINE a == s.answer
           w == s.whole
           page == a.page
<1>1. FromRoute(a, w, d, page)
  BY ListRoute
<1>2. PICK first, last, route, args, name, above :
            /\ w = (first = d /\ last = d)
            /\ IsFound(route) /\ route.page = page /\ AreArguments(args) /\ IsList(name) /\ IsList(above)
            /\ a = Setup(first, last, route, args, name, above)
  <2> HIDE DEF a, w, page
  <2> QED
    BY <1>1 DEF FromRoute
<1>3. first = d /\ last = d /\ route.page \in HtmlLists
  BY <1>2
<1> DEFINE text == PageArgument(args)
           order == OrderArgument(route)
<1>4. order \in Orders(page)
  BY <1>2, <1>3 DEF IsFound
<1>5. a = List(d, d, page, ParsePnum(text), order)
  <2>1. route.page # ""
    BY <1>3 DEF HtmlLists
  <2>2. a = List(first, last, route.page, ParsePnum(text), order)
    BY <1>2, <1>3, <2>1 DEF Setup, HtmlLists, JsonLists
  <2> QED
    BY <1>2, <1>3, <2>2
<1>6. a.status = 200 /\ page \in HtmlLists
  OBVIOUS
<1> HIDE DEF a, page, text, order
<1>7. \E p : /\ p \in Nat \ {0} /\ p <= MaxPage
             /\ a.of = <<Decimal(p), order>>
             /\ a.rows = ToSet(Limit(Rows(d, page, order), p))
             /\ a.next = NextOf(d, page, order, p)
  BY <1>5, <1>6, ListFound
<1> QED
  BY <1>4, <1>7 DEF a, page

LEMMA Walks ==
  ASSUME Following
  PROVE  walk = NoWalk \/ \E page, order, p : IsWalk(walk, db, page, order, p)
BY DEF Following

-----------------------------------------------------------------------------
\* Every step keeps the walk.

\* A page that is generated goes on with the walk, or starts it, or ends it.
LEMMA FollowingGenerate ==
  ASSUME Reading, Reading', Following, Generate
  PROVE  Following'
<1> DEFINE a == shown'.answer
<1>2. /\ db' = db /\ request' = <<>>
      /\ \E answer, whole : shown' = [answer |-> answer, whole |-> whole] /\ walk' = Walked(answer, whole)
  BY DEF Generate
<1>3. PICK answer, whole : shown' = [answer |-> answer, whole |-> whole] /\ walk' = Walked(answer, whole)
  BY <1>2
<1>4. shown'.whole = whole /\ walk' = Walked(a, whole)
  BY <1>3
<1> HIDE DEF a
<1>5. SUFFICES ASSUME whole, a.status = 200, a.page \in HtmlLists PROVE Following'
  <2>1. ASSUME ~whole \/ a.status # 200 \/ a.page \notin HtmlLists PROVE walk' = NoWalk
    BY <1>4, <2>1 DEF Walked
  <2> QED
    BY <2>1 DEF Following
<1>6. Seen(shown', db)
  <2>1. shown' # Blank
    <3>1. SUFFICES ASSUME shown' = Blank PROVE FALSE
      OBVIOUS
    <3>2. Blank.answer = Failed(0)
      BY DEF Blank
    <3>3. a = Failed(0)
      BY <3>1, <3>2 DEF a
    <3>4. \A status : a = Failed(status) => a.status = status
      BY FailedIs
    <3> QED
      BY <1>5, <3>3, <3>4
  <2> QED
    BY <1>2, <2>1 DEF Reading
<1> DEFINE s == shown'
           page == a.page
<1>7. PICK order, p : /\ order \in Orders(page) /\ p \in Nat \ {0} /\ p <= MaxPage
                      /\ a.of = <<Decimal(p), order>>
                      /\ a.rows = ToSet(Limit(Rows(db, page, order), p))
                      /\ a.next = NextOf(db, page, order, p)
  <2>1. Seen(s, db) /\ s.whole /\ s.answer.status = 200 /\ s.answer.page \in HtmlLists
    BY <1>4, <1>5, <1>6 DEF a
  <2> HIDE DEF s
  <2>2. \E order, p : /\ order \in Orders(s.answer.page) /\ p \in Nat \ {0} /\ p <= MaxPage
                       /\ s.answer.of = <<Decimal(p), order>>
                       /\ s.answer.rows = ToSet(Limit(Rows(db, s.answer.page, order), p))
                       /\ s.answer.next = NextOf(db, s.answer.page, order, p)
    BY <2>1, ListSeen
  <2> QED
    BY <2>2 DEF a, s
<1>8. walk' = NoWalk \/ IsWalk(walk', db, page, order, p)
  <2> DEFINE new == walk'
  <2>1. IsDatabase(db)
    BY DatabasesAssumption DEF Reading
  <2>2. walk = NoWalk \/ \E page1, order1, p1 : IsWalk(walk, db, page1, order1, p1)
    BY Walks
  <2>3. LET q == Number(a.of[1])
        IN  new = IF ~TRUE \/ a.status # 200 \/ a.page \notin HtmlLists THEN NoWalk
                   ELSE IF q = 1 \/ [walk EXCEPT !.rows = {}]
                                    = [page |-> a.page, order |-> a.of[2], p |-> q - 1, rows |-> {}]
                   THEN [page |-> a.page, order |-> a.of[2], p |-> q,
                         rows |-> a.rows \cup (IF q = 1 THEN {} ELSE walk.rows)]
                   ELSE NoWalk
    BY <1>4, <1>5 DEF Walked
  <2>4. page \in HtmlLists /\ a.status = 200 /\ a.page = page
    BY <1>5
  <2> HIDE DEF new, page
  <2>5. new = NoWalk \/ IsWalk(new, db, page, order, p)
    BY <1>7, <2>1, <2>2, <2>3, <2>4, WalkedOn
  <2> QED
    BY <2>5 DEF new
<1>9. a.next = NextOf(db, page, order, p)
  BY <1>7
<1> HIDE DEF page, s
<1>10. walk' = NoWalk \/ (IsWalk(walk', db', page, order, p) /\ shown'.answer.next = NextOf(db', page,
           order, p))
  BY <1>2, <1>8, <1>9 DEF a
<1> QED
  BY <1>10 DEF Following

\* So do the other steps: a commit ends the walk.
LEMMA FollowingNext ==
  ASSUME Reading, Reading', Following, [Next]_vars
  PROVE  Following'
<1>1. CASE Commit
  <2>1. walk' = NoWalk
    BY <1>1 DEF Commit
  <2> QED
    BY <2>1 DEF Following
<1>2. ASSUME NEW url \in Typed \cup {l.href : l \in shown.answer.links} \cup shown.answer.next, Request(url)
      PROVE  Following'
  <2> DEFINE r == [url |-> Browse(url), first |-> db, servers |-> <<>>]
  <2>1. request' = <<r>> /\ db' = db /\ walk' = walk
    BY <1>2 DEF Request
  <2> HIDE DEF r
  <2>2. request' # <<>>
    BY <2>1, OneNotEmpty
  <2> QED
    BY <2>1, <2>2, Walks DEF Following
<1>3. CASE Generate
  BY <1>3, FollowingGenerate
<1>5. CASE ReadClients
  <2> DEFINE r == [Head(request) EXCEPT !.servers = <<db.servers>>]
  <2>1. request' = <<r>> /\ db' = db /\ walk' = walk
    BY <1>5 DEF ReadClients
  <2> HIDE DEF r
  <2>2. request' # <<>>
    BY <2>1, OneNotEmpty
  <2> QED
    BY <2>1, <2>2, Walks DEF Following
<1>4. CASE UNCHANGED vars
  <2>1. walk' = walk /\ db' = db /\ request' = request /\ shown' = shown
    BY <1>4 DEF vars
  <2> QED
    BY <2>1 DEF Following
<1> QED
  BY <1>1, <1>2, <1>3, <1>4, <1>5 DEF Next

\* Who started at page 1 of a list and followed the links to the next pages, with no commit in
\* between, has seen the rows of all the pages up to the one she looks at, and the next page
\* of this one is the one that comes next.
THEOREM FollowingHolds == Spec => []Following
<1>1. Init => Following
  BY DEF Init, Following
<1>2. Reading /\ Reading' /\ Following /\ [Next]_vars => Following'
  BY FollowingNext
<1> QED
  BY <1>1, <1>2, ReadingHolds, PTL DEF Spec

-----------------------------------------------------------------------------
\* The end of the walk.

\* The page after the last one is not found, and any other is.
LEMMA NextMissing ==
  ASSUME NEW d, IsDatabase(d), NEW page \in HtmlLists, NEW order \in Orders(page), NEW p \in Nat \ {0},
         NEW a, a = List(d, d, page, ParsePnum(Decimal(p + 1)), order), p <= MaxPage,
         a.status = 404
  PROVE  Len(Rows(d, page, order)) <= p * PageSize
<1> DEFINE pnum == ParsePnum(Decimal(p + 1))
           q == pnum.p
           rows == Rows(d, page, order)
<1>1. a = Failed(500) => FALSE
  <2>1. \A status : a = Failed(status) => a.status = status
    BY FailedIs
  <2> QED
    BY <2>1
<1>2. pnum.valid
  <2>1. ~pnum.valid => a = Failed(500)
    BY DEF List
  <2> QED
    BY <1>1, <2>1
<1>3. q = p + 1
  <2>1. p + 1 \in Nat /\ p + 1 <= 99999
    BY DEF MaxPage
  <2>2. PageNumber(Decimal(p + 1)) = p + 1
    BY <2>1, DecimalDecoded
  <2>3. q = PageNumber(Decimal(p + 1))
    BY <1>2, PnumIs
  <2> QED
    BY <2>2, <2>3
<1>4. a = HtmlList(d, d, page, q, order)
  BY <1>2 DEF List
<1> HIDE DEF pnum
<1>5. Limit(rows, q) = <<>>
  <2> DEFINE part == Limit(rows, q)
  <2>1. part # <<>> => \E of, seen, count, links, next : a = Answer(200, page, of, seen, count, links, next)
    BY <1>4 DEF HtmlList, HtmlRows
  <2> HIDE DEF part
  <2>2. ASSUME NEW of, NEW seen, NEW count, NEW links, NEW next,
                   a = Answer(200, page, of, seen, count, links, next)
        PROVE  a.status = 200
    BY <2>2, AnswerParts
  <2>3. ~(\E of, seen, count, links, next : a = Answer(200, page, of, seen, count, links, next))
    BY <2>2
  <2> QED
    BY <2>1, <2>3 DEF part
<1>6. IsList(rows)
  BY RowsKnown
<1> HIDE DEF rows, q
<1>7. q \in Nat \ {0} /\ q - 1 = p
  BY <1>3
<1>8. Len(rows) <= (q - 1) * PageSize
  BY <1>5, <1>6, <1>7, LimitRows
<1> QED
  BY <1>7, <1>8 DEF rows

\* A page of a list is found if it is the first, or has rows.
LEMMA ListStatus ==
  ASSUME NEW d, NEW page \in HtmlLists, NEW order, NEW text, NEW a,
             a = List(d, d, page, ParsePnum(text), order)
  PROVE  a.status # 301
<1> DEFINE p == ParsePnum(text).p
<1>1. a = Failed(500) \/ a = HtmlList(d, d, page, p, order)
  BY DEF List
<1>2. a = Failed(500) \/ a = Failed(404) \/ \E of, seen, count, links,
          next : a = Answer(200, page, of, seen, count, links, next)
  BY <1>1 DEF HtmlList, HtmlRows
<1>3. ASSUME NEW of, NEW seen, NEW count, NEW links, NEW next,
                 a = Answer(200, page, of, seen, count, links, next)
      PROVE  a.status = 200
  BY <1>3, AnswerParts
<1>4. \A status : a = Failed(status) => a.status = status
  BY FailedIs
<1> QED
  BY <1>2, <1>3, <1>4

LEMMA LastPage ==
  ASSUME NEW n \in Nat, NEW p, p = NumberOfPages(n)
  PROVE  n <= p * PageSize
<1>1. PageSize \in Nat \ {0}
  BY PagesAssumption
<1> DEFINE q == n \div PageSize
<1>2. q \in Nat /\ n = q * PageSize + (n % PageSize) /\ n % PageSize < PageSize /\ n % PageSize \in Nat
  BY <1>1
<1>3. p = q + 1
  BY DEF NumberOfPages
<1>4. (q + 1) * PageSize = q * PageSize + PageSize
  BY <1>1, <1>2
<1>5. q * PageSize \in Nat
  BY <1>1, <1>2
<1> HIDE DEF q
<1> QED
  BY <1>1, <1>2, <1>3, <1>4, <1>5

\* Without a next page, the walk has seen the list.
LEMMA FollowingShows ==
  ASSUME Reading, Following
  PROVE  NextShowsAll
<1>1. SUFFICES ASSUME walk.p > 0, request = <<>>, \A url \in shown.answer.next : Fetch(url).status = 404
               PROVE  walk.rows = ToSet(Rows(db, walk.page, walk.order))
  BY DEF NextShowsAll
<1>2. walk # NoWalk
  <2>1. NoWalk.p = 0
    BY DEF NoWalk
  <2> QED
    BY <1>1, <2>1
<1>3. PICK page, order, p : /\ IsWalk(walk, db, page, order, p)
                            /\ shown.answer.next = NextOf(db, page, order, p)
  BY <1>1, <1>2 DEF Following
<1> DEFINE rows == Rows(db, page, order)
<1>4. /\ page \in HtmlLists /\ order \in Orders(page) /\ p \in Nat \ {0} /\ p <= MaxPage
      /\ walk.page = page /\ walk.order = order /\ walk.rows = FirstRows(rows, p * PageSize)
  <2>1. walk = WalkAt(db, page, order, p)
    BY <1>3 DEF IsWalk
  <2>2. walk.page = page /\ walk.order = order /\ walk.rows = FirstRows(rows, p * PageSize)
    <3> DEFINE seen == FirstRows(rows, p * PageSize)
    <3>1. walk = WalkOf(page, order, p, seen)
      BY <2>1 DEF WalkAt
    <3> HIDE DEF seen
    <3>2. walk.page = page /\ walk.order = order /\ walk.rows = seen
      BY <3>1, WalkParts
    <3> QED
      BY <3>2 DEF seen
  <2> QED
    BY <1>3, <2>2 DEF IsWalk
<1>5. IsDatabase(db)
  BY DatabasesAssumption DEF Reading
<1>6. IsList(rows) /\ Len(rows) \in Nat
  BY <1>4, <1>5, RowsKnown, ListIs
<1>7. Len(rows) <= p * PageSize
  <2>1. CASE p = NumberOfPages(Len(rows))
    BY <1>6, <2>1, LastPage
  <2>2. CASE p # NumberOfPages(Len(rows))
    <3> DEFINE href == ListLink(page, order, p + 1).href
               a == Serve(db, db, Browse(href))
    <3>1. shown.answer.next = {href}
      BY <1>3, <2>2 DEF NextOf
    <3>2. Follow(a).status = 404
      BY <1>1, <3>1 DEF Fetch
    <3>3. a = List(db, db, page, ParsePnum(Decimal(p + 1)), order)
      <4>1. p + 1 \in Nat /\ p + 1 <= 99999
        BY <1>4 DEF MaxPage
      <4> QED
        BY <1>4, <4>1, ListServed
    <3> HIDE DEF a
    <3>4. a.status # 301
      BY <1>4, <3>3, ListStatus
    <3>5. a.status = 404
      BY <3>2, <3>4 DEF Follow
    <3> QED
      BY <1>4, <1>5, <3>3, <3>5, NextMissing
  <2> QED
    BY <2>1, <2>2
<1> HIDE DEF rows
<1>8. p * PageSize \in Nat
  BY <1>4, PagesAssumption
<1>9. FirstRows(rows, p * PageSize) = ToSet(rows)
  BY <1>6, <1>7, <1>8, AllBefore
<1> QED
  BY <1>4, <1>9 DEF rows

\* Who follows the links to the next pages from page 1 to the last one has seen every row of the
\* list (player-list.html.c, clan-list.html.c, server-list.html.c, print_page_nav() of html.c).
THEOREM NextShowsAllHolds == Spec => []NextShowsAll
<1>1. Reading /\ Following => NextShowsAll
  BY FollowingShows
<1> QED
  BY <1>1, ReadingHolds, FollowingHolds, PTL

-----------------------------------------------------------------------------
\* Old links.

\* A leaf in the second directory.
LEMMA SecondFound ==
  ASSUME NEW dirs, IsList(dirs), Len(dirs) = 2, IsList(dirs[1]), IsList(dirs[2]),
         NEW q, Finds(Root, dirs[1], FALSE, q), q.ext = <<>>,
         NEW r, Finds(q.routes, dirs[2], TRUE, r), IsList(q.routes)
  PROVE  FindRoute(dirs) = Entry(r.page, r.routes, Shortened(dirs, 2, r.ext))
<1>0. Len(dirs) = 2
  OBVIOUS
<1>1. PICK at : RoutesBy(dirs, at)
  <2>1. \A i \in 1..Len(dirs) : IsList(dirs[i])
    <3>1. ASSUME NEW i \in 1..2 PROVE IsList(dirs[i])
      <4>1. i = 1 \/ i = 2
        OBVIOUS
      <4> QED
        BY <1>0, <4>1
    <3> QED
      BY <1>0, <3>1
  <2> QED
    BY <1>0, <2>1, RouteSteps
<1> DEFINE start == Entry("", Root, dirs)
           inner == Entry(q.page, q.routes, dirs)
           leaf1 == 1 = Len(dirs)
           leaf2 == 2 = Len(dirs)
<1>2. /\ at[0] = start /\ FindRoute(dirs) = at[2]
      /\ at[1] = Enter(at[0], 1, FindChildRoute(at[0].routes, dirs[1], leaf1))
      /\ at[2] = Enter(at[1], 2, FindChildRoute(at[1].routes, dirs[2], leaf2))
  <2>1. 1 \in 1..Len(dirs) /\ 1 - 1 = 0 /\ 2 \in 1..Len(dirs) /\ 2 - 1 = 1
    BY <1>0
  <2>2. at[1] = Enter(at[1 - 1], 1, FindChildRoute(at[1 - 1].routes, dirs[1], leaf1))
    BY <1>1, <2>1 DEF RoutesBy
  <2>3. at[2] = Enter(at[2 - 1], 2, FindChildRoute(at[2 - 1].routes, dirs[2], leaf2))
    BY <1>1, <2>1 DEF RoutesBy
  <2>4. at[0] = start /\ FindRoute(dirs) = at[Len(dirs)]
    BY <1>1 DEF RoutesBy, Entry
  <2>5. FindRoute(dirs) = at[2]
    BY <1>0, <2>4
  <2> QED
    BY <2>1, <2>2, <2>3, <2>4, <2>5
<1>3. leaf1 = FALSE /\ leaf2 = TRUE
  BY <1>0
<1>4. /\ start.routes = Root /\ start.dirs = dirs
      /\ inner.routes = q.routes /\ inner.dirs = dirs
  BY DEF Entry
<1> HIDE DEF start, inner
<1> DEFINE c1 == FindChildRoute(start.routes, dirs[1], leaf1)
           c2 == FindChildRoute(inner.routes, dirs[2], leaf2)
<1>5. /\ c1 \in 1..Len(start.routes) /\ start.routes[c1] = q
      /\ c2 \in 1..Len(inner.routes) /\ inner.routes[c2] = r
  BY <1>0, <1>3, <1>4 DEF Finds
<1>51. Len(inner.routes) \in Nat
  BY <1>4, ListIs
<1> HIDE DEF c1, c2
<1>6. Enter(start, 1, c1) = inner
  <2>1. 1 \in 1..Len(dirs) /\ IsList(dirs[1])
    BY <1>0
  <2>2. Enter(start, 1, c1) = Entry(q.page, q.routes, dirs)
    BY <1>0, <1>4, <1>5, <2>1, EnterFound
  <2> QED
    BY <2>2 DEF inner
<1>7. Enter(inner, 2, c2) = Entry(r.page, r.routes, Shortened(dirs, 2, r.ext))
  <2> DEFINE two == 2
  <2> HIDE DEF two
  <2>1. inner.dirs = dirs /\ c2 \in 1..Len(inner.routes) /\ inner.routes[c2] = r
    BY <1>4, <1>5
  <2>2. Enter(inner, two, c2) = Entry(r.page, r.routes, Shortened(dirs, two, r.ext))
    BY <1>51, <2>1, EnterCut
  <2> QED
    BY <2>2 DEF two
<1>8. at[1] = inner
  BY <1>2, <1>6 DEF c1
<1> QED
  BY <1>2, <1>7, <1>8 DEF c2

LEMMA FoundTwo ==
  ASSUME NEW f, IsList(f), NEW g, IsList(g),
         NEW q, Finds(Root, f, FALSE, q), q.ext = <<>>,
         NEW r, Finds(q.routes, g, TRUE, r), IsList(q.routes)
  PROVE  FindRoute(<<f, g>>) = Entry(r.page, r.routes, <<f, Cut(g, r.ext)>>)
<1> DEFINE dirs == <<f, g>>
<1>1. IsList(dirs) /\ Len(dirs) = 2 /\ dirs[1] = f /\ dirs[2] = g
  BY Pair
<1>2. Shortened(dirs, 2, r.ext) = <<f, Cut(g, r.ext)>>
  BY DEF Shortened
<1> HIDE DEF dirs
<1>3. FindRoute(dirs) = Entry(r.page, r.routes, Shortened(dirs, 2, r.ext))
  BY <1>1, SecondFound
<1> QED
  BY <1>2, <1>3 DEF dirs

\* A leaf in the third.
LEMMA ThirdFound ==
  ASSUME NEW dirs, IsList(dirs), Len(dirs) = 3, IsList(dirs[1]), IsList(dirs[2]), IsList(dirs[3]),
         NEW q, Finds(Root, dirs[1], FALSE, q), q.ext = <<>>,
         NEW m, Finds(q.routes, dirs[2], FALSE, m), m.ext = <<>>,
         NEW r, Finds(m.routes, dirs[3], TRUE, r), IsList(m.routes)
  PROVE  FindRoute(dirs) = Entry(r.page, r.routes, Shortened(dirs, 3, r.ext))
<1>0. Len(dirs) = 3
  OBVIOUS
<1>1. PICK at : RoutesBy(dirs, at)
  <2>1. \A i \in 1..Len(dirs) : IsList(dirs[i])
    <3>1. ASSUME NEW i \in 1..3 PROVE IsList(dirs[i])
      <4>1. i = 1 \/ i = 2 \/ i = 3
        OBVIOUS
      <4> QED
        BY <1>0, <4>1
    <3> QED
      BY <1>0, <3>1
  <2> QED
    BY <1>0, <2>1, RouteSteps
<1> DEFINE start == Entry("", Root, dirs)
           inner == Entry(q.page, q.routes, dirs)
           third == Entry(m.page, m.routes, dirs)
           leaf1 == 1 = Len(dirs)
           leaf2 == 2 = Len(dirs)
           leaf3 == 3 = Len(dirs)
<1>2. /\ at[0] = start /\ FindRoute(dirs) = at[3]
      /\ at[1] = Enter(at[0], 1, FindChildRoute(at[0].routes, dirs[1], leaf1))
      /\ at[2] = Enter(at[1], 2, FindChildRoute(at[1].routes, dirs[2], leaf2))
      /\ at[3] = Enter(at[2], 3, FindChildRoute(at[2].routes, dirs[3], leaf3))
  <2>1. /\ 1 \in 1..Len(dirs) /\ 1 - 1 = 0 /\ 2 \in 1..Len(dirs) /\ 2 - 1 = 1
        /\ 3 \in 1..Len(dirs) /\ 3 - 1 = 2
    BY <1>0
  <2>2. at[1] = Enter(at[1 - 1], 1, FindChildRoute(at[1 - 1].routes, dirs[1], leaf1))
    BY <1>1, <2>1 DEF RoutesBy
  <2>3. at[2] = Enter(at[2 - 1], 2, FindChildRoute(at[2 - 1].routes, dirs[2], leaf2))
    BY <1>1, <2>1 DEF RoutesBy
  <2>4. at[3] = Enter(at[3 - 1], 3, FindChildRoute(at[3 - 1].routes, dirs[3], leaf3))
    BY <1>1, <2>1 DEF RoutesBy
  <2>5. at[0] = start /\ FindRoute(dirs) = at[Len(dirs)]
    BY <1>1 DEF RoutesBy, Entry
  <2>6. FindRoute(dirs) = at[3]
    BY <1>0, <2>5
  <2> QED
    BY <2>1, <2>2, <2>3, <2>4, <2>5, <2>6
<1>3. leaf1 = FALSE /\ leaf2 = FALSE /\ leaf3 = TRUE
  BY <1>0
<1>4. /\ start.routes = Root /\ start.dirs = dirs
      /\ inner.routes = q.routes /\ inner.dirs = dirs
      /\ third.routes = m.routes /\ third.dirs = dirs
  BY DEF Entry
<1> HIDE DEF start, inner, third
<1> DEFINE c1 == FindChildRoute(start.routes, dirs[1], leaf1)
           c2 == FindChildRoute(inner.routes, dirs[2], leaf2)
           c3 == FindChildRoute(third.routes, dirs[3], leaf3)
<1>5. /\ c1 \in 1..Len(start.routes) /\ start.routes[c1] = q
      /\ c2 \in 1..Len(inner.routes) /\ inner.routes[c2] = m
      /\ c3 \in 1..Len(third.routes) /\ third.routes[c3] = r
  BY <1>0, <1>3, <1>4 DEF Finds
<1>51. Len(third.routes) \in Nat
  BY <1>4, ListIs
<1> HIDE DEF c1, c2, c3
<1>6. Enter(start, 1, c1) = inner
  <2> DEFINE one == 1
  <2>1. one \in 1..Len(dirs) /\ IsList(dirs[one])
    BY <1>0
  <2> HIDE DEF one
  <2>4. start.dirs = dirs /\ c1 \in 1..Len(start.routes) /\ start.routes[c1] = q
    BY <1>4, <1>5
  <2>5. q.ext = <<>> /\ IsList(dirs)
    OBVIOUS
  <2>3. Enter(start, one, c1) = Entry(q.page, q.routes, dirs)
    BY ONLY <2>1, <2>4, <2>5, EnterFound
  <2>2. Enter(start, 1, c1) = Entry(q.page, q.routes, dirs)
    BY <2>3 DEF one
  <2> QED
    BY <2>2 DEF inner
<1>61. Enter(inner, 2, c2) = third
  <2> DEFINE two == 2
  <2>1. two \in 1..Len(dirs) /\ IsList(dirs[two])
    BY <1>0
  <2> HIDE DEF two
  <2>4. inner.dirs = dirs /\ c2 \in 1..Len(inner.routes) /\ inner.routes[c2] = m
    BY <1>4, <1>5
  <2>3. Enter(inner, two, c2) = Entry(m.page, m.routes, dirs)
    BY <2>1, <2>4, EnterFound
  <2>2. Enter(inner, 2, c2) = Entry(m.page, m.routes, dirs)
    BY <2>3 DEF two
  <2> QED
    BY <2>2 DEF third
<1>7. Enter(third, 3, c3) = Entry(r.page, r.routes, Shortened(dirs, 3, r.ext))
  <2> DEFINE three == 3
  <2> HIDE DEF three
  <2>1. third.dirs = dirs /\ c3 \in 1..Len(third.routes) /\ third.routes[c3] = r
    BY <1>4, <1>5
  <2>2. Enter(third, three, c3) = Entry(r.page, r.routes, Shortened(dirs, three, r.ext))
    BY <1>51, <2>1, EnterCut
  <2> QED
    BY <2>2 DEF three
<1>8. at[1] = inner
  BY <1>2, <1>6 DEF c1
<1>81. at[2] = third
  BY <1>2, <1>8, <1>61 DEF c2
<1> QED
  BY <1>2, <1>7, <1>81 DEF c3

LEMMA FoundThree ==
  ASSUME NEW f, IsList(f), NEW g, IsList(g), NEW h, IsList(h),
         NEW q, Finds(Root, f, FALSE, q), q.ext = <<>>,
         NEW m, Finds(q.routes, g, FALSE, m), m.ext = <<>>,
         NEW r, Finds(m.routes, h, TRUE, r), IsList(m.routes)
  PROVE  FindRoute(<<f, g, h>>) = Entry(r.page, r.routes, <<f, g, Cut(h, r.ext)>>)
<1> DEFINE dirs == <<f, g, h>>
<1>1. IsList(dirs) /\ Len(dirs) = 3 /\ dirs[1] = f /\ dirs[2] = g /\ dirs[3] = h
  BY Triple
<1>2. Shortened(dirs, 3, r.ext) = <<f, g, Cut(h, r.ext)>>
  BY DEF Shortened
<1> HIDE DEF dirs
<1>3. FindRoute(dirs) = Entry(r.page, r.routes, Shortened(dirs, 3, r.ext))
  BY <1>1, ThirdFound
<1> QED
  BY <1>2, <1>3 DEF dirs

LEMMA RouteTwo ==
  ASSUME NEW w, NEW routes, Enters(w, routes), NEW g, IsList(g), NEW name, NEW ext, NEW page,
         Gives(routes, g, AtEnd, Route(name, ext, page, <<>>))
  PROVE  FindRoute(<< <<w>>, g>>) = Entry(page, <<>>, << <<w>>, Cut(g, ext)>>)
<1> DEFINE f == <<w>>
           e == <<>>
           q == Route(f, e, "", routes)
           r == Route(name, ext, page, e)
<1>1. q.ext = e /\ q.routes = routes
  BY DEF Route
<1>2. r.ext = ext /\ r.page = page /\ r.routes = e
  BY DEF Route
<1>3. Gives(Root, f, Inside, q)
  BY RootInside
<1>4. IsList(f)
  BY Single
<1>5. Gives(routes, g, AtEnd, r)
  OBVIOUS
<1> HIDE DEF f, q, r
<1>6. Finds(Root, f, FALSE, q) /\ IsList(q.routes) /\ Finds(q.routes, g, TRUE, r) /\ q.ext = <<>>
  BY <1>1, <1>3, <1>5 DEF Gives, Inside, AtEnd
<1>7. FindRoute(<<f, g>>) = Entry(r.page, r.routes, <<f, Cut(g, r.ext)>>)
  BY <1>4, <1>6, FoundTwo
<1> QED
  BY <1>2, <1>7 DEF f

LEMMA RouteThree ==
  ASSUME NEW w, NEW routes, NEW f, NEW g, NEW more, NEW h, NEW name, NEW ext, NEW page,
         Leads(w, routes, f, g, more, h, name, ext, page)
  PROVE  FindRoute(<<f, g, h>>) = Entry(page, <<>>, <<f, g, Cut(h, ext)>>)
<1> DEFINE e == <<>>
           q == Route(f, e, "", routes)
           m == Route(Star, e, "", more)
           r == Route(name, ext, page, e)
<1>0. /\ Enters(w, routes) /\ f = <<w>> /\ IsList(g) /\ IsList(h)
      /\ Gives(routes, g, Inside, m) /\ Gives(more, h, AtEnd, r)
  BY DEF Leads
<1>1. q.ext = e /\ q.routes = routes
  BY DEF Route
<1>2. r.ext = ext /\ r.page = page /\ r.routes = e
  BY DEF Route
<1>21. m.ext = e /\ m.routes = more
  BY DEF Route
<1>3. Gives(Root, f, Inside, q)
  BY <1>0, RootInside
<1>4. IsList(f)
  BY <1>0, Single
<1> HIDE DEF q, m, r
<1>6. Finds(Root, f, FALSE, q) /\ Finds(q.routes, g, FALSE, m) /\ q.ext = <<>>
  BY <1>0, <1>1, <1>3 DEF Gives, Inside, AtEnd
<1>61. IsList(m.routes) /\ Finds(m.routes, h, TRUE, r) /\ m.ext = <<>>
  BY <1>0, <1>21 DEF Gives, Inside, AtEnd
<1>7. FindRoute(<<f, g, h>>) = Entry(r.page, r.routes, <<f, g, Cut(h, r.ext)>>)
  <2>1. IsList(f) /\ IsList(g) /\ IsList(h)
    BY <1>0, <1>4
  <2> QED
    BY ONLY <2>1, <1>6, <1>61, FoundThree
<1> QED
  BY <1>2, <1>7

LEMMA AskedTwo ==
  ASSUME NEW first, NEW last, NEW path, NEW args, Few(args), NEW dirs, Dirs(path) = dirs, Len(dirs) = 2, NEW page,
             NEW f, NEW h,
         FindRoute(dirs) = Entry(page, <<>>, <<f, h>>)
  PROVE  Serve(first, last, Url(path, args)) = Setup(first, last, Entry(page, <<>>, <<f, h>>), args, h, f)
<1> DEFINE url == Url(path, args)
           after == <<f, h>>
           route == Entry(page, <<>>, after)
           name == Last(after)
           above == after[Max({1, Len(after) - 1})]
<1>1. url.path = path /\ url.args = args
  BY DEF Url
<1>2. route.dirs = after
  BY DEF Entry
<1>3. Len(after) = 2 /\ after[1] = f /\ after[2] = h
  BY Pair
<1>4. name = h
  <2> HIDE DEF after
  <2> QED
    BY <1>3 DEF Last
<1>5. above = f
  <2>1. Max({1, Len(after) - 1}) = 1
    <3>1. Len(after) - 1 = 1
      BY <1>3
    <3>2. {1, Len(after) - 1} \in SUBSET (1..1) /\ {1, Len(after) - 1} # {}
      BY <3>1
    <3> DEFINE T == {1, Len(after) - 1}
    <3> HIDE DEF T
    <3>3. Max(T) \in T
      <4> DEFINE n == 1
      <4>1. n \in Nat /\ T \in SUBSET (1..n) /\ T # {}
        BY <3>2 DEF T
      <4> HIDE DEF n
      <4> QED
        BY <4>1, GreatestIndex
    <3> QED
      BY <3>1, <3>3 DEF T
  <2> QED
    BY <1>3, <2>1
<1> HIDE DEF url, route
<1>6. Serve(first, last, url) = RunRoute(first, last, route, args)
  <2>1. ~(Len(dirs) > MaxDirs)
    BY DEF MaxDirs
  <2>2. FindRoute(dirs) = route
    BY DEF route
  <2>3. Serve(first, last, url) = DoRoute(first, last, dirs, args)
    BY <1>1 DEF Serve
  <2> QED
    BY <2>1, <2>2, <2>3 DEF DoRoute, Few
<1>7. RunRoute(first, last, route, args) = Setup(first, last, route, args, name, above)
  BY <1>2 DEF RunRoute
<1> QED
  BY <1>4, <1>5, <1>6, <1>7 DEF url, route

LEMMA AskedThree ==
  ASSUME NEW first, NEW last, NEW path, NEW args, Few(args), NEW dirs, Dirs(path) = dirs, Len(dirs) = 3, NEW page,
         NEW f, NEW g, NEW h, NEW after, after = <<f, g, h>>,
         NEW route, route = Entry(page, <<>>, after), FindRoute(dirs) = route
  PROVE  Serve(first, last, Url(path, args)) = Setup(first, last, route, args, h, g)
<1> DEFINE url == Url(path, args)
           name == Last(after)
           above == after[Max({1, Len(after) - 1})]
<1>1. url.path = path /\ url.args = args
  BY DEF Url
<1>2. route.dirs = after
  BY DEF Entry
<1>3. Len(after) = 3 /\ after[2] = g /\ after[3] = h
  BY Triple
<1>4. name = h
  BY <1>3 DEF Last
<1>5. above = g
  <2>1. Max({1, Len(after) - 1}) = 2
    <3>1. Len(after) - 1 = 2
      BY <1>3
    <3> DEFINE T == {1, Len(after) - 1}
    <3>2. T = {1, 2}
      BY <3>1
    <3> HIDE DEF T
    <3>3. Max(T) \in T /\ \A k \in T : k <= Max(T)
      <4> DEFINE n == 2
      <4>1. n \in Nat /\ T \in SUBSET (1..n) /\ T # {}
        BY <3>2
      <4> HIDE DEF n
      <4> QED
        BY <4>1, GreatestIndex
    <3>4. Max(T) = 2
      BY <3>2, <3>3
    <3> QED
      BY <3>4 DEF T
  <2> QED
    BY <1>3, <2>1
<1> HIDE DEF url
<1>6. Serve(first, last, url) = RunRoute(first, last, route, args)
  <2>1. ~(Len(dirs) > MaxDirs)
    BY DEF MaxDirs
  <2>2. FindRoute(dirs) = route
    OBVIOUS
  <2>3. Serve(first, last, url) = DoRoute(first, last, dirs, args)
    BY <1>1 DEF Serve
  <2> QED
    BY <2>1, <2>2, <2>3 DEF DoRoute, Few
<1>7. RunRoute(first, last, route, args) = Setup(first, last, route, args, name, above)
  BY <1>2 DEF RunRoute
<1> QED
  BY <1>4, <1>5, <1>6, <1>7 DEF url

\* What answers an URL of two or three directories.
LEMMA ServedTwo ==
  ASSUME NEW first, NEW last, NEW w, NEW routes, Enters(w, routes), NEW t, IsList(t), Without(t, "/"),
             t # <<>>,
         NEW g, IsList(g), UrlDecode(t) = g, NEW name, NEW ext, NEW page,
         Gives(routes, g, AtEnd, Route(name, ext, page, <<>>)), NEW h, h = Cut(g, ext)
  PROVE  Serve(first, last, Url(<<"/", w, "/">> \o t, <<>>))
           = Setup(first, last, Entry(page, <<>>, << <<w>>, h>>), <<>>, h, <<w>>)
<1> DEFINE f == <<w>>
           path == <<"/", w, "/">> \o t
           dirs == <<f, g>>
<1>1. Word(w)
  BY EntersWord
<1>2. Dirs(path) = dirs
  BY <1>1, TwoNames
<1>3. FindRoute(dirs) = Entry(page, <<>>, <<f, h>>)
  BY RouteTwo
<1>4. Len(dirs) = 2
  BY Pair
<1> DEFINE args == <<>>
<1>6. Few(args)
  BY FewArguments
<1> HIDE DEF path, dirs, f, args
<1>5. Serve(first, last, Url(path, args)) = Setup(first, last, Entry(page, <<>>, <<f, h>>), args, h, f)
  BY <1>2, <1>3, <1>4, <1>6, AskedTwo
<1> QED
  BY <1>5 DEF path, f, args

LEMMA ServedThree ==
  ASSUME NEW w, NEW routes, NEW t, NEW g, NEW more, NEW u, NEW v, NEW name, NEW ext, NEW page,
         Asks(w, routes, t, g, more, u, v, name, ext, page), NEW first, NEW last, NEW h,
             h = Cut(v, ext)
  PROVE  Serve(first, last, Url((<<"/", w, "/">> \o t) \o (<<"/">> \o u), <<>>))
           = Setup(first, last, Entry(page, <<>>, << <<w>>, g, h>>), <<>>, h, g)
<1> DEFINE f == <<w>>
           path == (<<"/", w, "/">> \o t) \o (<<"/">> \o u)
           dirs == <<f, g, v>>
<1>01. /\ Enters(w, routes)
       /\ IsList(t) /\ Without(t, "/") /\ t # <<>> /\ IsList(g) /\ UrlDecode(t) = g
       /\ Gives(routes, g, Inside, Route(Star, <<>>, "", more))
       /\ IsList(u) /\ Without(u, "/") /\ u # <<>> /\ IsList(v) /\ UrlDecode(u) = v
       /\ Gives(more, v, AtEnd, Route(name, ext, page, <<>>))
  BY DEF Asks
<1>1. Word(w)
  BY <1>01, EntersWord
<1>0. /\ Word(w) /\ IsList(t) /\ Without(t, "/") /\ UrlDecode(t) = g
      /\ IsList(u) /\ Without(u, "/") /\ u # <<>> /\ UrlDecode(u) = v
  BY <1>01, <1>1
<1>2. Dirs(path) = dirs
  <2>1. Dirs(path) = IF t = <<>> THEN << <<w>>, v>> ELSE << <<w>>, g, v>>
    BY ONLY <1>0, ThreeNames
  <2> QED
    BY <1>01, <2>1
<1> DEFINE after == <<f, g, h>>
           route == Entry(page, <<>>, after)
<1>3. FindRoute(dirs) = route
  <2>1. Leads(w, routes, f, g, more, v, name, ext, page)
    BY <1>01 DEF Leads
  <2> HIDE DEF f
  <2>2. FindRoute(<<f, g, v>>) = Entry(page, <<>>, <<f, g, Cut(v, ext)>>)
    BY ONLY <2>1, RouteThree
  <2> QED
    BY <2>2
<1>4. Len(dirs) = 3
  BY Triple
<1>5. after = <<f, g, h>> /\ route = Entry(page, <<>>, after)
  OBVIOUS
<1> DEFINE args == <<>>
<1>7. Few(args)
  BY FewArguments
<1> HIDE DEF path, dirs, f, after, route, args
<1>6. Serve(first, last, Url(path, args)) = Setup(first, last, route, args, h, g)
  BY ONLY <1>2, <1>3, <1>4, <1>5, <1>7, AskedThree
<1> QED
  BY <1>6 DEF path, f, route, after, args

\* A page that is not a list is answered from its name.
LEMMA SetupNamed ==
  ASSUME NEW first, NEW last, NEW dirs, NEW args, NEW name, NEW above
  PROVE  /\ Setup(first, last, Entry("player", <<>>, dirs), args, name, above) = Player(first, "player", name)
         /\ Setup(first, last, Entry("graph", <<>>, dirs), args, name, above) = PlayerGraph(above)
         /\ Setup(first, last, Entry("clan", <<>>, dirs), args, name, above) = Clan(first, "clan", name)
         /\ Setup(first, last, Entry("server", <<>>, dirs), args, name, above)
              = Server(first, last, "server", ParseAddr(name))
         /\ \A page \in {"old_player_list", "old_player", "old_graph", "old_clan", "old_server"} :
              Setup(first, last, Entry(page, <<>>, dirs), args, name, above) = OldUrl(page, name, above)
<1>1. \A page : Entry(page, <<>>, dirs).page = page
  BY DEF Entry
<1>2. "player" \notin HtmlLists \cup JsonLists /\ "graph" \notin HtmlLists \cup JsonLists
      /\ "clan" \notin HtmlLists \cup JsonLists /\ "server" \notin HtmlLists \cup JsonLists
  BY DEF HtmlLists, JsonLists
<1>3. Setup(first, last, Entry("player", <<>>, dirs), args, name, above)
       = Player(first, "player", name)
  <2> DEFINE r == Entry("player", <<>>, dirs)
  <2>1. r.page = "player"
    BY <1>1
  <2> HIDE DEF r
  <2>2. Setup(first, last, r, args, name, above) = Player(first, "player", name)
    BY <1>2, <2>1 DEF Setup
  <2> QED
    BY <2>2 DEF r
<1>4. Setup(first, last, Entry("graph", <<>>, dirs), args, name, above)
       = PlayerGraph(above)
  <2> DEFINE r == Entry("graph", <<>>, dirs)
  <2>1. r.page = "graph"
    BY <1>1
  <2> HIDE DEF r
  <2>2. Setup(first, last, r, args, name, above) = PlayerGraph(above)
    BY <1>2, <2>1 DEF Setup
  <2> QED
    BY <2>2 DEF r
<1>5. Setup(first, last, Entry("clan", <<>>, dirs), args, name, above)
       = Clan(first, "clan", name)
  <2> DEFINE r == Entry("clan", <<>>, dirs)
  <2>1. r.page = "clan"
    BY <1>1
  <2> HIDE DEF r
  <2>2. Setup(first, last, r, args, name, above) = Clan(first, "clan", name)
    BY <1>2, <2>1 DEF Setup
  <2> QED
    BY <2>2 DEF r
<1>6. Setup(first, last, Entry("server", <<>>, dirs), args, name, above)
       = Server(first, last, "server", ParseAddr(name))
  <2> DEFINE r == Entry("server", <<>>, dirs)
  <2>1. r.page = "server"
    BY <1>1
  <2> HIDE DEF r
  <2>2. Setup(first, last, r, args, name, above) = Server(first, last, "server", ParseAddr(name))
    BY <1>2, <2>1 DEF Setup
  <2> QED
    BY <2>2 DEF r
<1>7. ASSUME NEW page \in {"old_player_list", "old_player", "old_graph", "old_clan", "old_server"}
      PROVE  Setup(first, last, Entry(page, <<>>, dirs), args, name, above) = OldUrl(page, name, above)
  <2>1. page \notin HtmlLists \cup JsonLists
    BY DEF HtmlLists, JsonLists
  <2>2. page \notin {"", "player", "graph", "json_player", "clan", "json_clan", "server", "json_server",
            "search"}
    OBVIOUS
  <2> QED
    BY <1>1, <2>1, <2>2 DEF Setup
<1> QED
  BY <1>3, <1>4, <1>5, <1>6, <1>7

\* A name that a browser sends as it is.
LEMMA NameSent ==
  ASSUME NEW n \in Naming, n # <<>>, ~IsDots(n), NEW t, t = UrlEncode(n)
  PROVE  /\ IsList(t) /\ UrlDecode(t) = n /\ Without(t, "/") /\ t # <<>> /\ ~IsDots(t) /\ IsList(n)
         /\ FlattenSeq(Sends(t)) = t
<1>1. IsList(t) /\ UrlDecode(t) = n /\ Without(t, "/") /\ Without(t, Space) /\ t # <<>> /\ IsList(n)
  BY NameDecoded, NameIs
<1>2. ASSUME IsDots(t) PROVE FALSE
  <2>1. IsList(t) /\ \A i \in 1..Len(t) : t[i] = "."
    <3>1. CASE t = <<".">>
      BY <1>1, <3>1
    <3>2. CASE t = Up
      <4>1. Len(Up) = 2 /\ Up[1] = "." /\ Up[2] = "."
        BY DEF Up
      <4> HIDE DEF Up
      <4> QED
        BY <1>1, <3>2, <4>1
    <3> QED
      BY <1>2, <3>1, <3>2 DEF IsDots
  <2>2. UrlDecode(t) = t
    BY <2>1, PlainDecoded
  <2> QED
    BY <1>1, <1>2, <2>2
<1>3. FlattenSeq(Sends(t)) = t
  BY <1>1, SentPlain
<1> QED
  BY <1>1, <1>2, <1>3

\* A name in a path is read back.
LEMMA PlayerServed ==
  ASSUME NEW d, NEW n \in Naming, n # <<>>, ~IsDots(n), ~HasExtension(n, HtmlExt)
  PROVE  Serve(d, d, Browse(Url(PlayerPath(n), <<>>))) = Player(d, "player", n)
<1> DEFINE t == UrlEncode(n)
           e == <<>>
           f == <<"player">>
<1>1. /\ IsList(t) /\ UrlDecode(t) = n /\ Without(t, "/") /\ t # <<>> /\ ~IsDots(t) /\ IsList(n)
      /\ FlattenSeq(Sends(t)) = t
  BY NameSent
<1>2. Enters("player", PlayerRoutes)
  BY DEF Enters
<1>3. Gives(PlayerRoutes, n, AtEnd, Route(Star, e, "player", <<>>))
  BY <1>1, PlayerLeaf DEF ExtOf
<1>4. n = Cut(n, e)
  BY <1>1, WholeCut
<1> HIDE DEF e, t
<1>5. Serve(d, d, Url(<<"/", "player", "/">> \o t, <<>>))
       = Setup(d, d, Entry("player", <<>>, <<f, n>>), <<>>, n, f)
  BY <1>1, <1>2, <1>3, <1>4, ServedTwo
<1>6. Browse(Url(<<"/", "player", "/">> \o t, <<>>)) = Url(<<"/", "player", "/">> \o t, <<>>)
  BY <1>1, <1>2, EntersWord, TwoSent
<1> HIDE DEF f
<1> QED
  BY <1>5, <1>6, SetupNamed DEF t, PlayerPath

LEMMA ClanServed ==
  ASSUME NEW d, NEW n \in Naming, n # <<>>, ~IsDots(n), ~HasExtension(n, HtmlExt)
  PROVE  Serve(d, d, Browse(Url(ClanPath(n), <<>>))) = Clan(d, "clan", n)
<1> DEFINE t == UrlEncode(n)
           e == <<>>
           f == <<"clan">>
           routes == Html(Star, "clan")
<1>1. /\ IsList(t) /\ UrlDecode(t) = n /\ Without(t, "/") /\ t # <<>> /\ ~IsDots(t) /\ IsList(n)
      /\ FlattenSeq(Sends(t)) = t
  BY NameSent
<1>2. Enters("clan", routes)
  BY DEF Enters
<1>3. Gives(routes, n, AtEnd, Route(Star, e, "clan", <<>>))
  BY <1>1, StarHtml
<1>4. n = Cut(n, e)
  BY <1>1, WholeCut
<1> HIDE DEF e, t, routes
<1>5. Serve(d, d, Url(<<"/", "clan", "/">> \o t, <<>>))
       = Setup(d, d, Entry("clan", <<>>, <<f, n>>), <<>>, n, f)
  BY <1>1, <1>2, <1>3, <1>4, ServedTwo
<1>6. Browse(Url(<<"/", "clan", "/">> \o t, <<>>)) = Url(<<"/", "clan", "/">> \o t, <<>>)
  BY <1>1, <1>2, EntersWord, TwoSent
<1> HIDE DEF f
<1> QED
  BY <1>5, <1>6, SetupNamed DEF t, ClanPath

LEMMA GraphServed ==
  ASSUME NEW d, NEW n \in Naming, n # <<>>, ~IsDots(n)
  PROVE  Serve(d, d, Browse(Url(PlayerPath(n) \o <<"/", "historic", ".", "svg">>, <<>>))) = PlayerGraph(n)
<1> DEFINE t == UrlEncode(n)
           u == <<"historic", ".", "svg">>
           name == <<"historic">>
           more == Svg(name, "graph")
           f == <<"player">>
<1>1. /\ IsList(t) /\ UrlDecode(t) = n /\ Without(t, "/") /\ t # <<>> /\ ~IsDots(t) /\ IsList(n)
      /\ FlattenSeq(Sends(t)) = t
  BY NameSent
<1>2. Enters("player", PlayerRoutes)
  BY DEF Enters
<1>3. Gives(PlayerRoutes, n, Inside, Route(Star, <<>>, "", more))
  BY <1>1, PlayerInside
<1>4. IsList(u) /\ Len(u) = 3 /\ u[1] = "historic" /\ u[2] = "." /\ u[3] = "svg"
  BY Triple
<1>5. UrlDecode(u) = u /\ Without(u, "/") /\ u # <<>> /\ Without(u, Space) /\ ~IsDots(u)
  <2> HIDE DEF u
  <2>1. \A i \in 1..Len(u) : u[i] \notin {"%", "+", "NUL", "/"}
    BY <1>4
  <2>2. UrlDecode(u) = u
    BY <1>4, <2>1, PlainDecoded
  <2>3. u # <<>>
    BY <1>4, EmptyList
  <2>4. ~IsBlank("historic") /\ ~IsBlank(".") /\ ~IsBlank("svg")
    BY Zenon DEF IsBlank
  <2>5. \A i \in 1..Len(u) : u[i] # Space
    BY <1>4, <2>4, BlankIs
  <2>6. ~IsDots(u)
    BY <1>4, <2>3, DotsAre
  <2> QED
    BY <2>1, <2>2, <2>3, <2>5, <2>6 DEF Without
<1>6. u = name \o SvgExt /\ IsList(name)
  BY Single DEF SvgExt
<1>7. Gives(more, u, AtEnd, Route(name, SvgExt, "graph", <<>>)) /\ name = Cut(u, SvgExt)
  BY <1>6, SvgExtended
<1>8. <<"/", "historic", ".", "svg">> = <<"/">> \o u
  BY OneJoinedFour
<1>81. Asks("player", PlayerRoutes, t, n, more, u, u, name, SvgExt, "graph")
  BY <1>1, <1>2, <1>3, <1>4, <1>5, <1>7 DEF Asks
<1>82. name = Cut(u, SvgExt)
  BY <1>7
<1>83. Browse(Url((<<"/", "player", "/">> \o t) \o (<<"/">> \o u), <<>>))
        = Url((<<"/", "player", "/">> \o t) \o (<<"/">> \o u), <<>>)
  <2>1. Word("player")
    BY <1>2, EntersWord
  <2> HIDE DEF t, u
  <2> QED
    BY <1>1, <1>4, <1>5, <2>1, ThreeSent
<1> HIDE DEF t, u, name, more
<1>9. Serve(d, d, Url((<<"/", "player", "/">> \o t) \o (<<"/">> \o u), <<>>))
       = Setup(d, d, Entry("graph", <<>>, <<f, n, name>>), <<>>, name, n)
  BY ONLY <1>81, <1>82, ServedThree
<1> HIDE DEF f
<1>10. Serve(d, d, Url((<<"/", "player", "/">> \o t) \o (<<"/">> \o u), <<>>)) = PlayerGraph(n)
  BY <1>9, SetupNamed
<1>11. (<<"/", "player", "/">> \o t) \o (<<"/">> \o u) = PlayerPath(n) \o <<"/", "historic", ".", "svg">>
  BY <1>8 DEF t, PlayerPath
<1> QED
  BY <1>10, <1>11, <1>83

\* Old URLs redirect.
LEMMA OldPlayerServed ==
  ASSUME NEW d, NEW n \in Naming
  PROVE  Serve(d, d, Browse(Url(<<"/", "players", "/">> \o JsonHexstring(n),
             <<>>))) = Redirected(PlayerPath(n), <<>>)
<1> DEFINE hex == JsonHexstring(n)
           t == FlattenSeq(Sends(hex))
           e == <<>>
           f == <<"players">>
<1>1. /\ IsList(hex) /\ Len(hex) # 1 /\ ~HasExtension(hex, HtmlExt) /\ ~HasExtension(hex, JsonExt)
      /\ IsList(t) /\ UrlDecode(t) = hex /\ Without(t, "/") /\ t # <<>>
      /\ Without(hex, "/") /\ ~IsDots(hex) /\ hex # <<>>
  BY HexSent
<1>2. Enters("players", PlayersRoutes)
  BY DEF Enters
<1>3. Gives(PlayersRoutes, hex, AtEnd, Route(Star, e, "old_player", <<>>))
  BY <1>1, OldPlayerLeaf
<1>4. hex = Cut(hex, e)
  BY <1>1, WholeCut
<1>41. Word("players")
  BY <1>2, EntersWord
<1>42. ConvertHexname(hex) = n
  BY NameConverted
<1> HIDE DEF hex
<1>5. Browse(Url(<<"/", "players", "/">> \o hex, <<>>)) = Url(<<"/", "players", "/">> \o t, <<>>)
  BY <1>1, <1>41, TwoSent
<1> HIDE DEF e, t
<1>6. Serve(d, d, Url(<<"/", "players", "/">> \o t, <<>>))
       = Setup(d, d, Entry("old_player", <<>>, <<f, hex>>), <<>>, hex, f)
  BY <1>1, <1>2, <1>3, <1>4, ServedTwo
<1> HIDE DEF f
<1>7. Serve(d, d, Url(<<"/", "players", "/">> \o t, <<>>)) = OldUrl("old_player", hex, f)
  BY <1>6, SetupNamed
<1>8. OldUrl("old_player", hex, f) = Redirected(PlayerPath(n), <<>>)
  BY <1>42 DEF OldUrl, PlayerPath
<1> QED
  BY <1>5, <1>7, <1>8 DEF hex

LEMMA OldClanServed ==
  ASSUME NEW d, NEW n \in Naming
  PROVE  Serve(d, d, Browse(Url(<<"/", "clans", "/">> \o JsonHexstring(n),
             <<>>))) = Redirected(ClanPath(n), <<>>)
<1> DEFINE hex == JsonHexstring(n)
           t == FlattenSeq(Sends(hex))
           e == <<>>
           f == <<"clans">>
<1>1. /\ IsList(hex) /\ Len(hex) # 1 /\ ~HasExtension(hex, HtmlExt) /\ ~HasExtension(hex, JsonExt)
      /\ IsList(t) /\ UrlDecode(t) = hex /\ Without(t, "/") /\ t # <<>>
      /\ Without(hex, "/") /\ ~IsDots(hex) /\ hex # <<>>
  BY HexSent
<1>2. Enters("clans", ClansRoutes)
  BY DEF Enters
<1>3. Gives(ClansRoutes, hex, AtEnd, Route(Star, e, "old_clan", <<>>))
  BY <1>1, OldClanLeaf
<1>4. hex = Cut(hex, e)
  BY <1>1, WholeCut
<1>41. Word("clans")
  BY <1>2, EntersWord
<1>42. ConvertHexname(hex) = n
  BY NameConverted
<1> HIDE DEF hex
<1>5. Browse(Url(<<"/", "clans", "/">> \o hex, <<>>)) = Url(<<"/", "clans", "/">> \o t, <<>>)
  BY <1>1, <1>41, TwoSent
<1> HIDE DEF e, t
<1>6. Serve(d, d, Url(<<"/", "clans", "/">> \o t, <<>>))
       = Setup(d, d, Entry("old_clan", <<>>, <<f, hex>>), <<>>, hex, f)
  BY <1>1, <1>2, <1>3, <1>4, ServedTwo
<1> HIDE DEF f
<1>7. Serve(d, d, Url(<<"/", "clans", "/">> \o t, <<>>)) = OldUrl("old_clan", hex, f)
  BY <1>6, SetupNamed
<1>8. OldUrl("old_clan", hex, f) = Redirected(ClanPath(n), <<>>)
  BY <1>42 DEF OldUrl, ClanPath
<1> QED
  BY <1>5, <1>7, <1>8 DEF hex

LEMMA OldGraphServed ==
  ASSUME NEW d, NEW n \in Naming
  PROVE  Serve(d, d, Browse(Url(<<"/", "players", "/">> \o JsonHexstring(n)
                                  \o <<"/", "elo", "+", "rank", ".", "svg">>, <<>>)))
           = Redirected(PlayerPath(n) \o <<"/", "historic", ".", "svg">>, <<>>)
<1> DEFINE hex == JsonHexstring(n)
           t == FlattenSeq(Sends(hex))
           u == GraphText
           v == GraphName \o SvgExt
           f == <<"players">>
           more == Svg(GraphName, "old_graph")
<1>1. /\ IsList(hex) /\ Len(hex) # 1 /\ ~HasExtension(hex, HtmlExt) /\ ~HasExtension(hex, JsonExt)
      /\ IsList(t) /\ UrlDecode(t) = hex /\ Without(t, "/") /\ t # <<>>
      /\ Without(hex, "/") /\ ~IsDots(hex) /\ hex # <<>>
  BY HexSent
<1>2. Enters("players", PlayersRoutes)
  BY DEF Enters
<1>3. Gives(PlayersRoutes, hex, Inside, Route(Star, <<>>, "", more))
  BY <1>1, OldPlayerInside, Zenon DEF GraphName
<1>4. /\ IsList(u) /\ Without(u, "/") /\ Without(u, Space) /\ u # <<>>
      /\ IsList(GraphName) /\ IsList(v) /\ UrlDecode(u) = v
  BY GraphTextRead
<1>43. ~IsDots(u)
  <2>1. u[1] = "elo"
    BY DEF GraphText
  <2> HIDE DEF u
  <2> QED
    BY <1>4, <2>1, DotsAre
<1>41. Word("players")
  BY <1>2, EntersWord
<1>42. ConvertHexname(hex) = n
  BY NameConverted
<1>5. Gives(more, v, AtEnd, Route(GraphName, SvgExt, "old_graph", <<>>)) /\ GraphName = Cut(v, SvgExt)
  BY <1>4, SvgExtended
<1>6. <<"/", "elo", "+", "rank", ".", "svg">> = <<"/">> \o u
  BY DEF GraphText
<1> HIDE DEF hex, u, v, more
<1>7. Browse(Url((<<"/", "players", "/">> \o hex) \o (<<"/">> \o u), <<>>))
        = Url((<<"/", "players", "/">> \o t) \o (<<"/">> \o u), <<>>)
  BY <1>1, <1>4, <1>41, <1>43, ThreeSent
<1> HIDE DEF t
<1>8. Asks("players", PlayersRoutes, t, hex, more, u, v, GraphName, SvgExt, "old_graph")
  BY <1>1, <1>2, <1>3, <1>4, <1>5 DEF Asks
<1>9. Serve(d, d, Url((<<"/", "players", "/">> \o t) \o (<<"/">> \o u), <<>>))
        = Setup(d, d, Entry("old_graph", <<>>, <<f, hex, GraphName>>), <<>>, GraphName, hex)
  BY <1>5, <1>8, ServedThree
<1> HIDE DEF f
<1>10. Serve(d, d, Url((<<"/", "players", "/">> \o t) \o (<<"/">> \o u), <<>>)) = OldUrl("old_graph",
           GraphName, hex)
  BY <1>9, SetupNamed
<1>11. OldUrl("old_graph", GraphName, hex) = Redirected(PlayerPath(n) \o <<"/", "historic", ".", "svg">>,
           <<>>)
  BY <1>42 DEF OldUrl, PlayerPath
<1> QED
  BY <1>6, <1>7, <1>10, <1>11 DEF hex

LEMMA OldPagesServed ==
  ASSUME NEW d
  PROVE  Serve(d, d, Browse(Url(<<"/", "pages", "/", "1", ".", "html">>, <<>>))) = Redirected(<<"/",
             "players">>, P(1))
<1> DEFINE t == <<"1", ".", "html">>
           h == <<"1">>
           f == <<"pages">>
           routes == Html(Star, "old_player_list")
<1>1. <<"/", "pages", "/", "1", ".", "html">> = <<"/", "pages", "/">> \o t
  OBVIOUS
<1>2. IsList(t) /\ Len(t) = 3 /\ t[1] = "1" /\ t[2] = "." /\ t[3] = "html"
  BY Triple
<1>3. t = h \o HtmlExt /\ IsList(h)
  BY Single DEF HtmlExt
<1>4. Enters("pages", routes)
  BY DEF Enters
<1>41. Word("pages")
  BY <1>4, EntersWord
<1>5. HasExtension(t, HtmlExt) /\ h = Cut(t, HtmlExt)
  <2>1. HasExtension(h \o HtmlExt, HtmlExt)
    BY <1>3, ExtensionPut DEF HtmlExt
  <2>2. Cut(h \o HtmlExt, HtmlExt) = h
    BY <1>3, ExtensionCut, Extensions
  <2> QED
    BY <1>3, <2>1, <2>2
<1> HIDE DEF t, h
<1>6. Gives(routes, t, AtEnd, Route(Star, HtmlExt, "old_player_list", <<>>))
  BY <1>2, <1>5, StarHtml
<1>7. UrlDecode(t) = t /\ Without(t, "/") /\ t # <<>> /\ Without(t, Space) /\ ~IsDots(t)
  <2>1. \A i \in 1..Len(t) : t[i] \notin {"%", "+", "NUL", "/"}
    BY <1>2
  <2>2. UrlDecode(t) = t
    BY <1>2, <2>1, PlainDecoded
  <2>3. t # <<>>
    BY <1>2, EmptyList
  <2>4. ~IsBlank("1") /\ ~IsBlank(".") /\ ~IsBlank("html")
    BY Zenon DEF IsBlank
  <2>5. \A i \in 1..Len(t) : t[i] # Space
    BY <1>2, <2>4, BlankIs
  <2>6. ~IsDots(t)
    BY <1>2, <2>3, DotsAre
  <2> QED
    BY <2>1, <2>2, <2>3, <2>5, <2>6 DEF Without
<1>8. Browse(Url(<<"/", "pages", "/">> \o t, <<>>)) = Url(<<"/", "pages", "/">> \o t, <<>>)
  BY <1>2, <1>7, <1>41, TwoSent, SentPlain
<1> HIDE DEF routes
<1>9. Serve(d, d, Url(<<"/", "pages", "/">> \o t, <<>>))
        = Setup(d, d, Entry("old_player_list", <<>>, <<f, h>>), <<>>, h, f)
  BY <1>2, <1>4, <1>5, <1>6, <1>7, ServedTwo
<1> HIDE DEF f
<1>10. Serve(d, d, Url(<<"/", "pages", "/">> \o t, <<>>)) = OldUrl("old_player_list", h, f)
  BY <1>9, SetupNamed
<1>11. OldUrl("old_player_list", h, f) = Redirected(<<"/", "players">>, <<[name |-> "p", val |-> h]>>)
  BY DEF OldUrl
<1>12. P(1) = <<[name |-> "p", val |-> h]>>
  BY DecimalOne DEF P, h
<1> QED
  BY <1>1, <1>8, <1>10, <1>11, <1>12 DEF t

LEMMA FirstPageServed ==
  ASSUME NEW d, NEW a, a = Serve(d, d, Browse(Url(<<"/", "players">>, P(1))))
  PROVE  IsAbout(a, "player_list", <<Decimal(1), <<"by-rank">> >>)
<1> DEFINE page == "player_list"
           order == <<"by-rank">>
           path == <<"/", "players">>
<1>1. page \in HtmlLists /\ order \in Orders(page) /\ order # <<"by-lastseen">>
  <2>1. order[1] = "by-rank" /\ <<"by-lastseen">>[1] = "by-lastseen"
    OBVIOUS
  <2> QED
    BY <2>1 DEF HtmlLists, Orders
<1>2. Section(page) = "players"
  BY DEF Section
<1>3. ListLink(page, order, 1).href = Url(path, P(1))
  <2> DEFINE n == 1
             tail == IF order = <<"by-lastseen">> THEN <<"/">> \o order ELSE <<>>
             base == <<"/", "players">>
  <2> HIDE DEF n
  <2>1. ListLink(page, order, n).href = Url(base \o tail, P(n))
    BY <1>2, ListLinkIs
  <2>2. tail = <<>>
    BY <1>1
  <2>3. IsList(base)
    BY Pair
  <2> HIDE DEF tail, base
  <2>4. base \o tail = base
    BY <2>2, <2>3, JoinedNone
  <2> QED
    BY <2>1, <2>4 DEF n, base
<1> DEFINE text == Decimal(1)
<1>5. a = List(d, d, page, ParsePnum(text), order)
  <2> DEFINE n == 1
  <2>0. n \in Nat /\ n <= 99999
    OBVIOUS
  <2> HIDE DEF n, page, order, path
  <2>1. Serve(d, d, Browse(ListLink(page, order, n).href)) = List(d, d, page, ParsePnum(Decimal(n)), order)
    BY <1>1, <2>0, ListServed
  <2> QED
    BY <2>1, <1>3 DEF n, path
<1>6. ParsePnum(text).valid /\ ParsePnum(text).p = 1
  <2>1. PageNumber(text) = 1
    <3> DEFINE n == 1
    <3>0. n \in Nat /\ n <= 99999
      OBVIOUS
    <3> HIDE DEF n
    <3>1. PageNumber(Decimal(n)) = n
      BY <3>0, DecimalDecoded
    <3> QED
      BY <3>1 DEF n
  <2> HIDE DEF text
  <2> DEFINE n == PageNumber(text)
             valid == n \in 1..MaxPage
             pnum == [valid |-> valid, p |-> n]
  <2>2. valid
    BY <2>1 DEF MaxPage
  <2>3. ParsePnum(text) = pnum
    BY DEF ParsePnum
  <2> HIDE DEF n, valid
  <2>4. pnum.valid = valid /\ pnum.p = n
    OBVIOUS
  <2> QED
    BY <2>1, <2>2, <2>3, <2>4, Zenon DEF n
<1> HIDE DEF text, page, order
<1>7. a = HtmlList(d, d, page, 1, order)
  BY <1>1, <1>5, <1>6 DEF List
<1>8. ASSUME NEW rows, NEW npages
      PROVE  IsAbout(HtmlRows(page, 1, order, rows, npages), page, <<Decimal(1), order>>)
  <2>1. ~(1 > 1)
    OBVIOUS
  <2> QED
    BY <2>1 DEF HtmlRows, IsAbout, Answer
<1>9. IsAbout(a, page, <<Decimal(1), order>>)
  BY <1>7, <1>8 DEF HtmlList
<1> QED
  BY <1>9 DEF page, order

LEMMA NotLost ==
  ASSUME NEW a, NEW b, ~LosesAddress(a, b)
  PROVE  a # <<>> /\ b # Decimal(MaxPort) /\ Without(a, Space)
<1>1. a # <<>> /\ b # Decimal(MaxPort) /\ ~Contains(a, " ")
  BY Zenon DEF LosesAddress
<1> QED
  BY <1>1, NoBlank, Zenon

\* The address of a server in a path, as a browser sends it.
LEMMA AddressSent ==
  ASSUME NEW ip, NEW port, AddressRead(ip, port), NEW a, a = BuildAddr(ip, port), NEW t, t = FlattenSeq(Sends(a))
  PROVE  /\ IsList(a) /\ ~HasExtension(a, HtmlExt) /\ ~HasExtension(a, JsonExt) /\ Len(a) # 1 /\ a # <<>>
         /\ Without(a, "/") /\ ~IsDots(a)
         /\ IsList(t) /\ UrlDecode(t) = a /\ Without(t, "/") /\ t # <<>>
<1>1. /\ IsList(a) /\ Len(a) >= 2 /\ a[Len(a)] \in HexChars
      /\ Without(a, "/") /\ Without(a, "%") /\ Without(a, "+") /\ Without(a, "NUL")
  BY DEF AddressRead
<1>2. ~HasExtension(a, HtmlExt) /\ ~HasExtension(a, JsonExt) /\ Len(a) # 1 /\ a # <<>>
  BY <1>1, AddressEnds
<1>3. ~IsDots(a)
  BY <1>1, <1>2, HexCharsAre, DotsAre
<1>4. IsList(t) /\ UrlDecode(t) = a /\ Without(t, "/") /\ t # <<>>
  BY <1>1, <1>2, SentDecoded
<1> QED
  BY <1>1, <1>2, <1>3, <1>4

\* The address of a server in a link is read again as its address and port.
LEMMA HostRead ==
  ASSUME NEW h \in Hosts, ~LosesAddress(IpText(h.ip), PortText(h.port))
  PROVE  AddressRead(IpText(h.ip), PortText(h.port))
<1> DEFINE bytes == h.ip
           p == h.port
<1>1. bytes \in [1..16 -> 0..255] /\ p \in 0..MaxPort
  BY HostsAssumption
<1>2. PortText(p) # Decimal(MaxPort) /\ Without(IpText(bytes), Space)
  BY NotLost, Zenon
<1> HIDE DEF bytes, p
<1>3. p # MaxPort
  BY <1>2, Zenon DEF PortText
<1>4. p \in Nat /\ p < MaxPort
  BY <1>1, <1>3, MaxPortIs
<1>5. AddressRead(IpText(bytes), PortText(p))
  BY <1>1, <1>2, <1>4, AddressRoundTrip
<1> QED
  BY <1>5, Zenon DEF bytes, p

LEMMA ServerServed ==
  ASSUME NEW d, NEW ip, NEW port, AddressRead(ip, port)
  PROVE  Serve(d, d, Browse(Url(ServerPath(ip, port), <<>>)))
           = Server(d, d, "server", ParseAddr(BuildAddr(ip, port)))
<1> DEFINE a == BuildAddr(ip, port)
           t == FlattenSeq(Sends(a))
           e == <<>>
           f == <<"server">>
           routes == Html(Star, "server")
<1>1. /\ IsList(a) /\ ~HasExtension(a, HtmlExt) /\ a # <<>> /\ Without(a, "/") /\ ~IsDots(a)
      /\ IsList(t) /\ UrlDecode(t) = a /\ Without(t, "/") /\ t # <<>>
  BY AddressSent
<1>2. Enters("server", routes)
  BY DEF Enters
<1> HIDE DEF a
<1>3. Gives(routes, a, AtEnd, Route(Star, e, "server", <<>>))
  BY <1>1, StarHtml
<1>4. a = Cut(a, e)
  BY <1>1, WholeCut
<1>5. Word("server")
  BY <1>2, EntersWord
<1>6. Browse(Url(<<"/", "server", "/">> \o a, <<>>)) = Url(<<"/", "server", "/">> \o t, <<>>)
  BY <1>1, <1>5, TwoSent
<1> HIDE DEF e, t, routes
<1>7. Serve(d, d, Url(<<"/", "server", "/">> \o t, <<>>))
       = Setup(d, d, Entry("server", <<>>, <<f, a>>), <<>>, a, f)
  BY <1>1, <1>2, <1>3, <1>4, ServedTwo
<1> HIDE DEF f
<1> QED
  BY <1>6, <1>7, SetupNamed DEF a, ServerPath

LEMMA OldServerServed ==
  ASSUME NEW d, NEW ip, NEW port, AddressRead(ip, port)
  PROVE  Serve(d, d, Browse(Url(<<"/", "servers", "/">> \o BuildAddr(ip, port), <<>>)))
           = Redirected(ServerPath(ip, port), <<>>)
<1> DEFINE a == BuildAddr(ip, port)
           t == FlattenSeq(Sends(a))
           e == <<>>
           f == <<"servers">>
<1>1. /\ IsList(a) /\ ~HasExtension(a, HtmlExt) /\ ~HasExtension(a, JsonExt) /\ Len(a) # 1 /\ a # <<>>
      /\ Without(a, "/") /\ ~IsDots(a)
      /\ IsList(t) /\ UrlDecode(t) = a /\ Without(t, "/") /\ t # <<>>
  BY AddressSent
<1>2. Enters("servers", ServersRoutes)
  BY DEF Enters
<1> HIDE DEF a
<1>3. Gives(ServersRoutes, a, AtEnd, Route(Star, e, "old_server", <<>>))
  BY <1>1, OldServerLeaf
<1>4. a = Cut(a, e)
  BY <1>1, WholeCut
<1>5. Word("servers")
  BY <1>2, EntersWord
<1>6. Browse(Url(<<"/", "servers", "/">> \o a, <<>>)) = Url(<<"/", "servers", "/">> \o t, <<>>)
  BY <1>1, <1>5, TwoSent
<1> HIDE DEF e, t
<1>7. Serve(d, d, Url(<<"/", "servers", "/">> \o t, <<>>))
       = Setup(d, d, Entry("old_server", <<>>, <<f, a>>), <<>>, a, f)
  BY <1>1, <1>2, <1>3, <1>4, ServedTwo
<1> HIDE DEF f
<1>8. Serve(d, d, Url(<<"/", "servers", "/">> \o t, <<>>)) = OldUrl("old_server", a, f)
  BY <1>7, SetupNamed
<1>9. OldUrl("old_server", a, f) = Redirected(ServerPath(ip, port), <<>>)
  BY DEF OldUrl, ServerPath, a
<1> QED
  BY <1>6, <1>8, <1>9 DEF a

\* The answers are about whom they are asked.
LEMMA ServerAbout ==
  ASSUME NEW d, NEW i \in DOMAIN d.servers, NEW addr, Parsed(addr, d.servers[i].ip, d.servers[i].port)
  PROVE  IsAbout(Server(d, d, "server", ParseAddr(addr)), "server", <<d.servers[i].ip, d.servers[i].port>>)
<1> DEFINE q == ParseAddr(addr)
           a == Server(d, d, "server", q)
<1>1. q.valid /\ q.ip = d.servers[i].ip /\ q.port = d.servers[i].port
  BY DEF Parsed
<1> HIDE DEF q
<1>2. ~(\A j \in DOMAIN d.servers : <<d.servers[j].ip, d.servers[j].port>> # <<q.ip, q.port>>)
  BY <1>1
<1> DEFINE of == <<q.ip, q.port>>
           rows == Clients(d, q.ip, q.port)
           count == ShownClients(d, d, q.ip, q.port)
           links == (UNION {ClientEntry(d, c) : c \in Clients(d, q.ip, q.port)})
                      \cup {JsonLink("servers", BuildAddr(q.ip, q.port), "json_server", <<q.ip, q.port>>)}
<1>3. a = Answer(200, "server", of, rows, count, links, {})
  <2>1. a = Answer(200, "server", <<q.ip, q.port>>, Clients(d, q.ip, q.port),
            ShownClients(d, d, q.ip, q.port),
                   (UNION {ClientEntry(d, c) : c \in Clients(d, q.ip, q.port)})
                     \cup {JsonLink("servers", BuildAddr(q.ip, q.port), "json_server", <<q.ip, q.port>>)}, {})
    BY <1>1, <1>2 DEF Server
  <2> QED
    BY <2>1, Zenon
<1>30. of = <<q.ip, q.port>>
  OBVIOUS
<1> HIDE DEF of, rows, count, links
<1> HIDE DEF a
<1>4. a.status = 200 /\ a.page = "server" /\ a.of = <<q.ip, q.port>>
  BY <1>3, <1>30 DEF Answer
<1>5. IsAbout(a, "server", <<d.servers[i].ip, d.servers[i].port>>)
  BY <1>1, <1>4 DEF IsAbout
<1> QED
  BY <1>5 DEF a, q

LEMMA PlayerAbout ==
  ASSUME NEW d, NEW i \in DOMAIN d.players
  PROVE  IsAbout(Player(d, "player", d.players[i].name), "player", <<d.players[i].name>>)
<1> DEFINE n == d.players[i].name
           a == Player(d, "player", n)
<1>1. \E j \in DOMAIN d.players : d.players[j].name = n
  OBVIOUS
<1> HIDE DEF n
<1>2. PICK links : a = Answer(200, "player", <<n>>, {}, 0, links, {})
  BY <1>1 DEF Player
<1> HIDE DEF a
<1>3. IsAbout(a, "player", <<n>>)
  BY <1>2 DEF IsAbout, Answer
<1> QED
  BY <1>3 DEF a, n

LEMMA GraphAbout == ASSUME NEW n PROVE IsAbout(PlayerGraph(n), "graph", <<n>>)
  BY DEF IsAbout, PlayerGraph, Answer

LEMMA MembersNotNone ==
  ASSUME NEW d, IsList(d.players), NEW i \in DOMAIN d.players, NEW clan, d.players[i].clan = clan
  PROVE  ToSet(Members(d, clan)) # {}
<1> DEFINE s == d.players
           chosen == {j \in DOMAIN d.players : d.players[j].clan = clan}
<1>1. i \in chosen /\ chosen \subseteq DOMAIN s
  OBVIOUS
<1>2. Members(d, clan) = Select(s, chosen)
  BY DEF Members
<1>3. IsList(s)
  OBVIOUS
<1> HIDE DEF s, chosen
<1>4. s[i] \in ToSet(Select(s, chosen))
  <2>1. DOMAIN s = 1..Len(s)
    BY <1>3, ListIs
  <2>2. ToSet(Select(s, chosen)) = {s[j] : j \in chosen \cap (1..Len(s))}
    BY <1>1, <1>3, SelectedList
  <2>3. i \in chosen \cap (1..Len(s))
    BY <1>1, <2>1
  <2> QED
    BY <2>2, <2>3
<1> QED
  BY <1>2, <1>4

LEMMA ClanAbout ==
  ASSUME NEW d, IsList(d.players), NEW clan \in ClanNames(d)
  PROVE  IsAbout(Clan(d, "clan", clan), "clan", <<clan>>)
<1>1. clan # <<>> /\ \E i \in DOMAIN d.players : d.players[i].clan = clan
  BY DEF ClanNames
<1> DEFINE rows == ToSet(Members(d, clan))
           a == Clan(d, "clan", clan)
<1>2. rows # {}
  BY <1>1, MembersNotNone
<1>3. a = ClanRows("clan", clan, rows)
  BY <1>1 DEF Clan
<1> HIDE DEF rows, a
<1>4. PICK count, links : a = Answer(200, "clan", <<clan>>, rows, count, links, {})
  BY <1>2, <1>3 DEF ClanRows
<1>5. IsAbout(a, "clan", <<clan>>)
  BY <1>4 DEF IsAbout, Answer
<1> QED
  BY <1>5 DEF a

\* A redirection is followed.
LEMMA Followed ==
  ASSUME NEW u, NEW path, NEW args, NEW page, NEW of,
         Serve(db, db, Browse(u)) = Redirected(path, args), IsAbout(Serve(db, db, Browse(Url(path, args))), page, of)
  PROVE  LeadsTo(u, page, of)
<1> DEFINE a == Redirected(path, args)
           v == Url(path, args)
<1>1. a.status = 301 /\ a.next = {v}
  BY DEF Redirected, Answer
<1>2. Fetch(u) = Follow(a)
  BY DEF Fetch
<1> HIDE DEF a, v
<1>3. Follow(a) = Serve(db, db, Browse(v))
  BY <1>1 DEF Follow
<1> QED
  BY <1>2, <1>3 DEF LeadsTo, v

LEMMA LinkIs ==
  ASSUME NEW path, NEW args, NEW page, NEW of, NEW l, l = Link(path, args, page, of)
  PROVE  l.href = Url(path, args) /\ l.page = page /\ l.of = of
  BY DEF Link

\* The names of players and clans are names.
LEMMA NamesAre ==
  ASSUME NEW d, IsDatabase(d)
  PROVE  /\ IsList(d.players) /\ \A i \in DOMAIN d.players : d.players[i].name \in Naming
         /\ \A c \in ClanNames(d) : c \in Naming /\ c # <<>>
<1>1. IsList(d.players) /\ \A i \in DOMAIN d.players : d.players[i].name \in Naming /\ d.players[i].clan \in Naming
  BY DEF IsDatabase, IsPlayer
<1> QED
  BY <1>1 DEF ClanNames

LEMMA KeptName == ASSUME NEW n, ~LosesName(n) PROVE n # <<>> /\ ~IsDots(n) /\ ~HasExtension(n, HtmlExt)
  BY DEF LosesName, HtmlExt

LEMMA OldPageLeads ==
  LeadsTo(Url(<<"/", "pages", "/", "1", ".", "html">>, <<>>), "player_list", <<Decimal(1), <<"by-rank">> >>)
<1> DEFINE u == Url(<<"/", "pages", "/", "1", ".", "html">>, <<>>)
           path == <<"/", "players">>
           args == P(1)
           of == <<Decimal(1), <<"by-rank">> >>
<1>1. Serve(db, db, Browse(u)) = Redirected(path, args)
  BY OldPagesServed
<1>2. IsAbout(Serve(db, db, Browse(Url(path, args))), "player_list", of)
  BY FirstPageServed
<1> HIDE DEF u, path, args, of
<1>3. LeadsTo(u, "player_list", of)
  BY <1>1, <1>2, Followed
<1> QED
  BY <1>3 DEF u, of

LEMMA OldPlayerLeads ==
  ASSUME NEW n \in Naming, ~LosesName(n), NEW i \in DOMAIN db.players, db.players[i].name = n
  PROVE  LeadsTo(Url(<<"/", "players", "/">> \o JsonHexstring(n), <<>>), "player", <<n>>)
<1> DEFINE u == Url(<<"/", "players", "/">> \o JsonHexstring(n), <<>>)
           path == PlayerPath(n)
           e == <<>>
           of == <<n>>
<1>1. Serve(db, db, Browse(u)) = Redirected(path, e)
  BY OldPlayerServed
<1>2. Serve(db, db, Browse(Url(path, e))) = Player(db, "player", n)
  BY PlayerServed, KeptName
<1>3. IsAbout(Player(db, "player", n), "player", of)
  BY PlayerAbout
<1> HIDE DEF u, path, e, of
<1>4. IsAbout(Serve(db, db, Browse(Url(path, e))), "player", of)
  BY <1>2, <1>3
<1>5. LeadsTo(u, "player", of)
  BY <1>1, <1>4, Followed
<1> QED
  BY <1>5 DEF u, of

LEMMA OldGraphLeads ==
  ASSUME NEW n \in Naming, ~LosesName(n)
  PROVE  LeadsTo(Url(<<"/", "players", "/">> \o JsonHexstring(n) \o <<"/", "elo", "+", "rank", ".",
             "svg">>, <<>>),
                 "graph", <<n>>)
<1> DEFINE u == Url(<<"/", "players", "/">> \o JsonHexstring(n) \o <<"/", "elo", "+", "rank", ".",
               "svg">>, <<>>)
           path == PlayerPath(n) \o <<"/", "historic", ".", "svg">>
           e == <<>>
           of == <<n>>
<1>1. Serve(db, db, Browse(u)) = Redirected(path, e)
  BY OldGraphServed
<1>2. Serve(db, db, Browse(Url(path, e))) = PlayerGraph(n)
  BY GraphServed, KeptName
<1>3. IsAbout(PlayerGraph(n), "graph", of)
  BY GraphAbout
<1> HIDE DEF u, path, e, of
<1>4. IsAbout(Serve(db, db, Browse(Url(path, e))), "graph", of)
  BY <1>2, <1>3
<1>5. LeadsTo(u, "graph", of)
  BY <1>1, <1>4, Followed
<1> QED
  BY <1>5 DEF u, of

LEMMA OldClanLeads ==
  ASSUME IsDatabase(db), NEW c \in ClanNames(db), ~LosesName(c)
  PROVE  LeadsTo(Url(<<"/", "clans", "/">> \o JsonHexstring(c), <<>>), "clan", <<c>>)
<1> DEFINE u == Url(<<"/", "clans", "/">> \o JsonHexstring(c), <<>>)
           path == ClanPath(c)
           e == <<>>
           of == <<c>>
<1>0. c \in Naming /\ IsList(db.players)
  BY NamesAre
<1>1. Serve(db, db, Browse(u)) = Redirected(path, e)
  BY <1>0, OldClanServed
<1>2. Serve(db, db, Browse(Url(path, e))) = Clan(db, "clan", c)
  BY <1>0, ClanServed, KeptName
<1>3. IsAbout(Clan(db, "clan", c), "clan", of)
  BY <1>0, ClanAbout
<1> HIDE DEF u, path, e, of
<1>4. IsAbout(Serve(db, db, Browse(Url(path, e))), "clan", of)
  BY <1>2, <1>3
<1>5. LeadsTo(u, "clan", of)
  BY <1>1, <1>4, Followed
<1> QED
  BY <1>5 DEF u, of

LEMMA ServerRead ==
  ASSUME NEW s, IsServer(s), ~LosesAddress(s.ip, s.port)
  PROVE  AddressRead(s.ip, s.port)
<1>1. PICK h \in Hosts : s.ip = IpText(h.ip) /\ s.port = PortText(h.port)
  BY DEF IsServer
<1> QED
  BY <1>1, HostRead

LEMMA OldServerLeads ==
  ASSUME IsDatabase(db), NEW s \in ToSet(db.servers), ~LosesAddress(s.ip, s.port)
  PROVE  LeadsTo(Url(<<"/", "servers", "/">> \o BuildAddr(s.ip, s.port), <<>>), "server", <<s.ip, s.port>>)
<1> DEFINE ip == s.ip
           port == s.port
           u == Url(<<"/", "servers", "/">> \o BuildAddr(ip, port), <<>>)
           path == ServerPath(ip, port)
           addr == BuildAddr(ip, port)
           e == <<>>
           of == <<ip, port>>
<1>1. PICK i \in DOMAIN db.servers : s = db.servers[i]
  BY DEF ToSet
<1>2. IsServer(s)
  BY <1>1 DEF IsDatabase
<1>3. AddressRead(ip, port)
  BY <1>2, ServerRead
<1>4. Serve(db, db, Browse(u)) = Redirected(path, e)
  BY <1>3, OldServerServed
<1>5. Serve(db, db, Browse(Url(path, e))) = Server(db, db, "server", ParseAddr(addr))
  BY <1>3, ServerServed
<1>6. IsAbout(Server(db, db, "server", ParseAddr(addr)), "server", of)
  <2>1. Parsed(addr, db.servers[i].ip, db.servers[i].port)
    BY <1>1, <1>3 DEF AddressRead
  <2> HIDE DEF addr
  <2> QED
    BY <1>1, <2>1, ServerAbout
<1> HIDE DEF u, path, e, of, addr
<1>7. IsAbout(Serve(db, db, Browse(Url(path, e))), "server", of)
  BY <1>5, <1>6
<1>8. LeadsTo(u, "server", of)
  BY <1>4, <1>7, Followed
<1> QED
  BY <1>8 DEF u, of

OldLink(path, page, of) == Link(path, <<>>, page, of)

LEMMA OldLinkIs ==
  ASSUME NEW l \in OldLinks
  PROVE  \/ l = OldLink(<<"/", "pages", "/", "1", ".", "html">>, "player_list",
              <<Decimal(1), <<"by-rank">> >>)
         \/ \E n \in {pl.name : pl \in ToSet(db.players)} :
              l = OldLink(<<"/", "players", "/">> \o JsonHexstring(n), "player", <<n>>)
         \/ \E n \in {pl.name : pl \in ToSet(db.players)} :
              l = OldLink(<<"/", "players", "/">> \o JsonHexstring(n)
                            \o <<"/", "elo", "+", "rank", ".", "svg">>, "graph", <<n>>)
         \/ \E c \in ClanNames(db) : l = OldLink(<<"/", "clans", "/">> \o JsonHexstring(c), "clan", <<c>>)
         \/ \E s \in ToSet(db.servers) :
              l = OldLink(<<"/", "servers", "/">> \o BuildAddr(s.ip, s.port), "server", <<s.ip, s.port>>)
  BY Zenon DEF OldLinks, OldLink

LEMMA OldLinkKept ==
  ASSUME NEW l \in OldLinks
  PROVE  IF l.page = "server" THEN ~LosesAddress(l.of[1], l.of[2]) ELSE ~LosesName(l.of[1])
  BY DEF OldLinks

\* What an old link is about.
LEMMA OldLinkParts ==
  ASSUME NEW path, NEW page, NEW of, NEW l, l = OldLink(path, page, of)
  PROVE  l.href = Url(path, <<>>) /\ l.page = page /\ l.of = of
  BY DEF OldLink, Link

LEMMA NamedPlayer ==
  ASSUME IsDatabase(db), NEW n \in {pl.name : pl \in ToSet(db.players)}
  PROVE  n \in Naming /\ \E i \in DOMAIN db.players : db.players[i].name = n
<1>1. PICK i \in DOMAIN db.players : n = db.players[i].name
  BY DEF ToSet
<1> QED
  BY <1>1, NamesAre

LEMMA ReadingLeads ==
  ASSUME Reading, NEW l \in OldLinks
  PROVE  LeadsTo(l.href, l.page, l.of)
<1>0. IsDatabase(db)
  BY DatabasesAssumption DEF Reading
<1> DEFINE pages == <<"/", "pages", "/", "1", ".", "html">>
           first == <<Decimal(1), <<"by-rank">> >>
           names == {pl.name : pl \in ToSet(db.players)}
           OldPlayer(n) == <<"/", "players", "/">> \o JsonHexstring(n)
           OldGraph(n) == <<"/", "players", "/">> \o JsonHexstring(n) \o <<"/", "elo", "+", "rank", ".",
               "svg">>
           OldClan(c) == <<"/", "clans", "/">> \o JsonHexstring(c)
           OldServer(s) == <<"/", "servers", "/">> \o BuildAddr(s.ip, s.port)
<1>1. \/ l = OldLink(pages, "player_list", first)
      \/ \E n \in names : l = OldLink(OldPlayer(n), "player", <<n>>)
      \/ \E n \in names : l = OldLink(OldGraph(n), "graph", <<n>>)
      \/ \E c \in ClanNames(db) : l = OldLink(OldClan(c), "clan", <<c>>)
      \/ \E s \in ToSet(db.servers) : l = OldLink(OldServer(s), "server", <<s.ip, s.port>>)
  BY OldLinkIs
<1>2. CASE l = OldLink(pages, "player_list", first)
  <2>1. LeadsTo(Url(pages, <<>>), "player_list", first)
    BY OldPageLeads
  <2> HIDE DEF pages, first
  <2> QED
    BY <1>2, <2>1, OldLinkParts
<1>3. ASSUME NEW n \in names, l = OldLink(OldPlayer(n), "player", <<n>>)
      PROVE  LeadsTo(l.href, l.page, l.of)
  <2> DEFINE path == OldPlayer(n)
             of == <<n>>
  <2>1. of[1] = n
    OBVIOUS
  <2>2. n \in Naming /\ \E i \in DOMAIN db.players : db.players[i].name = n
    BY <1>0, NamedPlayer
  <2>3. ~LosesName(n) => LeadsTo(Url(path, <<>>), "player", of)
    BY <2>2, OldPlayerLeads
  <2> HIDE DEF path, of
  <2>4. l.href = Url(path, <<>>) /\ l.page = "player" /\ l.of = of
    BY <1>3, OldLinkParts DEF path, of
  <2>5. ~LosesName(n)
    BY <2>1, <2>4, OldLinkKept
  <2> QED
    BY <2>3, <2>4, <2>5
<1>4. ASSUME NEW n \in names, l = OldLink(OldGraph(n), "graph", <<n>>)
      PROVE  LeadsTo(l.href, l.page, l.of)
  <2> DEFINE path == OldGraph(n)
             of == <<n>>
  <2>1. of[1] = n
    OBVIOUS
  <2>2. n \in Naming
    BY <1>0, NamedPlayer
  <2>3. ~LosesName(n) => LeadsTo(Url(path, <<>>), "graph", of)
    BY <2>2, OldGraphLeads
  <2> HIDE DEF path, of
  <2>4. l.href = Url(path, <<>>) /\ l.page = "graph" /\ l.of = of
    BY <1>4, OldLinkParts DEF path, of
  <2>5. ~LosesName(n)
    BY <2>1, <2>4, OldLinkKept
  <2> QED
    BY <2>3, <2>4, <2>5
<1>5. ASSUME NEW c \in ClanNames(db), l = OldLink(OldClan(c), "clan", <<c>>)
      PROVE  LeadsTo(l.href, l.page, l.of)
  <2> DEFINE path == OldClan(c)
             of == <<c>>
  <2>1. of[1] = c
    OBVIOUS
  <2>3. ~LosesName(c) => LeadsTo(Url(path, <<>>), "clan", of)
    BY <1>0, OldClanLeads
  <2> HIDE DEF path, of
  <2>4. l.href = Url(path, <<>>) /\ l.page = "clan" /\ l.of = of
    BY <1>5, OldLinkParts DEF path, of
  <2>5. ~LosesName(c)
    BY <2>1, <2>4, OldLinkKept
  <2> QED
    BY <2>3, <2>4, <2>5
<1>6. ASSUME NEW s \in ToSet(db.servers), l = OldLink(OldServer(s), "server", <<s.ip, s.port>>)
      PROVE  LeadsTo(l.href, l.page, l.of)
  <2> DEFINE path == OldServer(s)
             ip == s.ip
             port == s.port
             of == <<ip, port>>
  <2>1. of[1] = ip /\ of[2] = port
    OBVIOUS
  <2>3. ~LosesAddress(ip, port) => LeadsTo(Url(path, <<>>), "server", of)
    BY <1>0, OldServerLeads
  <2>40. l = OldLink(path, "server", of)
    BY <1>6
  <2> HIDE DEF path, of, ip, port
  <2>4. l.href = Url(path, <<>>) /\ l.page = "server" /\ l.of = of
    BY <2>40, OldLinkParts
  <2>5. ~LosesAddress(ip, port)
    BY <2>1, <2>4, OldLinkKept
  <2> QED
    BY <2>3, <2>4, <2>5
<1> HIDE DEF pages, first, names, OldPlayer, OldGraph, OldClan, OldServer
<1> QED
  BY <1>1, <1>2, <1>3, <1>4, <1>5, <1>6

\* The URLs of versions 2 and 3 still lead to the same player, graph, clan and server, whatever
\* their names and addresses are (route.c:213-247).
THEOREM OldLinksLeadHolds == Spec => []OldLinksLead
<1>1. Reading => OldLinksLead
  BY ReadingLeads DEF OldLinksLead
<1> QED
  BY <1>1, ReadingHolds, PTL
=============================================================================
