--------------------------------- MODULE Pages ---------------------------------
(***************************************************************************)
(* The pages of the CGI about players, clans and servers (cgi/page/), and  *)
(* a reader who follows their links.  Every request is a process of its    *)
(* own that reads the database in several queries, each in a transaction   *)
(* of its own, while the updater commits.  An answer says whom it is about *)
(* ("of", the arguments of the page), which rows it shows, and where each  *)
(* of its links should lead.                                               *)
(***************************************************************************)
EXTENDS Routes

CONSTANTS Hosts,       \* the bytes of the addresses of servers
          Databases,   \* what the updater may commit
          Typed,       \* URLs the reader knows
          PageSize,    \* rows of a list page, 100 in the code
          MaxResults,  \* MAX_RESULTS, 50 in the code
          Extra        \* links before and after the current page, 3 in the code

IsPlayer(pl) ==
    /\ pl = [name |-> pl.name, clan |-> pl.clan, ranked |-> pl.ranked, online |-> pl.online]
    /\ pl.name \in Naming /\ pl.clan \in Naming
    /\ \A s \in pl.online : IsList(s[1]) /\ IsList(s[2])

IsServer(s) ==
    /\ \E h \in Hosts : s.ip = IpText(h.ip) /\ s.port = PortText(h.port)
    /\ IsList(s.name)
    /\ IsFiniteSet(s.clients) /\ \A c \in s.clients : IsPlayer(c)

\* The key of a player is its name, and that of a server its address and port.
IsDatabase(d) ==
    /\ IsList(d.players) /\ \A i \in DOMAIN d.players : IsPlayer(d.players[i])
    /\ IsList(d.servers) /\ \A i \in DOMAIN d.servers : IsServer(d.servers[i])
    /\ \A i, j \in DOMAIN d.players : d.players[i].name = d.players[j].name => i = j
    /\ \A i, j \in DOMAIN d.servers :
         d.servers[i].ip = d.servers[j].ip /\ d.servers[i].port = d.servers[j].port => i = j

IsUrl(url) ==
    /\ url = Url(url.path, url.args)
    /\ IsList(url.path)
    /\ IsList(url.args) /\ \A i \in DOMAIN url.args : IsList(url.args[i].val)

ASSUME HostsAssumption == \A h \in Hosts : h.ip \in [1..16 -> 0..255] /\ h.port \in 0..MaxPort

ASSUME DatabasesAssumption == \A d \in Databases : IsDatabase(d)

ASSUME TypedAssumption == \A url \in Typed : IsUrl(url)

ASSUME PagesAssumption == /\ PageSize \in Nat \ {0} /\ MaxResults \in Nat \ {0}
                          /\ Extra \in Nat

VARIABLES db,        \* the last commit
          request,   \* the URL asked and what was read of the database so far, or none
          shown,     \* the answer the reader looks at
          walk       \* the rows seen by following Next from page 1

vars == <<db, request, shown, walk>>

NoWalk == [page |-> "", order |-> <<>>, p |-> 0, rows |-> {}]

-----------------------------------------------------------------------------

ClanNames(d) == {d.players[i].clan : i \in DOMAIN d.players} \ {<<>>}

Members(d, clan) == Select(d.players, {i \in DOMAIN d.players : d.players[i].clan = clan})

\* The clans of players, in the order of their members.
Clans(d) ==
    LET first == {i \in DOMAIN d.players : /\ d.players[i].clan # <<>>
                                          /\ \A j \in 1..(i - 1) : d.players[j].clan # d.players[i].clan}
        found == Select(d.players, first)
    IN  [i \in DOMAIN found |-> found[i].clan]

\* IS_PLAYER_RANKED: a new player has a row, but no rank until the next recomputation.
RankedPlayers(d) == Select(d.players, {i \in DOMAIN d.players : d.players[i].ranked})

\* The rows of the pages of a list, whose "json_" variants have the same.
Rows(d, page, order) ==
    CASE page \in {"player_list", "json_player_list"} ->
             IF order = <<"by-rank">> THEN RankedPlayers(d) ELSE Reverse(RankedPlayers(d))
      [] page \in {"clan_list", "json_clan_list"} ->
             LET clans == Clans(d)
                 n     == Len(d.players)
             IN  SortedBy(clans, [i \in DOMAIN clans |-> n + 1 - Len(Members(d, clans[i]))], n)
      [] page \in {"server_list", "json_server_list"} -> d.servers

\* "LIMIT 100 OFFSET (pnum - 1) * 100"
Limit(rows, p) == SubSeq(rows, (p - 1) * PageSize + 1, Min({p * PageSize, Len(rows)}))

HtmlLists == {"player_list", "clan_list", "server_list"}
JsonLists == {"json_player_list", "json_clan_list", "json_server_list"}

Orders(page) ==
    CASE page \in {"player_list", "json_player_list"} -> {<<"by-rank">>, <<"by-lastseen">>}
      [] page \in {"clan_list", "json_clan_list"}     -> {<<"by-nmembers">>}
      [] page \in {"server_list", "json_server_list"} -> {<<"by-nplayers">>}

DefaultOrder(page) == CHOOSE o \in Orders(page) : o # <<"by-lastseen">>

-----------------------------------------------------------------------------

(***************************************************************************)
(* Links, with the page they are meant to lead to.                         *)
(***************************************************************************)

Link(path, args, page, of) == [href |-> Url(path, args), page |-> page, of |-> of]

PlayerLink(name) == Link(<<"/", "player", "/">> \o UrlEncode(name), <<>>, "player", <<name>>)
ClanLink(clan)   == Link(<<"/", "clan", "/">> \o UrlEncode(clan), <<>>, "clan", <<clan>>)

\* An address is put in a path as it is.
ServerLink(ip, port) ==
    Link(<<"/", "server", "/">> \o BuildAddr(ip, port), <<>>, "server", <<ip, port>>)

GraphLink(name) ==
    Link(<<"/", "player", "/">> \o UrlEncode(name) \o <<"/", "historic", ".", "svg">>, <<>>,
         "graph", <<name>>)

JsonLink(section, id, page, of) ==
    Link(<<"/", section, "/">> \o id \o <<".", "json">>, <<>>, page, of)

Section(page) == CASE page \in {"player_list", "json_player_list"} -> "players"
                   [] page \in {"clan_list", "json_clan_list"}     -> "clans"
                   [] page \in {"server_list", "json_server_list"} -> "servers"

P(p) == <<[name |-> "p", val |-> Decimal(p)]>>

ListLink(page, order, p) ==
    Link(<<"/", Section(page)>> \o (IF order = <<"by-lastseen">> THEN <<"/">> \o order ELSE <<>>),
         P(p), page, <<Decimal(p), order>>)

JsonOf(page) == CASE page = "player_list" -> "json_player_list"
                  [] page = "clan_list"   -> "json_clan_list"
                  [] page = "server_list" -> "json_server_list"

JsonListLink(page, order, p) ==
    Link(<<"/", Section(page), "/">> \o order \o <<".", "json">>, P(p),
         JsonOf(page), <<Decimal(p), order>>)

\* player_list_entry(): nothing links to the empty clan, nor to the server of who left.
PlayerEntry(pl) ==
    {PlayerLink(pl.name)}
    \cup (IF pl.clan = <<>> THEN {} ELSE {ClanLink(pl.clan)})
    \cup {ServerLink(s[1], s[2]) : s \in pl.online}

\* show_client_list(): what the table of players says of a client comes first.
ClientEntry(d, c) ==
    LET found == Select(d.players, {i \in DOMAIN d.players : d.players[i].name = c.name})
    IN  PlayerEntry([(IF found = <<>> THEN c ELSE found[1]) EXCEPT !.online = {}])

\* print_section_tabs(), for the lists ...
TabLinks(page) == {Link(<<"/", Section(l)>>, <<>>, l, <<Decimal(1), DefaultOrder(l)>>) :
                     l \in HtmlLists \ {page}}

\* ... and for what is searched in them.
SearchTabs(section, q) ==
    {Link(<<"/", s, "/", "search">>, <<[name |-> "q", val |-> UrlEncode(q)]>>, "search", << <<s>>, q>>) :
        s \in {Section(l) : l \in HtmlLists} \ {section}}

Entries(page, rows) ==
    UNION {CASE page = "player_list" -> PlayerEntry(rows[i])
             [] page = "clan_list"   -> {ClanLink(rows[i])}
             [] page = "server_list" -> {ServerLink(rows[i].ip, rows[i].port)} : i \in DOMAIN rows}

\* Mutant of NumberOfPages: a page that is not full is not counted.
NumberOfPagesFull(n) == n \div PageSize

NumberOfPages(n) == n \div PageSize + 1

\* min(extra, npages - pnum), of unsigned numbers: below 0 is far above extra.
After(p, npages) == IF npages < p THEN Extra ELSE Min({Extra, npages - p})

Before(p) == Min({Extra, p - 1})

\* print_page_nav(): previous, first, around, last and next page.
NavPages(p, npages) ==
    ((p - Before(p))..(p + After(p, npages)) \ {p})
    \cup (IF p > 1 THEN {p - 1} ELSE {})
    \cup (IF p > Extra + 1 THEN {1} ELSE {})
    \cup (IF p + Extra < npages THEN {npages} ELSE {})
    \cup (IF p # npages THEN {p + 1} ELSE {})

-----------------------------------------------------------------------------

(***************************************************************************)
(* Answers.  "first" is the database of the first query of a page and      *)
(* "last" that of the queries after it.                                    *)
(***************************************************************************)

Answer(status, page, of, rows, count, links, next) ==
    [status |-> status, page |-> page, of |-> of, rows |-> rows, count |-> count,
     links |-> links, next |-> next]

Failed(status) == Answer(status, "", <<>>, {}, 0, {}, {})

\* redirect(), followed by any browser.
Redirected(path, args) == Answer(301, "", <<>>, {}, 0, {}, {Url(path, args)})

\* What main_html_player_list() and the like do with the rows and the number of pages.
HtmlRows(page, p, order, rows, npages) ==
    IF rows = <<>> /\ p > 1 THEN Failed(404)
    ELSE Answer(200, page, <<Decimal(p), order>>, ToSet(rows), Len(rows),
                Entries(page, rows) \cup TabLinks(page)
                    \cup {ListLink(page, o, p) : o \in Orders(page) \ {order}}
                    \cup {JsonListLink(page, order, p)}
                    \cup {ListLink(page, order, n) : n \in NavPages(p, npages)},
                IF p = npages THEN {} ELSE {ListLink(page, order, p + 1).href})

\* main_html_player_list(), main_html_clan_list(), main_html_server_list()
HtmlList(first, last, page, p, order) ==
    HtmlRows(page, p, order, Limit(Rows(first, page, order), p),
             NumberOfPages(Len(Rows(last, page, order))))

JsonRows(page, p, order, rows) ==
    IF rows = <<>> /\ p > 1 /\ page # "json_player_list" THEN Failed(404)
    ELSE Answer(200, page, <<Decimal(p), order>>, ToSet(rows), Len(rows), {}, {})

\* main_json_player_list(), main_json_clan_list(), main_json_server_list()
JsonList(first, page, p, order) == JsonRows(page, p, order, Limit(Rows(first, page, order), p))

\* main_svg_graph(): a graph may be empty.
PlayerGraph(name) == Answer(200, "graph", <<name>>, {}, 0, {}, {})

\* main_html_player(), main_json_player()
Player(first, page, name) ==
    IF \E i \in DOMAIN first.players : first.players[i].name = name
    THEN Answer(200, page, <<name>>, {}, 0,
                IF page = "json_player" THEN {}
                ELSE (UNION {PlayerEntry(pl) \ {PlayerLink(name)} :
                                 pl \in {q \in ToSet(first.players) : q.name = name}})
                     \cup {GraphLink(name),
                           JsonLink("players", JsonHexstring(name), "json_player", <<name>>)},
                {})
    ELSE Failed(404)

\* "WHERE clan = ? AND" IS_VALID_CLAN
ClanRows(page, clan, rows) ==
    IF rows = {} THEN Failed(404)
    ELSE Answer(200, page, <<clan>>, rows, Cardinality(rows),
                IF page = "json_clan" THEN {}
                ELSE (UNION {PlayerEntry(pl) \ {ClanLink(clan)} : pl \in rows})
                     \cup {JsonLink("clans", JsonHexstring(clan), "json_clan", <<clan>>)},
                {})

\* main_html_clan(), main_json_clan()
Clan(first, page, clan) ==
    ClanRows(page, clan, IF clan = <<>> THEN {} ELSE ToSet(Members(first, clan)))

Clients(d, ip, port) ==
    UNION {d.servers[i].clients : i \in {j \in DOMAIN d.servers : d.servers[j].ip = ip
                                                               /\ d.servers[j].port = port}}

\* Mutant of ShownClients: the number read with the server is kept.
ShownClientsEarlier(first, last, ip, port) == Cardinality(Clients(first, ip, port))

\* read_server_clients(): the number of clients becomes that of the rows.
ShownClients(first, last, ip, port) == Cardinality(Clients(last, ip, port))

\* main_html_server(), main_json_server(): one query for the server, another for its clients.
Server(first, last, page, parsed) ==
    IF ~parsed.valid \/ (\A i \in DOMAIN first.servers :
                            <<first.servers[i].ip, first.servers[i].port>> # <<parsed.ip, parsed.port>>)
    THEN Failed(404)
    ELSE IF page = "json_server"
    THEN Answer(200, page, <<parsed.ip, parsed.port>>, Clients(last, parsed.ip, parsed.port),
                Cardinality(Clients(first, parsed.ip, parsed.port)), {}, {})
    ELSE Answer(200, page, <<parsed.ip, parsed.port>>, Clients(last, parsed.ip, parsed.port),
                ShownClients(first, last, parsed.ip, parsed.port),
                (UNION {ClientEntry(last, c) : c \in Clients(last, parsed.ip, parsed.port)})
                    \cup {JsonLink("servers", BuildAddr(parsed.ip, parsed.port), "json_server",
                                   <<parsed.ip, parsed.port>>)},
                {})

-----------------------------------------------------------------------------

(***************************************************************************)
(* Searches.  A player or a server has a name, and a clan is one.          *)
(***************************************************************************)

ListOf(section) == CHOOSE page \in HtmlLists : Section(page) = section

NameOf(section, row) == IF section = "clans" THEN row ELSE row.name

Fold(c) == IF c = "X" THEN "x" ELSE c

\* How much of the text the pattern may have matched, once it was read up to c.
Matched(at, c, text) ==
    IF c = "%" THEN {j \in 0..Len(text) : \E i \in at : i <= j}
    ELSE {j \in 1..Len(text) : j - 1 \in at /\ (c = "_" \/ Fold(c) = Fold(text[j]))}

\* LIKE of SQL.
Like(text, pattern) == Len(text) \in FoldLeft(LAMBDA at, c : Matched(at, c, text), {0}, pattern)

IsRelevant(text, q) == Like(text, <<"%">> \o q \o <<"%">>)

\* Mutant of Relevance: what only starts with the query comes first.
RelevancePrefix(text, q) ==
    IF Like(text, q \o <<"%">>) /\ ~Like(text, q) THEN 0
    ELSE IF Like(text, q) THEN 1
    ELSE IF Like(text, <<"%">> \o q) THEN 2
    ELSE 3

\* "exact match, prefix, suffix, anything else"
Relevance(text, q) ==
    IF Like(text, q) THEN 0
    ELSE IF Like(text, q \o <<"%">>) THEN 1
    ELSE IF Like(text, <<"%">> \o q) THEN 2
    ELSE 3

\* Players by elo, new ones too, clans by members and servers by clients: the least first.
Searchable(d, section) ==
    CASE section = "players" -> Reverse(d.players)
      [] section = "clans"   -> Reverse(Rows(d, "clan_list", <<"by-nmembers">>))
      [] section = "servers" -> Reverse(d.servers)

\* The search query, without its LIMIT.
Found(d, section, q) ==
    LET all  == Searchable(d, section)
        rows == Select(all, {i \in DOMAIN all : IsRelevant(NameOf(section, all[i]), q)})
    IN  SortedBy(rows, [i \in DOMAIN rows |-> 1 + Relevance(NameOf(section, rows[i]), q)], 4)

\* Mutant of SearchCount: clans are counted once for each member.
SearchCountMembers(d, section, q) ==
    IF section = "clans"
      THEN Cardinality({i \in DOMAIN d.players : d.players[i].clan # <<>> /\ IsRelevant(d.players[i].clan, q)})
      ELSE Len(Found(d, section, q))

\* The count query; its LIMIT is that of its only row.
SearchCount(d, section, q) ==
    Cardinality({i \in DOMAIN Searchable(d, section) :
                   IsRelevant(NameOf(section, Searchable(d, section)[i]), q)})

\* search()
SearchRows(section, q, rows, count) ==
    Answer(200, "search", << <<section>>, q>>, ToSet(rows), count,
           Entries(ListOf(section), rows) \cup SearchTabs(section, q), {})

\* main_html_search(), which counts before it searches.
Search(first, last, section, q) ==
    LET found == Found(last, section, q)
    IN  SearchRows(section, q, SubSeq(found, 1, Min({MaxResults, Len(found)})),
                   SearchCount(first, section, q))

-----------------------------------------------------------------------------

\* strtol(), of a text that starts with no digit or has nothing else.
PageNumber(text) == IF IsNumber(text) THEN Number(text) ELSE 0

\* In place of UINT_MAX, far below which the offset of a page overflows.
MaxPage == 9999

ParsePnum(text) == [valid |-> PageNumber(text) \in 1..MaxPage, p |-> PageNumber(text)]

\* set_pagelist_args(): the last argument named "p" that has a value, and the order.
PageArgument(args) ==
    LET ps == Select(args, {i \in DOMAIN args : args[i].name = "p" /\ args[i].val # <<>>})
    IN  IF ps = <<>> THEN <<"1">> ELSE UrlDecode(Last(ps).val)

OrderArgument(route) ==
    IF Len(route.dirs) = 2 THEN route.dirs[2] ELSE DefaultOrder(route.page)

\* setup_html_search(): the last argument named "q", which may have no value.
Queries(args) == Select(args, {i \in DOMAIN args : args[i].name = "q"})

\* ... in the section of the path, or else of players.
SearchSection(dirs) == IF Len(dirs) = 1 THEN "players" ELSE dirs[1][1]

\* setup_json_player(): no argument, or one named "short".
BadArgument(args) == args # <<>> /\ ~(Len(args) = 1 /\ args[1].name = "short")

\* setup_html_teerank2_player_list() and the like: where an old URL redirects to, of
\* which "name" and "above" are the last two directories.
OldUrl(page, name, above) ==
    CASE page = "old_player_list" -> Redirected(<<"/", "players">>, <<[name |-> "p", val |-> name]>>)
      [] page = "old_player" ->
             Redirected(<<"/", "player", "/">> \o UrlEncode(ConvertHexname(name)), <<>>)
      [] page = "old_graph" ->
             Redirected(<<"/", "player", "/">> \o UrlEncode(ConvertHexname(above))
                            \o <<"/", "historic", ".", "svg">>, <<>>)
      [] page = "old_clan" ->
             Redirected(<<"/", "clan", "/">> \o UrlEncode(ConvertHexname(name)), <<>>)
      [] page = "old_server" -> Redirected(<<"/", "server", "/">> \o name, <<>>)

\* A list page reads its number itself: it fails when the number is wrong.
List(first, last, page, pnum, order) ==
    IF page \in HtmlLists
    THEN IF pnum.valid THEN HtmlList(first, last, page, pnum.p, order) ELSE Failed(500)
    ELSE IF pnum.valid THEN JsonList(first, page, pnum.p, order) ELSE Failed(404)

\* The setup handlers give a page its arguments; some redirect or fail at once.
Setup(first, last, route, args, name, above) ==
    CASE route.page = "" -> Failed(404)
      [] route.page \in HtmlLists \cup JsonLists ->
             List(first, last, route.page, ParsePnum(PageArgument(args)), OrderArgument(route))
      [] route.page = "player" -> Player(first, route.page, name)
      [] route.page = "graph" -> PlayerGraph(above)
      [] route.page = "json_player" ->
             IF BadArgument(args) THEN Failed(400)
             ELSE Player(first, route.page, ConvertHexname(name))
      [] route.page = "clan" -> Clan(first, route.page, name)
      [] route.page = "json_clan" -> Clan(first, route.page, ConvertHexname(name))
      [] route.page \in {"server", "json_server"} ->
             Server(first, last, route.page, ParseAddr(name))
      [] route.page = "search" ->
             IF Queries(args) = <<>> THEN Failed(400)
             ELSE Search(first, last, SearchSection(route.dirs), UrlDecode(Last(Queries(args)).val))
      [] OTHER -> OldUrl(route.page, name, above)

RunRoute(first, last, route, args) ==
    Setup(first, last, route, args, Last(route.dirs), route.dirs[Max({1, Len(route.dirs) - 1})])

DoRoute(first, last, dirs, args) ==
    IF Len(dirs) > MaxDirs \/ Len(args) > MaxArgs THEN Failed(414)
    ELSE RunRoute(first, last, FindRoute(dirs), args)

\* do_route() and generate()
Serve(first, last, url) == DoRoute(first, last, Dirs(url.path), url.args)

-----------------------------------------------------------------------------

Blank == [answer |-> Failed(0), whole |-> FALSE]

Init == /\ db \in Databases
        /\ request = <<>>
        /\ shown = Blank
        /\ walk = NoWalk

\* What the reader has seen is outdated: nothing is said of it any more.
Commit == /\ db' \in Databases \ {db}
          /\ shown' = Blank
          /\ walk' = NoWalk
          /\ UNCHANGED request

\* The reader leaves for a URL she knows, a link, or where she is redirected.
Request(url) ==
    /\ request = <<>>
    /\ request' = <<[url |-> Browse(url), first |-> db, servers |-> <<>>]>>
    /\ shown' = Blank
    /\ UNCHANGED <<db, walk>>

\* The list pages that are read whole, one after the other, make a walk.
Walked(answer, whole) ==
    LET p == Number(answer.of[1])
    IN  IF ~whole \/ answer.status # 200 \/ answer.page \notin HtmlLists THEN NoWalk
        ELSE IF p = 1 \/ [walk EXCEPT !.rows = {}]
                         = [page |-> answer.page, order |-> answer.of[2], p |-> p - 1, rows |-> {}]
        THEN [page |-> answer.page, order |-> answer.of[2], p |-> p,
              rows |-> answer.rows \cup (IF p = 1 THEN {} ELSE walk.rows)]
        ELSE NoWalk

\* main_html_server() has read the clients (read_server_clients()), and has not yet asked
\* for what the table of players says of them (show_client_list()).
ReadClients ==
    /\ request # <<>>
    /\ Head(request).servers = <<>>
    /\ FindRoute(Dirs(Head(request).url.path)).page = "server"
    /\ request' = <<[Head(request) EXCEPT !.servers = <<db.servers>>]>>
    /\ UNCHANGED <<db, shown, walk>>

\* What the queries after the first one read.
Later(servers) == IF servers = <<>> THEN db ELSE [players |-> db.players, servers |-> servers[1]]

Generate ==
    LET asked  == Head(request)
        last   == Later(asked.servers)
        answer == Serve(asked.first, last, asked.url)
        whole  == asked.first = db /\ last = db
    IN  /\ request # <<>>
        /\ shown' = [answer |-> answer, whole |-> whole]
        /\ walk' = Walked(answer, whole)
        /\ request' = <<>>
        /\ UNCHANGED db

Next == \/ Commit
        \/ \E url \in Typed \cup {l.href : l \in shown.answer.links} \cup shown.answer.next : Request(url)
        \/ ReadClients
        \/ Generate

Spec == Init /\ [][Next]_vars

-----------------------------------------------------------------------------

\* What a browser gets from an URL, were it asked now.
Follow(answer) ==
    IF answer.status = 301 THEN Serve(db, db, Browse(CHOOSE url \in answer.next : TRUE)) ELSE answer

Fetch(url) == Follow(Serve(db, db, Browse(url)))

IsAbout(answer, page, of) == answer.status = 200 /\ answer.page = page /\ answer.of = of

LeadsTo(url, page, of) == IsAbout(Fetch(url), page, of)

\* A name in a path loses an extension, an empty one is no directory, and browsers take
\* "." and ".." for others, since url_encode() leaves them as they are.
LosesName(name) == name = <<>> \/ IsDots(name) \/ HasExtension(name, <<".", "html">>)

\* parse_addr() does not read the last port, nor an IPv6 address with a byte below 16;
\* and a player is on no server ("") until she is seen for the second time.
LosesAddress(ip, port) == ip = <<>> \/ port = Decimal(MaxPort) \/ Contains(ip, " ")

(***************************************************************************)
(* The links that lead nowhere, or elsewhere: names and addresses above,   *)
(* and the page after the last full one, because npages counts it          *)
(* (count / 100 + 1).  No client is without a row in the table of players. *)
(***************************************************************************)
DeadLink(l) ==
    CASE l.page = "player" -> LosesName(l.of[1])
      [] l.page = "clan"   -> LosesName(l.of[1])
      [] l.page = "graph"  -> l.of[1] = <<>> \/ IsDots(l.of[1])
      [] l.page \in {"server", "json_server"} -> LosesAddress(l.of[1], l.of[2])
      [] l.page \in HtmlLists ->
             Number(l.of[1]) > 1
             /\ (Number(l.of[1]) - 1) * PageSize >= Len(Rows(db, l.page, l.of[2]))
      [] OTHER -> FALSE

(***************************************************************************)
(* Every link of a page that was read whole leads to the page it is meant  *)
(* for, through encoding, routes, redirections and queries, whatever       *)
(* characters are in the names, except the dead links listed above.  The   *)
(* properties of a page are asked when it arrives, not again while another *)
(* is on its way.                                                          *)
(***************************************************************************)
LinksLead ==
    shown.whole /\ request = <<>> =>
        \A l \in shown.answer.links : LeadsTo(l.href, l.page, l.of) <=> ~DeadLink(l)

\* The URLs of versions 2 and 3 whose name or address is not lost.
OldLinks ==
    LET Old(path, page, of) == Link(path, <<>>, page, of)
        names == {pl.name : pl \in ToSet(db.players)}
    IN  {l \in {Old(<<"/", "pages", "/", "1", ".", "html">>, "player_list", <<Decimal(1), <<"by-rank">>>>)}
               \cup {Old(<<"/", "players", "/">> \o JsonHexstring(n), "player", <<n>>) : n \in names}
               \cup {Old(<<"/", "players", "/">> \o JsonHexstring(n)
                             \o <<"/", "elo", "+", "rank", ".", "svg">>, "graph", <<n>>) : n \in names}
               \cup {Old(<<"/", "clans", "/">> \o JsonHexstring(c), "clan", <<c>>) : c \in ClanNames(db)}
               \cup {Old(<<"/", "servers", "/">> \o BuildAddr(s.ip, s.port), "server", <<s.ip, s.port>>) :
                         s \in ToSet(db.servers)} :
            IF l.page = "server" THEN ~LosesAddress(l.of[1], l.of[2]) ELSE ~LosesName(l.of[1])}

(***************************************************************************)
(* The URLs of versions 2 and 3 still lead to the same player, graph, clan *)
(* and server ("URLs for player looked like...", route.c:213-247).         *)
(***************************************************************************)
OldLinksLead ==
    shown = Blank /\ request = <<>> => \A l \in OldLinks : LeadsTo(l.href, l.page, l.of)

(***************************************************************************)
(* A reader who follows Next from page 1 until there is no next page, or   *)
(* none is found, has seen every row of the list, however many there are.  *)
(***************************************************************************)
NextShowsAll ==
    walk.p > 0 /\ request = <<>> /\ (\A url \in shown.answer.next : Fetch(url).status = 404) =>
        walk.rows = ToSet(Rows(db, walk.page, walk.order))

\* A row of the database whose name is the query, and the rows that match it whole,
\* which are more than those when it has a wildcard, or in letters of the other case.
Named(section, q)   == {r \in ToSet(Searchable(db, section)) : NameOf(section, r) = q}
Matching(section, q) == {r \in ToSet(Searchable(db, section)) : Like(NameOf(section, r), q)}

(***************************************************************************)
(* Whoever types a name in the form finds it, whatever characters are in   *)
(* it and however many other names contain it, since an exact match comes  *)
(* first ("using the following priorities", search.html.c:39-42): unless   *)
(* more names match it as a pattern than are shown.                        *)
(***************************************************************************)
SearchFinds ==
    LET a == shown.answer
        section == a.of[1][1]
    IN  shown.whole /\ request = <<>> /\ a.page = "search"
          /\ Cardinality(Matching(section, a.of[2])) <= MaxResults
          => Named(section, a.of[2]) \subseteq a.rows

(***************************************************************************)
(* The number in the tab of a search is that of the rows under it, if no   *)
(* more than MAX_RESULTS ("Too many results is meaningless") and read      *)
(* whole: two queries of the same rows are written apart.                  *)
(***************************************************************************)
ResultsCounted ==
    LET a == shown.answer
    IN  a.page = "search" /\ shown.whole => Cardinality(a.rows) = Min({a.count, MaxResults})

(***************************************************************************)
(* The number of clients of a server is that of the clients under it, also *)
(* when the updater committed between the two queries.  The JSON page has  *)
(* the number of its first query: it agrees when nothing was committed.    *)
(***************************************************************************)
ClientsCounted ==
    LET a == shown.answer
    IN  a.page = "server" \/ (a.page = "json_server" /\ shown.whole) =>
            a.count = Cardinality(a.rows)
=============================================================================
