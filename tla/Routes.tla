-------------------------------- MODULE Routes ---------------------------------
(***************************************************************************)
(* URLs of the pages: how names are put in a path (cgi/cgi.c, cgi/json.c), *)
(* how a request is cut in directories and arguments and a route is found  *)
(* for it (cgi/route.c, cgi/routes.def).  A text is a sequence of symbols: *)
(* a symbol is a character, or a word of letters such as "players".        *)
(***************************************************************************)
EXTENDS Addresses

CONSTANT Byte   \* the byte of each symbol names are made of

\* What safe_for_urls() is false for: other symbols are letters, digits and "-_.~".
UnsafeForUrls == {"NUL", "other", "tab", " ", "%", "+", "/", ":", "?", "[", "]"}

\* "other" is any byte that no other symbol has.
ASSUME ByteAssumption == /\ \A s \in DOMAIN Byte : Byte[s] \in 0..255
                         /\ \A s, t \in DOMAIN Byte : Byte[s] = Byte[t] => s = t
                         /\ \A s \in DOMAIN Byte : Byte[s] = 0 <=> s = "NUL"
                         /\ UnsafeForUrls \subseteq DOMAIN Byte /\ Byte[" "] = 32

\* The names that are in the tables.
Naming == Seq(DOMAIN Byte \ {"NUL"})

UpperDigits == SubSeq(Digits, 1, 10) \o <<"A", "B", "C", "D", "E", "F">>

\* hextodec(): 0 for what is no digit.
HexToDec(c) == IF \E i \in 1..16 : c \in {Digits[i], UpperDigits[i]}
               THEN (CHOOSE i \in 1..16 : c \in {Digits[i], UpperDigits[i]}) - 1
               ELSE 0

Symbol(high, low) ==
    LET byte == 16 * HexToDec(high) + HexToDec(low)
    IN  IF \E s \in DOMAIN Byte : Byte[s] = byte
        THEN CHOOSE s \in DOMAIN Byte : Byte[s] = byte
        ELSE "other"

\* Mutant of UrlEncode: the character that escapes is not escaped.
UrlEncodeAgain(text) ==
    FlattenSeq([i \in DOMAIN text |->
        IF text[i] \notin UnsafeForUrls \ {"%"} THEN <<text[i]>>
        ELSE <<"%", UpperDigits[(Byte[text[i]] \div 16) + 1], UpperDigits[(Byte[text[i]] % 16) + 1]>>])

UrlEncode(text) ==
    FlattenSeq([i \in DOMAIN text |->
        IF text[i] \notin UnsafeForUrls THEN <<text[i]>>
        ELSE <<"%", UpperDigits[(Byte[text[i]] \div 16) + 1], UpperDigits[(Byte[text[i]] % 16) + 1]>>])

\* What a browser makes of the text in a form.
FormEncode(text) ==
    FlattenSeq([i \in DOMAIN text |-> IF text[i] = " " THEN <<"+">> ELSE UrlEncode(<<text[i]>>)])

\* What is read of a text ends at the nul byte.
CString(text) == SubSeq(text, 1, Min({k \in DOMAIN text : text[k] = "NUL"} \cup {Len(text) + 1}) - 1)

\* An escape that is cut short ends the text.
UrlDecode(text) ==
    LET Read(done, c) ==
            IF done.escape = <<>>
            THEN IF c = "%" THEN [done EXCEPT !.escape = <<c>>]
                 ELSE [done EXCEPT !.text = Append(@, IF c = "+" THEN " " ELSE c)]
            ELSE IF Len(done.escape) = 1 THEN [done EXCEPT !.escape = Append(@, c)]
            ELSE [text |-> Append(done.text, Symbol(done.escape[2], c)), escape |-> <<>>]
    IN  CString(FoldLeft(Read, [text |-> <<>>, escape |-> <<>>], text).text)

JsonHexstring(text) ==
    FlattenSeq([i \in DOMAIN text |-> Hexadecimal(Byte[text[i]])]) \o <<"0", "0">>

\* Mutant of ConvertHexname: a digit is read twice.
ConvertHexnameTwice(hex) == CString([k \in 1..(Len(hex) - 1) |-> Symbol(hex[k], hex[k + 1])])

ConvertHexname(hex) == CString([k \in 1..(Len(hex) \div 2) |-> Symbol(hex[2 * k - 1], hex[2 * k])])

-----------------------------------------------------------------------------

MaxDirs == 8
MaxArgs == 8

Url(path, args) == [path |-> path, args |-> args]

\* The directories of a path as they are sent: strtok() never returns an empty one.
Parts(path) ==
    LET parts == Split(path, "/")
    IN  Select(parts, {i \in DOMAIN parts : parts[i] # <<>>})

\* parse_url(): "/" alone has one directory, which is empty.
Dirs(path) ==
    IF Parts(path) = <<>> THEN << <<>> >> ELSE [i \in DOMAIN Parts(path) |-> UrlDecode(Parts(path)[i])]

Up == <<".", ".">>
IsDots(part) == part = <<".">> \/ part = Up

\* The path that a browser makes of the target of a link: a directory "." is left out,
\* and ".." with the one before it.  There is never more than one of them.
Resolved(path) ==
    LET parts == Parts(path)
        dirs  == Select(parts, {i \in DOMAIN parts : ~IsDots(parts[i])
                                  /\ ~(i + 1 \in DOMAIN parts /\ parts[i + 1] = Up)})
    IN  IF \A i \in DOMAIN parts : ~IsDots(parts[i]) THEN path
        ELSE <<"/">> \o FlattenSeq([i \in DOMAIN dirs |-> dirs[i] \o <<"/">>])

Sendable(path) ==
    FlattenSeq([i \in DOMAIN path |-> IF path[i] = " " THEN <<"%", "2", "0">> ELSE <<path[i]>>])

\* What a reader's browser asks for: neither dots nor blanks can be sent.
Browse(href) == [href EXCEPT !.path = Sendable(Resolved(@))]

-----------------------------------------------------------------------------

Star == <<"*">>

Leaf(name, ext, page) == <<[name |-> name, ext |-> ext, page |-> page, routes |-> <<>>]>>
Html(name, page) == Leaf(name, <<".", "html">>, page) \o Leaf(name, <<>>, page)
Json(name, page) == Leaf(name, <<".", "json">>, page)
Svg(name, page)  == Leaf(name, <<".", "svg">>, page)
Dir(name, routes) == <<[name |-> name, ext |-> <<>>, page |-> "", routes |-> routes]>>

\* routes.def, with both compatibilities, without the pages of a constant text.
PlayersRoutes ==
    Html(<<"search">>, "search")
    \o Html(<<"by-rank">>, "player_list") \o Json(<<"by-rank">>, "json_player_list")
    \o Html(<<"by-lastseen">>, "player_list") \o Json(<<"by-lastseen">>, "json_player_list")
    \o Json(Star, "json_player")
    \o Dir(Star, Svg(<<"elo", " ", "rank">>, "old_graph"))
    \o Html(Star, "old_player")

PlayerRoutes == Dir(Star, Svg(<<"historic">>, "graph")) \o Html(Star, "player")

ClansRoutes ==
    Html(<<"search">>, "search")
    \o Html(<<"by-nmembers">>, "clan_list") \o Json(<<"by-nmembers">>, "json_clan_list")
    \o Json(Star, "json_clan") \o Html(Star, "old_clan")

ServersRoutes ==
    Html(<<"search">>, "search")
    \o Html(<<"by-nplayers">>, "server_list") \o Json(<<"by-nplayers">>, "json_server_list")
    \o Json(Star, "json_server") \o Html(Star, "old_server")

Root ==
    Html(<<"search">>, "search")
    \o Dir(<<"pages">>, Html(Star, "old_player_list"))
    \o Dir(<<"players">>, PlayersRoutes) \o Html(<<"players">>, "player_list")
    \o Dir(<<"player">>, PlayerRoutes)
    \o Dir(<<"clans">>, ClansRoutes) \o Html(<<"clans">>, "clan_list")
    \o Dir(<<"clan">>, Html(Star, "clan"))
    \o Dir(<<"servers">>, ServersRoutes) \o Html(<<"servers">>, "server_list")
    \o Dir(<<"server">>, Html(Star, "server"))
    \o Html(<<>>, "player_list")

\* The name without its extension, the part after the last dot.
Cut(name, ext) == SubSeq(name, 1, Len(name) - Len(ext))

HasExtension(name, ext) ==
    ext = <<>> \/ LET dots == {i \in DOMAIN name : name[i] = "."}
                  IN  dots # {} /\ SubSeq(name, Max(dots), Len(name)) = ext

RouteMatch(route, name) ==
    /\ HasExtension(name, route.ext)
    /\ route.name \in {Star, Cut(name, route.ext)}

\* find_child_route(): the first that matches, or none.
FindChildRoute(routes, name, onlyleaf) ==
    SelectInSeq(routes, LAMBDA r : ~(onlyleaf /\ r.routes # <<>>) /\ RouteMatch(r, name))

\* The route that is found, with the directories without the extensions that were cut.
Enter(at, i, child) ==
    IF child = 0 THEN [page |-> "", routes |-> <<>>, dirs |-> at.dirs]
    ELSE [page   |-> at.routes[child].page,
          routes |-> at.routes[child].routes,
          dirs   |-> [at.dirs EXCEPT ![i] = Cut(@, at.routes[child].ext)]]

\* find_route(): one child after another, the last a leaf.
FindRoute(dirs) ==
    FoldLeft(LAMBDA at, i : Enter(at, i, FindChildRoute(at.routes, dirs[i], i = Len(dirs))),
             [page |-> "", routes |-> Root, dirs |-> dirs], [i \in DOMAIN dirs |-> i])
=============================================================================
