-------------------------------- MODULE MCPages --------------------------------
(***************************************************************************)
(* Lists of up to four pages of two rows; names with a separator, an       *)
(* escape, an extension, blanks, a control character, only dots and none   *)
(* at all; servers of both kinds, with addresses and ports that are lost.  *)
(* What is searched is in more names than are shown, in one, or in none.   *)
(***************************************************************************)
EXTENDS Pages, TLC

\* A word counts for its first letter.
MCByte == "NUL" :> 0 @@ "other" :> 1 @@ "tab" :> 9 @@ " " :> 32 @@ "%" :> 37 @@ "+" :> 43 @@ "." :> 46
          @@ "/" :> 47 @@ "0" :> 48 @@ "2" :> 50 @@ ":" :> 58 @@ "?" :> 63 @@ "X" :> 88 @@ "[" :> 91
          @@ "]" :> 93 @@ "_" :> 95 @@ "html" :> 104 @@ "x" :> 120

Names == << <<"x">>, <<"x", "/", "x">>, <<"%", "2", "0">>, <<"x", ".", "html">>,
            <<"+", " ", "tab", "?">>, <<".", ".">>, <<>> >>
ClanOf == << <<"x">>, <<>>, <<"x">>, <<"%">>, <<".">>, <<"x">>, <<".", "html">> >>

V4(d)    == [i \in 1..16 |-> IF i <= 10 THEN 0 ELSE IF i <= 12 THEN 255 ELSE <<10, 0, 0, d>>[i - 12]]
V6(last) == [i \in 1..16 |-> IF i = 16 THEN last ELSE 32]

Raw == << [ip |-> V4(7), port |-> 8303], [ip |-> V6(254), port |-> 8303],
          [ip |-> V6(9), port |-> 8303], [ip |-> V4(250), port |-> 65535] >>

MCHosts == ToSet(Raw)

Ip(i)   == IpText(Raw[i].ip)
Port(i) == PortText(Raw[i].port)

\* Some players were just seen on the last server, if any, and the third for the first time.
Row(i, m) == [name |-> Names[i], clan |-> ClanOf[i], ranked |-> i # 3,
              online |-> CASE i = 3 -> {<< <<>>, <<>> >>}
                           [] i \in {1, 4, 7} /\ m > 0 -> {<<Ip(m), Port(m)>>}
                           [] OTHER -> {}]

Database(n, m, clients) ==
    [players |-> [i \in 1..n |-> Row(i, m)],
     servers |-> [i \in 1..m |-> [ip |-> Ip(i), port |-> Port(i), name |-> Names[8 - i],
                                  clients |-> {[Row(k, m) EXCEPT !.online = {}] : k \in clients \cap 1..n}]]]

MCDatabases == {Database(n, m, {}) : n \in {0, 4, 7}, m \in {0, 1}}
               \cup {Database(n, m, {1, 3, 5}) : n \in {1, 2, 5}, m \in {3, 4}}

\* What is typed in the form of a page.
Form(path, q) == Url(path \o <<"/", "search">>, <<[name |-> "q", val |-> FormEncode(q)]>>)

MCQueries == {<<"X">>, <<"x", "/", "x">>, <<"%", "2", "0">>, <<"+", " ", "tab", "?">>, <<"_">>, <<>>}

Home(section) == Url(<<"/", section>>, <<>>)

MCTyped ==
    {Url(<<"/">>, <<>>), Home("players"), Home("clans"), Home("servers")}
    \cup {Url(<<"/", "players">>, <<[name |-> "p", val |-> v]>>) : v \in {<<>>, <<"0">>, <<"2">>, <<"x">>}}
    \cup {Url(<<"/", "servers", "/", "by-nplayers", ".", "json">>, <<[name |-> "p", val |-> <<"0">>]>>),
          Url(<<"/", "pages", "/", "2", ".", "html">>, <<>>),
          Url(<<"/", "clans", "/">> \o JsonHexstring(<<"%">>) \o <<".", "html">>, <<>>),
          Url(<<"/", "players", "/">> \o JsonHexstring(<<"x">>) \o <<"/", "elo", "+", "rank", ".", "svg">>, <<>>)}
    \cup {Url(<<"/", "players", "/">> \o JsonHexstring(<<"x">>) \o <<".", "json">>,
              <<[name |-> a, val |-> <<>>]>>) : a \in {"short", "long"}}
    \cup {Url(FlattenSeq([i \in 1..9 |-> <<"/", "x">>]), <<>>),
          Url(<<"/", "players">>, [i \in 1..9 |-> [name |-> "p", val |-> <<"1">>]]),
          Url(<<"/", "servers", "/">> \o BuildAddr(Ip(1), Port(1)), <<>>)}
    \cup {Form(<<"/", "players">>, q) : q \in MCQueries}
    \cup {Form(<<>>, <<"x">>), Url(<<"/", "search">>, <<>>), Url(<<"/", "player", "/", "%">>, <<>>)}
=============================================================================
