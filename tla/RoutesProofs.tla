------------------------------ MODULE RoutesProofs ------------------------------
(***************************************************************************)
(* URLs and addresses, for any names, addresses and directories: a name    *)
(* that is put in a link is read there again, in the links of today and in *)
(* the hexadecimal ones of old versions; an address that is printed is     *)
(* parsed again; what is sent is cut in the directories that were meant,   *)
(* and the route that is found for them is one of routes.def.              *)
(***************************************************************************)
EXTENDS Routes, ListLemmas

-----------------------------------------------------------------------------
\* Texts that are split and decoded are lists.

\* The parts of a text that is cut at a separator, symbol after symbol.
CutAt(parts, c, separator) ==
    IF c = separator THEN Append(parts, <<>>) ELSE [parts EXCEPT ![Len(parts)] = Append(@, c)]

SplitsBy(text, separator, parts) ==
    /\ parts \in [0..Len(text) -> Seq(Seq(ToSet(text)))]
    /\ parts[0] = << <<>> >> /\ Split(text, separator) = parts[Len(text)]
    /\ \A n \in 1..Len(text) : parts[n] = CutAt(parts[n - 1], text[n], separator)

\* What a text is split into, up to any of its symbols.
LEMMA SplitSteps ==
  ASSUME NEW text, IsList(text), NEW separator
  PROVE  \E parts : SplitsBy(text, separator, parts)
<1> DEFINE N == Len(text)
           V == Seq(Seq(ToSet(text)))
           base == << <<>> >>
           step == [m \in (1..N) \X V |-> CutAt(m[2], text[m[1]], separator)]
           Iter(g) == g = [s \in SUBSET (1..N) |->
                             IF s = {} THEN base ELSE CutAt(g[s \ {Max(s)}], text[Max(s)], separator)]
<1>1. N \in Nat /\ DOMAIN text = 1..N /\ \A i \in 1..N : text[i] \in ToSet(text)
  BY ListIs
<1>2. ASSUME NEW v \in V, NEW c \in ToSet(text) PROVE CutAt(v, c, separator) \in V
  <2>1. Append(v, <<>>) \in V
    BY AppendProperties
  <2>2. ASSUME Len(v) \in 1..Len(v) PROVE [v EXCEPT ![Len(v)] = Append(@, c)] \in V
    <3>1. v[Len(v)] \in Seq(ToSet(text))
      BY <2>2, LenProperties
    <3> DEFINE T == Seq(ToSet(text))
               e == Append(v[Len(v)], c)
    <3>2. e \in T
      BY <3>1, AppendProperties
    <3> HIDE DEF T, e
    <3>3. v \in Seq(T)
      BY DEF T
    <3>4. [v EXCEPT ![Len(v)] = e] \in Seq(T)
      BY <2>2, <3>2, <3>3, ExceptSeq
    <3> QED
      BY <3>4 DEF T, e
  <2>3. ASSUME Len(v) \notin 1..Len(v) PROVE [v EXCEPT ![Len(v)] = Append(@, c)] = v
    <3>1. v \in [1..Len(v) -> Seq(ToSet(text))]
      BY LenProperties
    <3> QED
      BY <2>3, <3>1
  <2> QED
    BY <2>1, <2>2, <2>3 DEF CutAt
<1>3. step \in [(1..N) \X V -> V]
  <2>1. ASSUME NEW m \in (1..N) \X V PROVE CutAt(m[2], text[m[1]], separator) \in V
    BY <1>1, <1>2
  <2> QED
    BY <2>1
<1>4. base \in V
  OBVIOUS
<1>5. PICK it \in [SUBSET (1..N) -> V] : Folded(N, base, step, it)
  <2> HIDE DEF N, V, step, base
  <2> QED
    BY <1>1, <1>3, <1>4, FoldExists
<1>6. Iter(it)
  <2>1. ASSUME NEW s \in SUBSET (1..N), s # {}
        PROVE  step[<<Max(s), it[s \ {Max(s)}]>>] = CutAt(it[s \ {Max(s)}], text[Max(s)], separator)
    <3>1. Max(s) \in s
      BY <1>1, <2>1, GreatestIndex
    <3>2. s \ {Max(s)} \in SUBSET (1..N) /\ Max(s) \in 1..N
      BY <3>1
    <3>3. <<Max(s), it[s \ {Max(s)}]>> \in (1..N) \X V
      BY <1>5, <3>2
    <3> QED
      BY <3>3
  <2> HIDE DEF step, V, N, base
  <2> QED
    BY <1>5, <2>1 DEF Folded
<1> DEFINE iter == CHOOSE g : Iter(g)
<1>7. Iter(iter)
  <2> HIDE DEF Iter
  <2> QED
    BY <1>6
<1>8. Split(text, separator) = iter[1..N]
  BY <1>1 DEF Split, FoldLeft, MapThenFoldSet, CutAt
<1> HIDE DEF iter
<1> DEFINE parts == [n \in 0..N |-> iter[1..n]]
<1>9. parts[0] = base
  <2>1. 1..0 = {} /\ {} \in SUBSET (1..N) /\ 0 \in 0..N
    BY <1>1
  <2> HIDE DEF base
  <2> QED
    BY <1>7, <2>1
<1>10. ASSUME NEW n \in 1..N PROVE parts[n] = CutAt(parts[n - 1], text[n], separator)
  <2>1. 1..n \in SUBSET (1..N) /\ 1..n # {} /\ Max(1..n) = n /\ (1..n) \ {n} = 1..(n - 1)
    BY <1>1, FirstNumbers
  <2>2. iter[1..n] = CutAt(iter[(1..n) \ {Max(1..n)}], text[Max(1..n)], separator)
    <3> HIDE DEF N, base
    <3> QED
      BY <1>7, <2>1
  <2>3. n \in 0..N /\ n - 1 \in 0..N
    BY <1>1
  <2> QED
    BY <2>1, <2>2, <2>3
<1> HIDE DEF parts
<1>11. \A n \in 0..N : parts[n] \in V
  <2> DEFINE Good == {n \in Nat : n <= N => parts[n] \in V}
  <2>1. 0 \in Good
    BY <1>4, <1>9
  <2>2. ASSUME NEW n \in Nat, n \in Good PROVE n + 1 \in Good
    <3>1. SUFFICES ASSUME n + 1 <= N PROVE parts[n + 1] \in V
      OBVIOUS
    <3>2. parts[n] \in V /\ n + 1 \in 1..N /\ (n + 1) - 1 = n
      BY <1>1, <2>2, <3>1
    <3> HIDE DEF V
    <3> QED
      BY <1>1, <1>2, <1>10, <3>2
  <2>3. Nat \subseteq Good
    <3> HIDE DEF Good
    <3> QED
      BY <2>1, <2>2, Induction
  <2> QED
    BY <1>1, <2>3
<1>12. parts \in [0..N -> V] /\ Split(text, separator) = parts[N]
  BY <1>1, <1>8, <1>11 DEF parts
<1>13. SplitsBy(text, separator, parts)
  BY <1>9, <1>10, <1>12 DEF SplitsBy
<1> QED
  BY <1>13

\* A symbol more of a text that is decoded.
Decode(done, c) ==
    IF done.escape = <<>>
    THEN IF c = "%" THEN [done EXCEPT !.escape = <<c>>]
         ELSE [done EXCEPT !.text = Append(@, IF c = "+" THEN " " ELSE c)]
    ELSE IF Len(done.escape) = 1 THEN [done EXCEPT !.escape = Append(@, c)]
    ELSE [text |-> Append(done.text, Symbol(done.escape[2], c)), escape |-> <<>>]

\* What is decoded of a text, symbol after symbol.
Decodable(text) == ToSet(text) \cup DOMAIN Byte \cup {" ", "other"}

DecodesBy(text, done) ==
    /\ done \in [0..Len(text) -> [text : Seq(Decodable(text)), escape : Seq(Decodable(text))]]
    /\ done[0] = [text |-> <<>>, escape |-> <<>>] /\ UrlDecode(text) = CString(done[Len(text)].text)
    /\ \A n \in 1..Len(text) : done[n] = Decode(done[n - 1], text[n])

LEMMA SymbolIs ==
  ASSUME NEW high, NEW low
  PROVE  Symbol(high, low) \in DOMAIN Byte \cup {"other"}
  BY DEF Symbol

\* What is decoded of a text, up to any of its symbols.
LEMMA DecodeSteps ==
  ASSUME NEW text, IsList(text)
  PROVE  \E done : DecodesBy(text, done)
<1> DEFINE N == Len(text)
           V == [text : Seq(Decodable(text)), escape : Seq(Decodable(text))]
           base == [text |-> <<>>, escape |-> <<>>]
           step == [m \in (1..N) \X V |-> Decode(m[2], text[m[1]])]
           Iter(g) == g = [s \in SUBSET (1..N) |->
                             IF s = {} THEN base ELSE Decode(g[s \ {Max(s)}], text[Max(s)])]
<1>1. N \in Nat /\ DOMAIN text = 1..N /\ \A i \in 1..N : text[i] \in ToSet(text)
  BY ListIs
<1>2. ASSUME NEW v \in V, NEW c \in ToSet(text) PROVE Decode(v, c) \in V
  <2>1. c \in Decodable(text) /\ " " \in Decodable(text)
    BY DEF Decodable
  <2>2. Symbol(v.escape[2], c) \in Decodable(text)
    BY SymbolIs DEF Decodable
  <2> DEFINE A == Decodable(text)
             u == IF c = "+" THEN " " ELSE c
             y == Symbol(v.escape[2], c)
  <2>3. u \in A /\ y \in A /\ c \in A
    BY <2>1, <2>2
  <2>4. v.text \in Seq(A) /\ v.escape \in Seq(A) /\ v = [text |-> v.text, escape |-> v.escape]
    OBVIOUS
  <2> HIDE DEF A, u, y
  <2>5. /\ Append(v.text, u) \in Seq(A) /\ Append(v.text, y) \in Seq(A)
        /\ Append(v.escape, c) \in Seq(A) /\ <<c>> \in Seq(A) /\ <<>> \in Seq(A)
    BY <2>3, <2>4, AppendProperties
  <2>6. /\ [v EXCEPT !.escape = <<c>>] \in [text : Seq(A), escape : Seq(A)]
        /\ [v EXCEPT !.text = Append(@, u)] \in [text : Seq(A), escape : Seq(A)]
        /\ [v EXCEPT !.escape = Append(@, c)] \in [text : Seq(A), escape : Seq(A)]
        /\ [text |-> Append(v.text, y), escape |-> <<>>] \in [text : Seq(A), escape : Seq(A)]
    BY <2>4, <2>5
  <2> QED
    BY <2>6 DEF Decode, A, u, y
<1>4. base \in V
  OBVIOUS
<1>3. step \in [(1..N) \X V -> V]
  <2>1. ASSUME NEW m \in (1..N) \X V PROVE Decode(m[2], text[m[1]]) \in V
    BY <1>1, <1>2
  <2> QED
    BY <2>1
<1>5. PICK it \in [SUBSET (1..N) -> V] : Folded(N, base, step, it)
  <2> HIDE DEF N, V, step, base
  <2> QED
    BY <1>1, <1>3, <1>4, FoldExists
<1>6. Iter(it)
  <2>1. ASSUME NEW s \in SUBSET (1..N), s # {}
        PROVE  step[<<Max(s), it[s \ {Max(s)}]>>] = Decode(it[s \ {Max(s)}], text[Max(s)])
    <3>1. Max(s) \in s
      BY <1>1, <2>1, GreatestIndex
    <3>2. s \ {Max(s)} \in SUBSET (1..N) /\ Max(s) \in 1..N
      BY <3>1
    <3>3. <<Max(s), it[s \ {Max(s)}]>> \in (1..N) \X V
      BY <1>5, <3>2
    <3> QED
      BY <3>3
  <2> HIDE DEF step, V, N, base
  <2> QED
    BY <1>5, <2>1 DEF Folded
<1> DEFINE iter == CHOOSE g : Iter(g)
<1>7. Iter(iter)
  <2> HIDE DEF Iter
  <2> QED
    BY <1>6
<1>8. UrlDecode(text) = CString(iter[1..N].text)
  BY <1>1 DEF UrlDecode, FoldLeft, MapThenFoldSet, Decode
<1> HIDE DEF iter
<1> DEFINE done == [n \in 0..N |-> iter[1..n]]
<1>9. done[0] = base
  <2>1. 1..0 = {} /\ {} \in SUBSET (1..N) /\ 0 \in 0..N
    BY <1>1
  <2> HIDE DEF base
  <2> QED
    BY <1>7, <2>1
<1>10. ASSUME NEW n \in 1..N PROVE done[n] = Decode(done[n - 1], text[n])
  <2>1. 1..n \in SUBSET (1..N) /\ 1..n # {} /\ Max(1..n) = n /\ (1..n) \ {n} = 1..(n - 1)
    BY <1>1, FirstNumbers
  <2>2. iter[1..n] = Decode(iter[(1..n) \ {Max(1..n)}], text[Max(1..n)])
    <3> HIDE DEF N, base
    <3> QED
      BY <1>7, <2>1
  <2>3. n \in 0..N /\ n - 1 \in 0..N
    BY <1>1
  <2> QED
    BY <2>1, <2>2, <2>3
<1> HIDE DEF done
<1>11. \A n \in 0..N : done[n] \in V
  <2> DEFINE Good == {n \in Nat : n <= N => done[n] \in V}
  <2>1. 0 \in Good
    BY <1>4, <1>9
  <2>2. ASSUME NEW n \in Nat, n \in Good PROVE n + 1 \in Good
    <3>1. SUFFICES ASSUME n + 1 <= N PROVE done[n + 1] \in V
      OBVIOUS
    <3>2. done[n] \in V /\ n + 1 \in 1..N /\ (n + 1) - 1 = n
      BY <1>1, <2>2, <3>1
    <3> HIDE DEF V
    <3> QED
      BY <1>1, <1>2, <1>10, <3>2
  <2>3. Nat \subseteq Good
    <3> HIDE DEF Good
    <3> QED
      BY <2>1, <2>2, Induction
  <2> QED
    BY <1>1, <2>3
<1>12. done \in [0..N -> V] /\ UrlDecode(text) = CString(done[N].text)
  BY <1>1, <1>8, <1>11 DEF done
<1>13. DecodesBy(text, done)
  BY <1>9, <1>10, <1>12 DEF DecodesBy
<1> QED
  BY <1>13

LEMMA CStringList ==
  ASSUME NEW t, IsList(t)
  PROVE  /\ IsList(CString(t)) /\ Len(CString(t)) <= Len(t)
         /\ \A i \in 1..Len(CString(t)) : CString(t)[i] = t[i] /\ t[i] # "NUL"
         /\ (\A i \in 1..Len(t) : t[i] # "NUL") => CString(t) = t
<1> DEFINE Stops == {k \in DOMAIN t : t[k] = "NUL"} \cup {Len(t) + 1}
<1>1. Len(t) \in Nat /\ DOMAIN t = 1..Len(t)
  BY ListIs
<1>2. PICK e \in Stops : \A y \in Stops : e <= y
  <2>1. Stops \in SUBSET Nat /\ Stops # {}
    BY <1>1
  <2> HIDE DEF Stops
  <2> QED
    BY <2>1, LeastNatural
<1>3. Min(Stops) \in Stops /\ \A y \in Stops : Min(Stops) <= y
  <2> HIDE DEF Stops
  <2> QED
    BY <1>2 DEF Min
<1> DEFINE m == Min(Stops)
<1>4. m \in 1..(Len(t) + 1) /\ \A i \in 1..(m - 1) : t[i] # "NUL"
  <2>1. m \in Stops /\ \A y \in Stops : m <= y
    BY <1>3
  <2> HIDE DEF m
  <2>2. m \in 1..(Len(t) + 1)
    BY <1>1, <2>1
  <2>3. ASSUME NEW i \in 1..(m - 1), t[i] = "NUL" PROVE FALSE
    <3>1. i \in DOMAIN t
      BY <1>1, <2>2
    <3>2. m <= i
      BY <2>1, <2>3, <3>1
    <3> QED
      BY <2>2, <3>2
  <2> QED
    BY <2>2, <2>3
<1>5. CString(t) = SubSeq(t, 1, m - 1)
  BY DEF CString
<1>6. (\A i \in 1..Len(t) : t[i] # "NUL") => m = Len(t) + 1
  BY <1>1, <1>3
<1> HIDE DEF m
<1> DEFINE n == m - 1
<1>7. n \in Nat /\ n <= Len(t) /\ 1 <= n + 1 /\ n - 1 + 1 = n
  BY <1>1, <1>4
<1>8. CString(t) = SubSeq(t, 1, n)
  BY <1>5
<1> HIDE DEF n
<1>9. /\ IsList(SubSeq(t, 1, n)) /\ Len(SubSeq(t, 1, n)) = n - 1 + 1
      /\ \A i \in 1..(n - 1 + 1) : SubSeq(t, 1, n)[i] = t[1 + i - 1]
  BY <1>7, PartOfList
<1>10. \A i \in 1..n : SubSeq(t, 1, n)[i] = t[i]
  BY <1>7, <1>9
<1>11. ASSUME \A i \in 1..Len(t) : t[i] # "NUL" PROVE CString(t) = t
  <2>1. n = Len(t)
    BY <1>1, <1>6, <1>11 DEF n
  <2> QED
    BY <1>7, <1>8, <1>9, <1>10, <2>1, ListsSame
<1> QED
  BY <1>4, <1>7, <1>8, <1>9, <1>10, <1>11 DEF n

LEMMA UrlDecodeList == ASSUME NEW text, IsList(text) PROVE IsList(UrlDecode(text))
<1>1. PICK done : DecodesBy(text, done)
  BY DecodeSteps
<1>2. Len(text) \in Nat
  BY ListIs
<1>3. done[Len(text)].text \in Seq(Decodable(text))
  BY <1>1, <1>2 DEF DecodesBy
<1> DEFINE t == done[Len(text)].text
<1>4. IsList(t) /\ UrlDecode(text) = CString(t)
  BY <1>1, <1>3, ListIn DEF DecodesBy
<1> HIDE DEF t
<1> QED
  BY <1>4, CStringList

LEMMA SplitList ==
  ASSUME NEW text, IsList(text), NEW separator
  PROVE  /\ IsList(Split(text, separator))
         /\ \A i \in 1..Len(Split(text, separator)) : IsList(Split(text, separator)[i])
<1>1. PICK parts : SplitsBy(text, separator, parts)
  BY SplitSteps
<1>2. Len(text) \in Nat
  BY ListIs
<1> DEFINE t == Split(text, separator)
<1>3. t \in Seq(Seq(ToSet(text)))
  BY <1>1, <1>2 DEF SplitsBy
<1> HIDE DEF t
<1>4. \A i \in 1..Len(t) : t[i] \in Seq(ToSet(text))
  BY <1>3, LenProperties
<1>5. IsList(t) /\ \A i \in 1..Len(t) : IsList(t[i])
  BY <1>3, <1>4, ListIn
<1> QED
  BY <1>5 DEF t

\* A list of lists, of which some are kept.
LEMMA KeptLists ==
  ASSUME NEW s, IsList(s), \A i \in 1..Len(s) : IsList(s[i]), NEW kept
  PROVE  IsList(Select(s, kept)) /\ \A i \in 1..Len(Select(s, kept)) : IsList(Select(s, kept)[i])
<1> DEFINE t == Select(s, kept)
<1>1. s \in Seq(ToSet(s))
  BY DEF IsList
<1>2. t \in Seq(ToSet(s)) /\ \E place : Located(t, s, kept \cap (1..Len(s)), place)
  BY <1>1, SelectPlaces
<1> HIDE DEF t
<1>3. PICK place : Located(t, s, kept \cap (1..Len(s)), place)
  BY <1>2
<1>4. IsList(t)
  BY <1>2, ListIn
<1>5. \A i \in 1..Len(t) : IsList(t[i])
  BY <1>3 DEF Located
<1> QED
  BY <1>4, <1>5 DEF t

LEMMA PartsList ==
  ASSUME NEW path, IsList(path)
  PROVE  IsList(Parts(path)) /\ \A i \in 1..Len(Parts(path)) : IsList(Parts(path)[i])
<1> DEFINE parts == Split(path, "/")
           kept == {i \in DOMAIN parts : parts[i] # <<>>}
<1>1. IsList(parts) /\ \A i \in 1..Len(parts) : IsList(parts[i])
  BY SplitList
<1>2. Parts(path) = Select(parts, kept)
  BY DEF Parts
<1> HIDE DEF parts, kept
<1> QED
  BY <1>1, <1>2, KeptLists

LEMMA DirsList ==
  ASSUME NEW path, IsList(path)
  PROVE  /\ IsList(Dirs(path)) /\ Len(Dirs(path)) >= 1
         /\ \A i \in 1..Len(Dirs(path)) : IsList(Dirs(path)[i])
<1> DEFINE dirs == Parts(path)
<1>1. IsList(dirs) /\ \A i \in 1..Len(dirs) : IsList(dirs[i])
  BY PartsList
<1>2. Dirs(path) = IF dirs = <<>> THEN << <<>> >> ELSE [i \in DOMAIN dirs |-> UrlDecode(dirs[i])]
  BY DEF Dirs
<1> HIDE DEF dirs
<1>5. Len(dirs) \in Nat /\ DOMAIN dirs = 1..Len(dirs)
  BY <1>1, ListIs
<1>7. CASE dirs = <<>>
  <2>1. Dirs(path) = << <<>> >>
    BY <1>2, <1>7
  <2> QED
    BY <2>1, Single, EmptyList
<1>8. CASE dirs # <<>>
  <2> DEFINE u == [i \in 1..Len(dirs) |-> UrlDecode(dirs[i])]
  <2>1. Dirs(path) = u
    BY <1>2, <1>5, <1>8
  <2>2. u = [i \in 1..Len(dirs) |-> u[i]]
    OBVIOUS
  <2>3. \A i \in 1..Len(dirs) : IsList(u[i])
    BY <1>1, UrlDecodeList
  <2>4. Len(dirs) # 0
    BY <1>1, <1>8, EmptySeq DEF IsList
  <2> HIDE DEF u
  <2>5. IsList(u) /\ Len(u) = Len(dirs)
    BY <1>5, <2>2, ListMade
  <2> QED
    BY <1>5, <2>1, <2>3, <2>4, <2>5
<1> QED
  BY <1>7, <1>8

-----------------------------------------------------------------------------
\* The routes of routes.def, as sets.

\* A route of a list of routes.
Route(name, ext, page, routes) == [name |-> name, ext |-> ext, page |-> page, routes |-> routes]

HtmlExt == <<".", "html">>

JsonExt == <<".", "json">>

SvgExt  == <<".", "svg">>

LEMMA LeafSet ==
  ASSUME NEW name, NEW ext, NEW page
  PROVE  IsList(Leaf(name, ext, page)) /\ ToSet(Leaf(name, ext, page)) = {Route(name, ext, page, <<>>)}
  BY Single DEF Leaf, Route

LEMMA DirSet ==
  ASSUME NEW name, NEW routes
  PROVE  IsList(Dir(name, routes)) /\ ToSet(Dir(name, routes)) = {Route(name, <<>>, "", routes)}
  BY Single DEF Dir, Route

LEMMA JsonSet ==
  ASSUME NEW name, NEW page
  PROVE  IsList(Json(name, page)) /\ ToSet(Json(name, page)) = {Route(name, JsonExt, page, <<>>)}
  BY LeafSet DEF Json, JsonExt

LEMMA SvgSet ==
  ASSUME NEW name, NEW page
  PROVE  IsList(Svg(name, page)) /\ ToSet(Svg(name, page)) = {Route(name, SvgExt, page, <<>>)}
  BY LeafSet DEF Svg, SvgExt

LEMMA HtmlSet ==
  ASSUME NEW name, NEW page
  PROVE  /\ IsList(Html(name, page))
         /\ ToSet(Html(name, page)) = {Route(name, HtmlExt, page, <<>>), Route(name, <<>>, page, <<>>)}
<1> DEFINE a == Leaf(name, HtmlExt, page)
           b == Leaf(name, <<>>, page)
<1>1. IsList(a) /\ ToSet(a) = {Route(name, HtmlExt, page, <<>>)}
  BY LeafSet
<1>2. IsList(b) /\ ToSet(b) = {Route(name, <<>>, page, <<>>)}
  BY LeafSet
<1>3. Html(name, page) = a \o b
  BY DEF Html, HtmlExt
<1> HIDE DEF a, b
<1>4. IsList(a \o b) /\ ToSet(a \o b) = ToSet(a) \cup ToSet(b)
  BY <1>1, <1>2, JoinedLists
<1> QED
  BY <1>1, <1>2, <1>3, <1>4

LEMMA PlayersSet ==
  /\ IsList(PlayersRoutes)
  /\ ToSet(PlayersRoutes) =
       {Route(<<"search">>, HtmlExt, "search", <<>>),
        Route(<<"search">>, <<>>, "search", <<>>),
        Route(<<"by-rank">>, HtmlExt, "player_list", <<>>),
        Route(<<"by-rank">>, <<>>, "player_list", <<>>),
        Route(<<"by-rank">>, JsonExt, "json_player_list", <<>>),
        Route(<<"by-lastseen">>, HtmlExt, "player_list", <<>>),
        Route(<<"by-lastseen">>, <<>>, "player_list", <<>>),
        Route(<<"by-lastseen">>, JsonExt, "json_player_list", <<>>),
        Route(Star, JsonExt, "json_player", <<>>),
        Route(Star, <<>>, "", Svg(<<"elo", " ", "rank">>, "old_graph")),
        Route(Star, HtmlExt, "old_player", <<>>),
        Route(Star, <<>>, "old_player", <<>>)}
<1> DEFINE h1 == Html(<<"search">>, "search")
           h2 == Html(<<"by-rank">>, "player_list")
           h3 == Json(<<"by-rank">>, "json_player_list")
           h4 == Html(<<"by-lastseen">>, "player_list")
           h5 == Json(<<"by-lastseen">>, "json_player_list")
           h6 == Json(Star, "json_player")
           h7 == Dir(Star, Svg(<<"elo", " ", "rank">>, "old_graph"))
           h8 == Html(Star, "old_player")
           a2 == h1 \o h2
           a3 == a2 \o h3
           a4 == a3 \o h4
           a5 == a4 \o h5
           a6 == a5 \o h6
           a7 == a6 \o h7
           a8 == a7 \o h8
<1>1. PlayersRoutes = a8
  BY DEF PlayersRoutes
<1>2. IsList(h1) /\ ToSet(h1) = {Route(<<"search">>, HtmlExt, "search", <<>>),
          Route(<<"search">>, <<>>, "search", <<>>)}
  BY HtmlSet
<1>3. IsList(h2) /\ ToSet(h2) = {Route(<<"by-rank">>, HtmlExt, "player_list", <<>>),
          Route(<<"by-rank">>, <<>>, "player_list", <<>>)}
  BY HtmlSet
<1>4. IsList(h3) /\ ToSet(h3) = {Route(<<"by-rank">>, JsonExt, "json_player_list", <<>>)}
  BY JsonSet
<1>5. IsList(h4) /\ ToSet(h4) = {Route(<<"by-lastseen">>, HtmlExt, "player_list", <<>>),
          Route(<<"by-lastseen">>, <<>>, "player_list", <<>>)}
  BY HtmlSet
<1>6. IsList(h5) /\ ToSet(h5) = {Route(<<"by-lastseen">>, JsonExt, "json_player_list", <<>>)}
  BY JsonSet
<1>7. IsList(h6) /\ ToSet(h6) = {Route(Star, JsonExt, "json_player", <<>>)}
  BY JsonSet
<1>8. IsList(h7) /\ ToSet(h7) = {Route(Star, <<>>, "", Svg(<<"elo", " ", "rank">>, "old_graph"))}
  BY DirSet
<1>9. IsList(h8) /\ ToSet(h8) = {Route(Star, HtmlExt, "old_player", <<>>),
          Route(Star, <<>>, "old_player", <<>>)}
  BY HtmlSet
<1> HIDE DEF h1, h2, h3, h4, h5, h6, h7, h8
<1>10. IsList(a2) /\ ToSet(a2) = ToSet(h1) \cup ToSet(h2)
  BY <1>2, <1>3, JoinedLists
<1>11. IsList(a3) /\ ToSet(a3) = ToSet(a2) \cup ToSet(h3)
  <2> HIDE DEF a2
  <2> QED
    BY <1>10, <1>4, JoinedLists
<1>12. IsList(a4) /\ ToSet(a4) = ToSet(a3) \cup ToSet(h4)
  <2> HIDE DEF a3
  <2> QED
    BY <1>11, <1>5, JoinedLists
<1>13. IsList(a5) /\ ToSet(a5) = ToSet(a4) \cup ToSet(h5)
  <2> HIDE DEF a4
  <2> QED
    BY <1>12, <1>6, JoinedLists
<1>14. IsList(a6) /\ ToSet(a6) = ToSet(a5) \cup ToSet(h6)
  <2> HIDE DEF a5
  <2> QED
    BY <1>13, <1>7, JoinedLists
<1>15. IsList(a7) /\ ToSet(a7) = ToSet(a6) \cup ToSet(h7)
  <2> HIDE DEF a6
  <2> QED
    BY <1>14, <1>8, JoinedLists
<1>16. IsList(a8) /\ ToSet(a8) = ToSet(a7) \cup ToSet(h8)
  <2> HIDE DEF a7
  <2> QED
    BY <1>15, <1>9, JoinedLists
<1> HIDE DEF a2, a3, a4, a5, a6, a7, a8
<1> QED
  BY <1>1, <1>2, <1>3, <1>4, <1>5, <1>6, <1>7, <1>8, <1>9, <1>10, <1>11, <1>12, <1>13, <1>14, <1>15, <1>16

LEMMA PlayerSet ==
  /\ IsList(PlayerRoutes)
  /\ ToSet(PlayerRoutes) =
       {Route(Star, <<>>, "", Svg(<<"historic">>, "graph")),
        Route(Star, HtmlExt, "player", <<>>),
        Route(Star, <<>>, "player", <<>>)}
<1> DEFINE h1 == Dir(Star, Svg(<<"historic">>, "graph"))
           h2 == Html(Star, "player")
           a2 == h1 \o h2
<1>1. PlayerRoutes = a2
  BY DEF PlayerRoutes
<1>2. IsList(h1) /\ ToSet(h1) = {Route(Star, <<>>, "", Svg(<<"historic">>, "graph"))}
  BY DirSet
<1>3. IsList(h2) /\ ToSet(h2) = {Route(Star, HtmlExt, "player", <<>>), Route(Star, <<>>, "player", <<>>)}
  BY HtmlSet
<1> HIDE DEF h1, h2
<1>4. IsList(a2) /\ ToSet(a2) = ToSet(h1) \cup ToSet(h2)
  BY <1>2, <1>3, JoinedLists
<1> HIDE DEF a2
<1> QED
  BY <1>1, <1>2, <1>3, <1>4

LEMMA ClansSet ==
  /\ IsList(ClansRoutes)
  /\ ToSet(ClansRoutes) =
       {Route(<<"search">>, HtmlExt, "search", <<>>),
        Route(<<"search">>, <<>>, "search", <<>>),
        Route(<<"by-nmembers">>, HtmlExt, "clan_list", <<>>),
        Route(<<"by-nmembers">>, <<>>, "clan_list", <<>>),
        Route(<<"by-nmembers">>, JsonExt, "json_clan_list", <<>>),
        Route(Star, JsonExt, "json_clan", <<>>),
        Route(Star, HtmlExt, "old_clan", <<>>),
        Route(Star, <<>>, "old_clan", <<>>)}
<1> DEFINE h1 == Html(<<"search">>, "search")
           h2 == Html(<<"by-nmembers">>, "clan_list")
           h3 == Json(<<"by-nmembers">>, "json_clan_list")
           h4 == Json(Star, "json_clan")
           h5 == Html(Star, "old_clan")
           a2 == h1 \o h2
           a3 == a2 \o h3
           a4 == a3 \o h4
           a5 == a4 \o h5
<1>1. ClansRoutes = a5
  BY DEF ClansRoutes
<1>2. IsList(h1) /\ ToSet(h1) = {Route(<<"search">>, HtmlExt, "search", <<>>),
          Route(<<"search">>, <<>>, "search", <<>>)}
  BY HtmlSet
<1>3. IsList(h2) /\ ToSet(h2) = {Route(<<"by-nmembers">>, HtmlExt, "clan_list", <<>>),
          Route(<<"by-nmembers">>, <<>>, "clan_list", <<>>)}
  BY HtmlSet
<1>4. IsList(h3) /\ ToSet(h3) = {Route(<<"by-nmembers">>, JsonExt, "json_clan_list", <<>>)}
  BY JsonSet
<1>5. IsList(h4) /\ ToSet(h4) = {Route(Star, JsonExt, "json_clan", <<>>)}
  BY JsonSet
<1>6. IsList(h5) /\ ToSet(h5) = {Route(Star, HtmlExt, "old_clan", <<>>), Route(Star, <<>>, "old_clan", <<>>)}
  BY HtmlSet
<1> HIDE DEF h1, h2, h3, h4, h5
<1>7. IsList(a2) /\ ToSet(a2) = ToSet(h1) \cup ToSet(h2)
  BY <1>2, <1>3, JoinedLists
<1>8. IsList(a3) /\ ToSet(a3) = ToSet(a2) \cup ToSet(h3)
  <2> HIDE DEF a2
  <2> QED
    BY <1>7, <1>4, JoinedLists
<1>9. IsList(a4) /\ ToSet(a4) = ToSet(a3) \cup ToSet(h4)
  <2> HIDE DEF a3
  <2> QED
    BY <1>8, <1>5, JoinedLists
<1>10. IsList(a5) /\ ToSet(a5) = ToSet(a4) \cup ToSet(h5)
  <2> HIDE DEF a4
  <2> QED
    BY <1>9, <1>6, JoinedLists
<1> HIDE DEF a2, a3, a4, a5
<1> QED
  BY <1>1, <1>2, <1>3, <1>4, <1>5, <1>6, <1>7, <1>8, <1>9, <1>10

LEMMA ServersSet ==
  /\ IsList(ServersRoutes)
  /\ ToSet(ServersRoutes) =
       {Route(<<"search">>, HtmlExt, "search", <<>>),
        Route(<<"search">>, <<>>, "search", <<>>),
        Route(<<"by-nplayers">>, HtmlExt, "server_list", <<>>),
        Route(<<"by-nplayers">>, <<>>, "server_list", <<>>),
        Route(<<"by-nplayers">>, JsonExt, "json_server_list", <<>>),
        Route(Star, JsonExt, "json_server", <<>>),
        Route(Star, HtmlExt, "old_server", <<>>),
        Route(Star, <<>>, "old_server", <<>>)}
<1> DEFINE h1 == Html(<<"search">>, "search")
           h2 == Html(<<"by-nplayers">>, "server_list")
           h3 == Json(<<"by-nplayers">>, "json_server_list")
           h4 == Json(Star, "json_server")
           h5 == Html(Star, "old_server")
           a2 == h1 \o h2
           a3 == a2 \o h3
           a4 == a3 \o h4
           a5 == a4 \o h5
<1>1. ServersRoutes = a5
  BY DEF ServersRoutes
<1>2. IsList(h1) /\ ToSet(h1) = {Route(<<"search">>, HtmlExt, "search", <<>>),
          Route(<<"search">>, <<>>, "search", <<>>)}
  BY HtmlSet
<1>3. IsList(h2) /\ ToSet(h2) = {Route(<<"by-nplayers">>, HtmlExt, "server_list", <<>>),
          Route(<<"by-nplayers">>, <<>>, "server_list", <<>>)}
  BY HtmlSet
<1>4. IsList(h3) /\ ToSet(h3) = {Route(<<"by-nplayers">>, JsonExt, "json_server_list", <<>>)}
  BY JsonSet
<1>5. IsList(h4) /\ ToSet(h4) = {Route(Star, JsonExt, "json_server", <<>>)}
  BY JsonSet
<1>6. IsList(h5) /\ ToSet(h5) = {Route(Star, HtmlExt, "old_server", <<>>),
          Route(Star, <<>>, "old_server", <<>>)}
  BY HtmlSet
<1> HIDE DEF h1, h2, h3, h4, h5
<1>7. IsList(a2) /\ ToSet(a2) = ToSet(h1) \cup ToSet(h2)
  BY <1>2, <1>3, JoinedLists
<1>8. IsList(a3) /\ ToSet(a3) = ToSet(a2) \cup ToSet(h3)
  <2> HIDE DEF a2
  <2> QED
    BY <1>7, <1>4, JoinedLists
<1>9. IsList(a4) /\ ToSet(a4) = ToSet(a3) \cup ToSet(h4)
  <2> HIDE DEF a3
  <2> QED
    BY <1>8, <1>5, JoinedLists
<1>10. IsList(a5) /\ ToSet(a5) = ToSet(a4) \cup ToSet(h5)
  <2> HIDE DEF a4
  <2> QED
    BY <1>9, <1>6, JoinedLists
<1> HIDE DEF a2, a3, a4, a5
<1> QED
  BY <1>1, <1>2, <1>3, <1>4, <1>5, <1>6, <1>7, <1>8, <1>9, <1>10

LEMMA RootSet ==
  /\ IsList(Root)
  /\ ToSet(Root) =
       {Route(<<"search">>, HtmlExt, "search", <<>>),
        Route(<<"search">>, <<>>, "search", <<>>),
        Route(<<"pages">>, <<>>, "", Html(Star, "old_player_list")),
        Route(<<"players">>, <<>>, "", PlayersRoutes),
        Route(<<"players">>, HtmlExt, "player_list", <<>>),
        Route(<<"players">>, <<>>, "player_list", <<>>),
        Route(<<"player">>, <<>>, "", PlayerRoutes),
        Route(<<"clans">>, <<>>, "", ClansRoutes),
        Route(<<"clans">>, HtmlExt, "clan_list", <<>>),
        Route(<<"clans">>, <<>>, "clan_list", <<>>),
        Route(<<"clan">>, <<>>, "", Html(Star, "clan")),
        Route(<<"servers">>, <<>>, "", ServersRoutes),
        Route(<<"servers">>, HtmlExt, "server_list", <<>>),
        Route(<<"servers">>, <<>>, "server_list", <<>>),
        Route(<<"server">>, <<>>, "", Html(Star, "server")),
        Route(<<>>, HtmlExt, "player_list", <<>>),
        Route(<<>>, <<>>, "player_list", <<>>)}
<1> DEFINE h1 == Html(<<"search">>, "search")
           h2 == Dir(<<"pages">>, Html(Star, "old_player_list"))
           h3 == Dir(<<"players">>, PlayersRoutes)
           h4 == Html(<<"players">>, "player_list")
           h5 == Dir(<<"player">>, PlayerRoutes)
           h6 == Dir(<<"clans">>, ClansRoutes)
           h7 == Html(<<"clans">>, "clan_list")
           h8 == Dir(<<"clan">>, Html(Star, "clan"))
           h9 == Dir(<<"servers">>, ServersRoutes)
           h10 == Html(<<"servers">>, "server_list")
           h11 == Dir(<<"server">>, Html(Star, "server"))
           h12 == Html(<<>>, "player_list")
           a2 == h1 \o h2
           a3 == a2 \o h3
           a4 == a3 \o h4
           a5 == a4 \o h5
           a6 == a5 \o h6
           a7 == a6 \o h7
           a8 == a7 \o h8
           a9 == a8 \o h9
           a10 == a9 \o h10
           a11 == a10 \o h11
           a12 == a11 \o h12
<1>1. Root = a12
  BY DEF Root
<1>2. IsList(h1) /\ ToSet(h1) = {Route(<<"search">>, HtmlExt, "search", <<>>),
          Route(<<"search">>, <<>>, "search", <<>>)}
  BY HtmlSet
<1>3. IsList(h2) /\ ToSet(h2) = {Route(<<"pages">>, <<>>, "", Html(Star, "old_player_list"))}
  BY DirSet
<1>4. IsList(h3) /\ ToSet(h3) = {Route(<<"players">>, <<>>, "", PlayersRoutes)}
  BY DirSet
<1>5. IsList(h4) /\ ToSet(h4) = {Route(<<"players">>, HtmlExt, "player_list", <<>>),
          Route(<<"players">>, <<>>, "player_list", <<>>)}
  BY HtmlSet
<1>6. IsList(h5) /\ ToSet(h5) = {Route(<<"player">>, <<>>, "", PlayerRoutes)}
  BY DirSet
<1>7. IsList(h6) /\ ToSet(h6) = {Route(<<"clans">>, <<>>, "", ClansRoutes)}
  BY DirSet
<1>8. IsList(h7) /\ ToSet(h7) = {Route(<<"clans">>, HtmlExt, "clan_list", <<>>),
          Route(<<"clans">>, <<>>, "clan_list", <<>>)}
  BY HtmlSet
<1>9. IsList(h8) /\ ToSet(h8) = {Route(<<"clan">>, <<>>, "", Html(Star, "clan"))}
  BY DirSet
<1>10. IsList(h9) /\ ToSet(h9) = {Route(<<"servers">>, <<>>, "", ServersRoutes)}
  BY DirSet
<1>11. IsList(h10) /\ ToSet(h10) = {Route(<<"servers">>, HtmlExt, "server_list", <<>>),
           Route(<<"servers">>, <<>>, "server_list", <<>>)}
  BY HtmlSet
<1>12. IsList(h11) /\ ToSet(h11) = {Route(<<"server">>, <<>>, "", Html(Star, "server"))}
  BY DirSet
<1>13. IsList(h12) /\ ToSet(h12) = {Route(<<>>, HtmlExt, "player_list", <<>>),
           Route(<<>>, <<>>, "player_list", <<>>)}
  BY HtmlSet
<1> HIDE DEF h1, h2, h3, h4, h5, h6, h7, h8, h9, h10, h11, h12
<1>14. IsList(a2) /\ ToSet(a2) = ToSet(h1) \cup ToSet(h2)
  BY <1>2, <1>3, JoinedLists
<1>15. IsList(a3) /\ ToSet(a3) = ToSet(a2) \cup ToSet(h3)
  <2> HIDE DEF a2
  <2> QED
    BY <1>14, <1>4, JoinedLists
<1>16. IsList(a4) /\ ToSet(a4) = ToSet(a3) \cup ToSet(h4)
  <2> HIDE DEF a3
  <2> QED
    BY <1>15, <1>5, JoinedLists
<1>17. IsList(a5) /\ ToSet(a5) = ToSet(a4) \cup ToSet(h5)
  <2> HIDE DEF a4
  <2> QED
    BY <1>16, <1>6, JoinedLists
<1>18. IsList(a6) /\ ToSet(a6) = ToSet(a5) \cup ToSet(h6)
  <2> HIDE DEF a5
  <2> QED
    BY <1>17, <1>7, JoinedLists
<1>19. IsList(a7) /\ ToSet(a7) = ToSet(a6) \cup ToSet(h7)
  <2> HIDE DEF a6
  <2> QED
    BY <1>18, <1>8, JoinedLists
<1>20. IsList(a8) /\ ToSet(a8) = ToSet(a7) \cup ToSet(h8)
  <2> HIDE DEF a7
  <2> QED
    BY <1>19, <1>9, JoinedLists
<1>21. IsList(a9) /\ ToSet(a9) = ToSet(a8) \cup ToSet(h9)
  <2> HIDE DEF a8
  <2> QED
    BY <1>20, <1>10, JoinedLists
<1>22. IsList(a10) /\ ToSet(a10) = ToSet(a9) \cup ToSet(h10)
  <2> HIDE DEF a9
  <2> QED
    BY <1>21, <1>11, JoinedLists
<1>23. IsList(a11) /\ ToSet(a11) = ToSet(a10) \cup ToSet(h11)
  <2> HIDE DEF a10
  <2> QED
    BY <1>22, <1>12, JoinedLists
<1>24. IsList(a12) /\ ToSet(a12) = ToSet(a11) \cup ToSet(h12)
  <2> HIDE DEF a11
  <2> QED
    BY <1>23, <1>13, JoinedLists
<1> HIDE DEF a2, a3, a4, a5, a6, a7, a8, a9, a10, a11, a12
<1> QED
  BY <1>1, <1>2, <1>3, <1>4, <1>5, <1>6, <1>7, <1>8, <1>9, <1>10, <1>11, <1>12, <1>13, <1>14, <1>15,
     <1>16, <1>17, <1>18, <1>19, <1>20, <1>21, <1>22, <1>23, <1>24

-----------------------------------------------------------------------------
\* The route that is found, for any directories.
PageNames == {"", "search", "player_list", "json_player_list", "json_player", "old_graph", "old_player",
              "graph", "player", "clan_list", "json_clan_list", "json_clan", "old_clan", "clan",
              "server_list", "json_server_list", "json_server", "old_server", "server", "old_player_list"}

\* The pages that are found no matter in which section.
PlainPages == PageNames \ {"search", "player_list", "clan_list", "server_list"}

\* The lists of routes, by what is found in them.
QuietRoutes == {<<>>, Html(Star, "old_player_list"), PlayerRoutes, Html(Star, "clan"), Html(Star, "server")}

LastRoutes  == {<<>>, Svg(<<"elo", " ", "rank">>, "old_graph"), Svg(<<"historic">>, "graph")}

RouteLists  == {Root, PlayersRoutes, ClansRoutes, ServersRoutes} \cup QuietRoutes \cup LastRoutes

Known(r, pages, lists) == r.page \in pages /\ r.routes \in lists /\ IsList(r.ext)

LEMMA RouteKnown ==
  ASSUME NEW name, NEW ext, NEW page, NEW routes, NEW pages, NEW lists,
         IsList(ext), page \in pages, routes \in lists
  PROVE  Known(Route(name, ext, page, routes), pages, lists)
  BY DEF Route, Known

LEMMA Extensions == IsList(HtmlExt) /\ IsList(JsonExt) /\ IsList(SvgExt) /\ IsList(<<>>)
<1>1. /\ <<".", "html">> \in Seq({".", "html"}) /\ <<".", "json">> \in Seq({".", "json"})
      /\ <<".", "svg">> \in Seq({".", "svg"})
  OBVIOUS
<1> QED
  BY <1>1, EmptyList, ListIn DEF HtmlExt, JsonExt, SvgExt

LEMMA RootChildren ==
  /\ IsList(Root)
  /\ \A r \in ToSet(Root) :
        /\ Known(r, PageNames, RouteLists)
        /\ \/ r.routes \in QuietRoutes
           \/ /\ r.ext = <<>>
              /\ \/ r.routes = PlayersRoutes /\ r.name = <<"players">>
                 \/ r.routes = ClansRoutes /\ r.name = <<"clans">>
                 \/ r.routes = ServersRoutes /\ r.name = <<"servers">>
<1> DEFINE Q(r) == /\ Known(r, PageNames, RouteLists)
                   /\ \/ r.routes \in QuietRoutes
                      \/ /\ r.ext = <<>>
                         /\ \/ r.routes = PlayersRoutes /\ r.name = <<"players">>
                            \/ r.routes = ClansRoutes /\ r.name = <<"clans">>
                            \/ r.routes = ServersRoutes /\ r.name = <<"servers">>
<1>1. ASSUME NEW name, NEW ext, NEW page, NEW routes, IsList(ext), page \in PageNames, routes \in QuietRoutes
      PROVE  Q(Route(name, ext, page, routes))
  <2>1. routes \in RouteLists
    BY <1>1 DEF RouteLists
  <2>2. Known(Route(name, ext, page, routes), PageNames, RouteLists)
    BY <1>1, <2>1, RouteKnown
  <2>3. Route(name, ext, page, routes).routes = routes
    BY DEF Route
  <2> QED
    BY <1>1, <2>2, <2>3
<1>2. ASSUME NEW name, NEW routes,
             \/ routes = PlayersRoutes /\ name = <<"players">>
             \/ routes = ClansRoutes /\ name = <<"clans">>
             \/ routes = ServersRoutes /\ name = <<"servers">>
      PROVE  Q(Route(name, <<>>, "", routes))
  <2>1. routes \in RouteLists /\ "" \in PageNames
    BY <1>2 DEF RouteLists, PageNames
  <2>2. Known(Route(name, <<>>, "", routes), PageNames, RouteLists)
    BY <2>1, RouteKnown, EmptyList
  <2> DEFINE r == Route(name, <<>>, "", routes)
  <2>3. r.routes = routes /\ r.name = name /\ r.ext = <<>>
    BY DEF Route
  <2> HIDE DEF r
  <2>4. \/ r.routes = PlayersRoutes /\ r.name = <<"players">>
        \/ r.routes = ClansRoutes /\ r.name = <<"clans">>
        \/ r.routes = ServersRoutes /\ r.name = <<"servers">>
    BY <1>2, <2>3
  <2> QED
    BY <2>2, <2>3, <2>4 DEF r
<1>3. /\ <<>> \in QuietRoutes /\ Html(Star, "old_player_list") \in QuietRoutes /\ PlayerRoutes \in QuietRoutes
      /\ Html(Star, "clan") \in QuietRoutes /\ Html(Star, "server") \in QuietRoutes
  BY DEF QuietRoutes
<1>4. /\ "" \in PageNames /\ "search" \in PageNames /\ "player_list" \in PageNames
      /\ "clan_list" \in PageNames /\ "server_list" \in PageNames
  BY DEF PageNames
<1> HIDE DEF Q
<1>5. /\ Q(Route(<<"search">>, HtmlExt, "search", <<>>)) /\ Q(Route(<<"search">>, <<>>, "search", <<>>))
      /\ Q(Route(<<"pages">>, <<>>, "", Html(Star, "old_player_list")))
      /\ Q(Route(<<"players">>, HtmlExt, "player_list", <<>>)) /\ Q(Route(<<"players">>, <<>>,
           "player_list", <<>>))
      /\ Q(Route(<<"player">>, <<>>, "", PlayerRoutes))
      /\ Q(Route(<<"clans">>, HtmlExt, "clan_list", <<>>)) /\ Q(Route(<<"clans">>, <<>>, "clan_list", <<>>))
      /\ Q(Route(<<"clan">>, <<>>, "", Html(Star, "clan")))
      /\ Q(Route(<<"servers">>, HtmlExt, "server_list", <<>>)) /\ Q(Route(<<"servers">>, <<>>,
           "server_list", <<>>))
      /\ Q(Route(<<"server">>, <<>>, "", Html(Star, "server")))
      /\ Q(Route(<<>>, HtmlExt, "player_list", <<>>)) /\ Q(Route(<<>>, <<>>, "player_list", <<>>))
  BY <1>1, <1>3, <1>4, Extensions
<1>6. /\ Q(Route(<<"players">>, <<>>, "", PlayersRoutes)) /\ Q(Route(<<"clans">>, <<>>, "", ClansRoutes))
      /\ Q(Route(<<"servers">>, <<>>, "", ServersRoutes))
  BY <1>2
<1>7. \A r \in ToSet(Root) : Q(r)
  BY <1>5, <1>6, RootSet
<1> QED
  BY <1>7, RootSet DEF Q

LEMMA QuietChildren ==
  ASSUME NEW routes \in QuietRoutes
  PROVE  IsList(routes) /\ \A r \in ToSet(routes) : Known(r, PlainPages, LastRoutes)
<1> DEFINE Q(r) == Known(r, PlainPages, LastRoutes)
<1>1. ASSUME NEW name, NEW ext, NEW page, NEW lists, IsList(ext), page \in PlainPages, lists \in LastRoutes
      PROVE  Q(Route(name, ext, page, lists))
  BY <1>1, RouteKnown
<1>2. /\ <<>> \in LastRoutes /\ Svg(<<"historic">>, "graph") \in LastRoutes
  BY DEF LastRoutes
<1>3. /\ "" \in PlainPages /\ "old_player_list" \in PlainPages
      /\ "player" \in PlainPages /\ "clan" \in PlainPages
      /\ "server" \in PlainPages
  BY DEF PageNames, PlainPages
<1> HIDE DEF Q
<1>4. ASSUME NEW page \in PlainPages
      PROVE  IsList(Html(Star, page)) /\ \A r \in ToSet(Html(Star, page)) : Q(r)
  <2>1. Q(Route(Star, HtmlExt, page, <<>>)) /\ Q(Route(Star, <<>>, page, <<>>))
    BY <1>1, <1>2, Extensions
  <2> QED
    BY <2>1, HtmlSet
<1>5. IsList(PlayerRoutes) /\ \A r \in ToSet(PlayerRoutes) : Q(r)
  <2>1. /\ Q(Route(Star, <<>>, "", Svg(<<"historic">>, "graph")))
        /\ Q(Route(Star, HtmlExt, "player", <<>>)) /\ Q(Route(Star, <<>>, "player", <<>>))
    BY <1>1, <1>2, <1>3, Extensions
  <2> QED
    BY <2>1, PlayerSet
<1>6. CASE routes = <<>>
  BY <1>6, EmptyList
<1>7. CASE routes \in {Html(Star, "old_player_list"), Html(Star, "clan"), Html(Star, "server")}
  BY <1>3, <1>4, <1>7 DEF Q
<1>8. CASE routes = PlayerRoutes
  BY <1>5, <1>8 DEF Q
<1> QED
  BY <1>6, <1>7, <1>8 DEF QuietRoutes

LEMMA LastChildren ==
  ASSUME NEW routes \in LastRoutes
  PROVE  IsList(routes) /\ \A r \in ToSet(routes) : Known(r, PlainPages, {<<>>})
<1> DEFINE Q(r) == Known(r, PlainPages, {<<>>})
<1>1. "old_graph" \in PlainPages /\ "graph" \in PlainPages
  BY DEF PageNames, PlainPages
<1>2. ASSUME NEW name, NEW page \in PlainPages
      PROVE  IsList(Svg(name, page)) /\ \A r \in ToSet(Svg(name, page)) : Q(r)
  <2>1. Q(Route(name, SvgExt, page, <<>>))
    BY RouteKnown, Extensions
  <2> QED
    BY <2>1, SvgSet
<1> HIDE DEF Q
<1>3. CASE routes = <<>>
  BY <1>3, EmptyList
<1>4. CASE routes \in {Svg(<<"elo", " ", "rank">>, "old_graph"), Svg(<<"historic">>, "graph")}
  BY <1>1, <1>2, <1>4 DEF Q
<1> QED
  BY <1>3, <1>4 DEF LastRoutes

\* The routes that a name may take, of which the first is taken.
Candidates(routes, name, onlyleaf) ==
    {i \in 1..Len(routes) : ~(onlyleaf /\ routes[i].routes # <<>>) /\ RouteMatch(routes[i], name)}

\* The route that is taken, of a list of routes, is one that the name may take.
LEMMA ChildFound ==
  ASSUME NEW routes, IsList(routes), NEW name, NEW onlyleaf
  PROVE  LET c == FindChildRoute(routes, name, onlyleaf)
             I == Candidates(routes, name, onlyleaf)
         IN  /\ I = {} => c = 0
             /\ I # {} => c \in I /\ c \in 1..Len(routes) /\ \A i \in I : c <= i
<1> DEFINE I == Candidates(routes, name, onlyleaf)
<1>1. FindChildRoute(routes, name, onlyleaf) = IF I # {} THEN Min(I) ELSE 0
  BY DEF FindChildRoute, SelectInSeq, Candidates
<1>2. I \in SUBSET (1..Len(routes)) /\ Len(routes) \in Nat
  BY ListIs DEF Candidates
<1> HIDE DEF I
<1>3. I \in SUBSET Nat
  BY <1>2
<1>4. I # {} => Min(I) \in I /\ \A i \in I : Min(I) <= i
  <2>1. SUFFICES ASSUME I # {} PROVE Min(I) \in I /\ \A i \in I : Min(I) <= i
    OBVIOUS
  <2>2. PICK x \in I : \A y \in I : x <= y
    BY <1>3, <2>1, LeastNatural
  <2> QED
    BY <2>2 DEF Min
<1> QED
  BY <1>1, <1>2, <1>4 DEF I

LEMMA CutIn ==
  ASSUME NEW S, NEW name \in Seq(S), NEW ext, IsList(ext)
  PROVE  Cut(name, ext) \in Seq(S)
<1>1. Len(name) \in Nat /\ Len(ext) \in Nat
  BY ListIs, LenProperties
<1>2. \A i \in 1..(Len(name) - Len(ext)) : name[i] \in S
  BY <1>1, LenProperties
<1> QED
  BY <1>1, <1>2, SubSeqProperties DEF Cut

Visited(dirs) == [page : PageNames, routes : RouteLists,
                  dirs : [1..Len(dirs) -> Seq(UNION {ToSet(dirs[i]) : i \in 1..Len(dirs)})]]

\* The routes that are entered, directory after directory.
RoutesBy(dirs, at) ==
    /\ at \in [0..Len(dirs) -> Visited(dirs)]
    /\ at[0] = [page |-> "", routes |-> Root, dirs |-> dirs] /\ FindRoute(dirs) = at[Len(dirs)]
    /\ \A n \in 1..Len(dirs) :
         at[n] = Enter(at[n - 1], n, FindChildRoute(at[n - 1].routes, dirs[n], n = Len(dirs)))

LEMMA Entered ==
  ASSUME NEW v, NEW i, NEW name, NEW onlyleaf, NEW pages, NEW lists, IsList(v.routes),
         \A r \in ToSet(v.routes) : Known(r, pages, lists), "" \in pages, <<>> \in lists
  PROVE  /\ Enter(v, i, FindChildRoute(v.routes, name, onlyleaf)).page \in pages
         /\ Enter(v, i, FindChildRoute(v.routes, name, onlyleaf)).routes \in lists
<1> DEFINE c == FindChildRoute(v.routes, name, onlyleaf)
<1>1. c = 0 \/ c \in 1..Len(v.routes)
  BY ChildFound
<1>2. ASSUME c # 0 PROVE Known(v.routes[c], pages, lists)
  <2>1. v.routes[c] \in ToSet(v.routes)
    BY <1>1, <1>2, ListIs
  <2> QED
    BY <2>1
<1> HIDE DEF c
<1>3. Enter(v, i, c).page \in pages /\ Enter(v, i, c).routes \in lists
  BY <1>2 DEF Enter, Known
<1> QED
  BY <1>3 DEF c

Sections == {<<"players">>, <<"clans">>, <<"servers">>}

LEMMA WholeCut == ASSUME NEW name, IsList(name) PROVE Cut(name, <<>>) = name
<1>1. Len(<<>>) = 0 /\ Len(name) - 0 = Len(name)
  BY EmptyList, ListIs
<1> QED
  BY <1>1, PrefixAll DEF Cut

\* What is found in the root, when it is not the last directory.
LEMMA FirstEntered ==
  ASSUME NEW dirs, IsList(dirs), Len(dirs) >= 1, \A i \in 1..Len(dirs) : IsList(dirs[i]), NEW onlyleaf
  PROVE  LET e == Enter([page |-> "", routes |-> Root, dirs |-> dirs], 1,
             FindChildRoute(Root, dirs[1], onlyleaf))
         IN  \/ e.routes \in QuietRoutes
             \/ e.routes \in {PlayersRoutes, ClansRoutes, ServersRoutes} /\ e.dirs[1] \in Sections
<1> DEFINE c == FindChildRoute(Root, dirs[1], onlyleaf)
           v == [page |-> "", routes |-> Root, dirs |-> dirs]
<1>1. IsList(Root) /\ 1 \in 1..Len(dirs) /\ DOMAIN dirs = 1..Len(dirs) /\ IsList(dirs[1])
  BY RootChildren, ListIs
<1>2. CASE c = 0
  <2>1. Enter(v, 1, c).routes = <<>>
    BY <1>2 DEF Enter
  <2> QED
    BY <2>1 DEF QuietRoutes
<1>3. CASE c # 0
  <2>1. c \in 1..Len(Root) /\ RouteMatch(Root[c], dirs[1])
    BY <1>1, <1>3, ChildFound DEF Candidates
  <2>2. Root[c] \in ToSet(Root)
    BY <1>1, <2>1, ListIs
  <2>3. \/ Root[c].routes \in QuietRoutes
        \/ /\ Root[c].ext = <<>>
           /\ \/ Root[c].routes = PlayersRoutes /\ Root[c].name = <<"players">>
              \/ Root[c].routes = ClansRoutes /\ Root[c].name = <<"clans">>
              \/ Root[c].routes = ServersRoutes /\ Root[c].name = <<"servers">>
    BY <2>2, RootChildren
  <2> HIDE DEF c
  <2>4. Enter(v, 1, c).routes = Root[c].routes /\ Enter(v, 1, c).dirs[1] = Cut(dirs[1], Root[c].ext)
    BY <1>1, <1>3 DEF Enter
  <2>5. ASSUME Root[c].ext = <<>>, Root[c].name \in Sections
        PROVE  Cut(dirs[1], Root[c].ext) \in Sections
    <3>1. Root[c].name \in {Star, Cut(dirs[1], Root[c].ext)}
      BY <2>1 DEF RouteMatch
    <3>2. Star \notin Sections
      BY DEF Star, Sections
    <3> QED
      BY <2>5, <3>1, <3>2
  <2>6. <<"players">> \in Sections /\ <<"clans">> \in Sections /\ <<"servers">> \in Sections
    BY DEF Sections
  <2>7. \/ Enter(v, 1, c).routes \in QuietRoutes
        \/ Enter(v, 1, c).routes \in {PlayersRoutes, ClansRoutes, ServersRoutes} /\ Enter(v, 1,
             c).dirs[1] \in Sections
    BY <2>3, <2>4, <2>5, <2>6
  <2> QED
    BY <2>7 DEF c
<1> QED
  BY <1>2, <1>3

-----------------------------------------------------------------------------
\* What is printed into an URL is a list.

\* One symbol in an URL.
Escaped(c) == IF c \notin UnsafeForUrls THEN <<c>>
              ELSE <<"%", UpperDigits[(Byte[c] \div 16) + 1], UpperDigits[(Byte[c] % 16) + 1]>>

Escapes(text) == [i \in 1..Len(text) |-> Escaped(text[i])]

LEMMA EscapesList ==
  ASSUME NEW text, IsList(text)
  PROVE  /\ UrlEncode(text) = FlattenSeq(Escapes(text)) /\ IsList(Escapes(text)) /\ Len(Escapes(text)) = Len(text)
         /\ \A i \in 1..Len(text) : IsList(Escapes(text)[i])
<1>1. Len(text) \in Nat /\ DOMAIN text = 1..Len(text)
  BY ListIs
<1>2. UrlEncode(text) = FlattenSeq(Escapes(text))
  BY <1>1 DEF UrlEncode, Escapes, Escaped
<1>3. IsList(Escapes(text)) /\ Len(Escapes(text)) = Len(text)
  <2> DEFINE e == Escapes(text)
  <2>1. e = [i \in 1..Len(text) |-> e[i]]
    BY DEF Escapes
  <2> HIDE DEF e
  <2>2. IsList(e) /\ Len(e) = Len(text)
    BY <1>1, <2>1, ListMade
  <2> QED
    BY <2>2 DEF e
<1>4. ASSUME NEW i \in 1..Len(text) PROVE IsList(Escapes(text)[i])
  <2>1. Escapes(text)[i] = Escaped(text[i])
    BY DEF Escapes
  <2>2. IsList(Escaped(text[i]))
    BY Single, Triple DEF Escaped
  <2> QED
    BY <2>1, <2>2
<1> QED
  BY <1>2, <1>3, <1>4

\* A name that is encoded for an URL is a list of symbols.
LEMMA UrlEncodeList == ASSUME NEW text, IsList(text) PROVE IsList(UrlEncode(text))
<1>1. UrlEncode(text) = FlattenSeq(Escapes(text)) /\ IsList(Escapes(text))
      /\ \A i \in 1..Len(Escapes(text)) : IsList(Escapes(text)[i])
  BY EscapesList
<1> QED
  BY <1>1, FlattenedList

LEMMA DecimalList == ASSUME NEW n PROVE IsList(Decimal(n)) /\ Len(Decimal(n)) \in 1..5
<1> DEFINE T == {k \in 1..5 : k = 1 \/ Tens[k] <= n}
           width == Max(T)
           t == [i \in 1..width |-> Digits[((n \div Tens[width - i + 1]) % 10) + 1]]
<1>1. T \in SUBSET (1..5) /\ T # {}
  OBVIOUS
<1>2. width \in 1..5
  <2> HIDE DEF T
  <2>1. Max(T) \in T
    BY <1>1, GreatestIndex
  <2> QED
    BY <1>1, <2>1
<1>3. Decimal(n) = t
  BY DEF Decimal
<1> HIDE DEF width
<1>4. t = [i \in 1..width |-> t[i]]
  OBVIOUS
<1> HIDE DEF t
<1>5. IsList(t) /\ Len(t) = width
  <2>1. width \in Nat
    BY <1>2
  <2> QED
    BY <1>4, <2>1, ListMade
<1> QED
  BY <1>2, <1>3, <1>5

LEMMA HexadecimalList ==
  ASSUME NEW byte
  PROVE  IsList(Hexadecimal(byte)) /\ Len(Hexadecimal(byte)) = 2
  BY Pair DEF Hexadecimal

Hexadecimals(text) == [i \in 1..Len(text) |-> Hexadecimal(Byte[text[i]])]

\* So is a name that is encoded for JSON.
LEMMA HexstringList ==
  ASSUME NEW text, IsList(text)
  PROVE  /\ JsonHexstring(text) = FlattenSeq(Hexadecimals(text)) \o <<"0", "0">>
         /\ IsList(Hexadecimals(text)) /\ Len(Hexadecimals(text)) = Len(text)
         /\ \A i \in 1..Len(text) : IsList(Hexadecimals(text)[i])
         /\ IsList(JsonHexstring(text))
<1>1. Len(text) \in Nat /\ DOMAIN text = 1..Len(text)
  BY ListIs
<1>2. JsonHexstring(text) = FlattenSeq(Hexadecimals(text)) \o <<"0", "0">>
  BY <1>1 DEF JsonHexstring, Hexadecimals
<1>3. IsList(Hexadecimals(text)) /\ Len(Hexadecimals(text)) = Len(text)
  <2> DEFINE e == Hexadecimals(text)
  <2>1. e = [i \in 1..Len(text) |-> e[i]]
    BY DEF Hexadecimals
  <2> HIDE DEF e
  <2>2. IsList(e) /\ Len(e) = Len(text)
    BY <1>1, <2>1, ListMade
  <2> QED
    BY <2>2 DEF e
<1>4. ASSUME NEW i \in 1..Len(text) PROVE IsList(Hexadecimals(text)[i])
  <2>1. Hexadecimals(text)[i] = Hexadecimal(Byte[text[i]])
    BY DEF Hexadecimals
  <2> QED
    BY <2>1, HexadecimalList
<1>5. IsList(FlattenSeq(Hexadecimals(text)))
  BY <1>3, <1>4, FlattenedList
<1>6. IsList(FlattenSeq(Hexadecimals(text)) \o <<"0", "0">>)
  BY <1>5, Pair, JoinedLists
<1> QED
  BY <1>2, <1>3, <1>4, <1>6

LEMMA AddrList ==
  ASSUME NEW ip, NEW port, IsList(ip), IsList(port)
  PROVE  IsList(BuildAddr(ip, port))
<1>1. IsList(ip \o <<":">>) /\ IsList(<<"[">> \o ip)
  BY Single, JoinedLists
<1>2. IsList((ip \o <<":">>) \o port) /\ IsList((<<"[">> \o ip) \o <<"]", ":">>)
  <2> DEFINE a == ip \o <<":">>
             b == <<"[">> \o ip
  <2>1. IsList(a) /\ IsList(b)
    BY <1>1
  <2> HIDE DEF a, b
  <2>2. IsList(a \o port) /\ IsList(b \o <<"]", ":">>)
    BY <2>1, Pair, JoinedLists
  <2> QED
    BY <2>2 DEF a, b
<1>3. IsList(((<<"[">> \o ip) \o <<"]", ":">>) \o port)
  <2> DEFINE a == (<<"[">> \o ip) \o <<"]", ":">>
  <2>1. IsList(a)
    BY <1>2
  <2> HIDE DEF a
  <2>2. IsList(a \o port)
    BY <2>1, JoinedLists
  <2> QED
    BY <2>2 DEF a
<1> QED
  BY <1>2, <1>3 DEF BuildAddr

\* An address that is printed.
LEMMA DottedList ==
  ASSUME NEW a, NEW b, NEW c, NEW d, IsList(a), IsList(b), IsList(c), IsList(d)
  PROVE  IsList(a \o <<".">> \o b \o <<".">> \o c \o <<".">> \o d)
<1> DEFINE e == a \o <<".">>
           f == e \o b
           g == f \o <<".">>
           h == g \o c
           k == h \o <<".">>
<1>1. IsList(e)
  BY Single, JoinedLists
<1> HIDE DEF e
<1>2. IsList(f)
  BY <1>1, JoinedLists
<1> HIDE DEF f
<1>3. IsList(g)
  BY <1>2, Single, JoinedLists
<1> HIDE DEF g
<1>4. IsList(h)
  BY <1>3, JoinedLists
<1> HIDE DEF h
<1>5. IsList(k)
  BY <1>4, Single, JoinedLists
<1> HIDE DEF k
<1>6. IsList(k \o d)
  BY <1>5, JoinedLists
<1> QED
  BY <1>6 DEF e, f, g, h, k

HexGroup(ip, i) == Hexadecimal(ip[2 * i - 1]) \o Hexadecimal(ip[2 * i])

HexGroups(ip) == [i \in 1..8 |-> IF i = 1 THEN HexGroup(ip, i) ELSE <<":">> \o HexGroup(ip, i)]

LEMMA GroupsList ==
  ASSUME NEW ip
  PROVE  IsList(HexGroups(ip)) /\ \A i \in 1..Len(HexGroups(ip)) : IsList(HexGroups(ip)[i])
<1>1. ASSUME NEW i PROVE IsList(HexGroup(ip, i))
  BY HexadecimalList, JoinedLists DEF HexGroup
<1>2. ASSUME NEW i PROVE IsList(<<":">> \o HexGroup(ip, i))
  BY <1>1, Single, JoinedLists
<1> DEFINE s == HexGroups(ip)
<1>3. s = [i \in 1..8 |-> s[i]] /\ \A i \in 1..8 : IsList(s[i])
  BY <1>1, <1>2 DEF HexGroups
<1> HIDE DEF s
<1>4. IsList(s) /\ Len(s) = 8
  BY <1>3, ListMade
<1> QED
  BY <1>3, <1>4 DEF s

LEMMA IpTextList == ASSUME NEW ip PROVE IsList(IpText(ip))
<1>1. IsList(Decimal(ip[13]) \o <<".">> \o Decimal(ip[14]) \o <<".">> \o Decimal(ip[15]) \o <<".">> \o Decimal(ip[16]))
  BY DecimalList, DottedList
<1>2. IsList(FlattenSeq(HexGroups(ip)))
  BY GroupsList, FlattenedList
<1> QED
  BY <1>1, <1>2 DEF IpText, HexGroups, HexGroup

LEMMA ConvertedList == ASSUME NEW hex, IsList(hex) PROVE IsList(ConvertHexname(hex))
<1> DEFINE n == Len(hex) \div 2
           t == [k \in 1..n |-> Symbol(hex[2 * k - 1], hex[2 * k])]
<1>1. n \in Nat
  BY ListIs
<1>2. t = [k \in 1..n |-> t[k]]
  OBVIOUS
<1>3. ConvertHexname(hex) = CString(t)
  BY DEF ConvertHexname
<1> HIDE DEF t, n
<1>4. IsList(t)
  BY <1>1, <1>2, ListMade
<1> QED
  BY <1>3, <1>4, CStringList

LEMMA PathList ==
  ASSUME NEW section, NEW id, IsList(id)
  PROVE  /\ IsList(<<"/", section, "/">> \o id)
         /\ IsList(<<"/", section, "/">> \o id \o <<".", "json">>)
         /\ IsList(<<"/", section, "/">> \o id \o <<"/", "historic", ".", "svg">>)
<1> DEFINE a == <<"/", section, "/">> \o id
<1>1. IsList(a)
  BY Triple, JoinedLists
<1> HIDE DEF a
<1>2. IsList(a \o <<".", "json">>)
  BY <1>1, Pair, JoinedLists
<1>3. IsList(a \o <<"/", "historic", ".", "svg">>)
  BY <1>1, Fourth, JoinedLists
<1> QED
  BY <1>1, <1>2, <1>3 DEF a

-----------------------------------------------------------------------------
\* A number is printed and read again.

\* A text without escapes and blanks is decoded as it is.
LEMMA PlainDecoded ==
  ASSUME NEW text, IsList(text), \A i \in 1..Len(text) : text[i] \notin {"%", "+", "NUL"}
  PROVE  UrlDecode(text) = text
<1>1. PICK done : DecodesBy(text, done)
  BY DecodeSteps
<1>2. Len(text) \in Nat
  BY ListIs
<1> DEFINE Plain(t) == [text |-> t, escape |-> <<>>]
           Good == {n \in Nat : n <= Len(text) => done[n] = Plain(SubSeq(text, 1, n))}
<1>3. 0 \in Good
  BY <1>1, PrefixNone DEF DecodesBy
<1>4. ASSUME NEW n \in Nat, n \in Good PROVE n + 1 \in Good
  <2>1. SUFFICES ASSUME n + 1 <= Len(text) PROVE done[n + 1] = Plain(SubSeq(text, 1, n + 1))
    OBVIOUS
  <2>2. n + 1 \in 1..Len(text) /\ (n + 1) - 1 = n /\ done[n] = Plain(SubSeq(text, 1, n))
    BY <1>2, <1>4, <2>1
  <2> DEFINE t == SubSeq(text, 1, n)
             c == text[n + 1]
  <2>3. done[n + 1] = Decode(Plain(t), c)
    BY <1>1, <2>2 DEF DecodesBy
  <2>4. c \notin {"%", "+"}
    BY <2>2
  <2>5. Append(t, c) = SubSeq(text, 1, n + 1)
    BY <2>1, PrefixMore
  <2> HIDE DEF t, c
  <2>6. Decode(Plain(t), c) = Plain(Append(t, c))
    <3> DEFINE p == Plain(t)
               u == Append(t, c)
    <3>1. p.escape = <<>> /\ p.text = t
      OBVIOUS
    <3> HIDE DEF u
    <3>2. [p EXCEPT !.text = u] = Plain(u)
      OBVIOUS
    <3> HIDE DEF p
    <3>3. Decode(p, c) = [p EXCEPT !.text = u]
      <4>1. Decode(p, c) = [p EXCEPT !.text = Append(p.text, c)]
        BY <2>4, <3>1, Zenon DEF Decode
      <4> QED
        BY <3>1, <4>1 DEF u
    <3> HIDE DEF Plain
    <3> QED
      BY <3>2, <3>3 DEF p, u
  <2> HIDE DEF Plain
  <2> QED
    BY <2>3, <2>5, <2>6
<1>5. Nat \subseteq Good
  <2> HIDE DEF Good
  <2> QED
    BY <1>3, <1>4, Induction
<1>6. done[Len(text)] = Plain(text)
  BY <1>2, <1>5, PrefixAll
<1>7. Plain(text).text = text
  OBVIOUS
<1> HIDE DEF Plain
<1>8. UrlDecode(text) = CString(text)
  BY <1>1, <1>6, <1>7 DEF DecodesBy
<1> QED
  BY <1>8, CStringList

LEMMA DigitValues ==
  ASSUME NEW k \in 0..9
  PROVE  Digits[k + 1] \in DecimalDigits /\ Value(Digits[k + 1]) = k
<1>1. \A i, j \in 1..16 : Digits[i] = Digits[j] => i = j
  BY DEF Digits
<1>2. k + 1 \in 1..10 /\ k + 1 \in 1..16
  OBVIOUS
<1>3. (CHOOSE i \in 1..16 : Digits[i] = Digits[k + 1]) = k + 1
  <2> HIDE DEF Digits
  <2> QED
    BY <1>1, <1>2
<1>4. Digits[k + 1] \in DecimalDigits
  <2> HIDE DEF Digits
  <2> QED
    BY <1>2 DEF DecimalDigits
<1>5. Value(Digits[k + 1]) = k
  <2> DEFINE d == Digits[k + 1]
             m == CHOOSE i \in 1..16 : Digits[i] = d
  <2>1. Value(d) = m - 1
    BY DEF Value
  <2>2. m = k + 1
    BY <1>3
  <2> HIDE DEF d, m
  <2>3. Value(d) = k
    BY <2>1, <2>2
  <2> QED
    BY <2>3 DEF d
<1> QED
  BY <1>4, <1>5

LEMMA DigitsPlain == ASSUME NEW c \in DecimalDigits PROVE c \notin {"%", "+", "NUL"}
<1>1. /\ Digits[1] = "0" /\ Digits[2] = "1" /\ Digits[3] = "2" /\ Digits[4] = "3" /\ Digits[5] = "4"
      /\ Digits[6] = "5" /\ Digits[7] = "6" /\ Digits[8] = "7" /\ Digits[9] = "8" /\ Digits[10] = "9"
  BY DEF Digits
<1>2. PICK i \in 1..10 : c = Digits[i]
  BY DEF DecimalDigits
<1>3. i \in {1, 2, 3, 4, 5, 6, 7, 8, 9, 10}
  OBVIOUS
<1>4. c \in {"0", "1", "2", "3", "4", "5", "6", "7", "8", "9"}
  BY <1>1, <1>2, <1>3
<1> HIDE DEF Digits
<1> QED
  BY <1>4

LEMMA ValueIs == ASSUME NEW c \in DecimalDigits PROVE Value(c) \in 0..9
<1>1. PICK i \in 1..10 : c = Digits[i]
  BY DEF DecimalDigits
<1>2. i - 1 \in 0..9 /\ (i - 1) + 1 = i
  OBVIOUS
<1> QED
  BY <1>1, <1>2, DigitValues

\* The number of a text, digit after digit.
NumbersBy(text, num) ==
    /\ num \in [0..Len(text) -> Nat]
    /\ num[0] = 0 /\ Number(text) = num[Len(text)]
    /\ \A n \in 1..Len(text) : num[n] = 10 * num[n - 1] + Value(text[n])

\* The number that is read of a text, up to any of its digits.
LEMMA NumberSteps ==
  ASSUME NEW text, IsList(text), \A i \in 1..Len(text) : text[i] \in DecimalDigits
  PROVE  \E num : NumbersBy(text, num)
<1> DEFINE N == Len(text)
           V == Nat
           base == 0
           step == [m \in (1..N) \X V |-> (10 * m[2] + Value(text[m[1]]))]
           Iter(g) == g = [s \in SUBSET (1..N) |->
                             IF s = {} THEN base ELSE (10 * g[s \ {Max(s)}] + Value(text[Max(s)]))]
<1>1. N \in Nat /\ DOMAIN text = 1..N /\ \A i \in 1..N : text[i] \in DecimalDigits
  BY ListIs
<1>2. ASSUME NEW v \in V, NEW c \in DecimalDigits PROVE (10 * v + Value(c)) \in V
  <2>1. Value(c) \in 0..9
    BY ValueIs
  <2> QED
    BY <2>1
<1>4. base \in V
  OBVIOUS
<1>3. step \in [(1..N) \X V -> V]
  <2>1. ASSUME NEW m \in (1..N) \X V PROVE (10 * m[2] + Value(text[m[1]])) \in V
    BY <1>1, <1>2
  <2> QED
    BY <2>1
<1>5. PICK it \in [SUBSET (1..N) -> V] : Folded(N, base, step, it)
  <2> HIDE DEF N, V, step, base
  <2> QED
    BY <1>1, <1>3, <1>4, FoldExists
<1>6. Iter(it)
  <2>1. ASSUME NEW s \in SUBSET (1..N), s # {}
        PROVE  step[<<Max(s), it[s \ {Max(s)}]>>] = (10 * it[s \ {Max(s)}] + Value(text[Max(s)]))
    <3>1. Max(s) \in s
      BY <1>1, <2>1, GreatestIndex
    <3>2. s \ {Max(s)} \in SUBSET (1..N) /\ Max(s) \in 1..N
      BY <3>1
    <3>3. <<Max(s), it[s \ {Max(s)}]>> \in (1..N) \X V
      BY <1>5, <3>2
    <3> QED
      BY <3>3
  <2> HIDE DEF step, V, N, base
  <2> QED
    BY <1>5, <2>1 DEF Folded
<1> DEFINE iter == CHOOSE g : Iter(g)
<1>7. Iter(iter)
  <2> HIDE DEF Iter
  <2> QED
    BY <1>6
<1>8. Number(text) = iter[1..N]
  BY <1>1 DEF Number, FoldLeft, MapThenFoldSet
<1> HIDE DEF iter
<1> DEFINE num == [n \in 0..N |-> iter[1..n]]
<1>9. num[0] = base
  <2>1. 1..0 = {} /\ {} \in SUBSET (1..N) /\ 0 \in 0..N
    BY <1>1
  <2> HIDE DEF base
  <2> QED
    BY <1>7, <2>1
<1>10. ASSUME NEW n \in 1..N PROVE num[n] = (10 * num[n - 1] + Value(text[n]))
  <2>1. 1..n \in SUBSET (1..N) /\ 1..n # {} /\ Max(1..n) = n /\ (1..n) \ {n} = 1..(n - 1)
    BY <1>1, FirstNumbers
  <2>2. iter[1..n] = (10 * iter[(1..n) \ {Max(1..n)}] + Value(text[Max(1..n)]))
    <3> HIDE DEF N, base
    <3> QED
      BY <1>7, <2>1
  <2>3. n \in 0..N /\ n - 1 \in 0..N
    BY <1>1
  <2> QED
    BY <2>1, <2>2, <2>3
<1> HIDE DEF num
<1>11. \A n \in 0..N : num[n] \in V
  <2> DEFINE Good == {n \in Nat : n <= N => num[n] \in V}
  <2>1. 0 \in Good
    BY <1>4, <1>9
  <2>2. ASSUME NEW n \in Nat, n \in Good PROVE n + 1 \in Good
    <3>1. SUFFICES ASSUME n + 1 <= N PROVE num[n + 1] \in V
      OBVIOUS
    <3>2. num[n] \in V /\ n + 1 \in 1..N /\ (n + 1) - 1 = n
      BY <1>1, <2>2, <3>1
    <3> HIDE DEF V
    <3> QED
      BY <1>1, <1>2, <1>10, <3>2
  <2>3. Nat \subseteq Good
    <3> HIDE DEF Good
    <3> QED
      BY <2>1, <2>2, Induction
  <2> QED
    BY <1>1, <2>3
<1>12. num \in [0..N -> V] /\ Number(text) = num[N]
  BY <1>1, <1>8, <1>11 DEF num
<1>13. NumbersBy(text, num)
  BY <1>9, <1>10, <1>12 DEF NumbersBy
<1> QED
  BY <1>13

LEMMA TensAre ==
  /\ Tens[1] = 1 /\ Tens[2] = 10 /\ Tens[3] = 100 /\ Tens[4] = 1000 /\ Tens[5] = 10000
  /\ \A k \in 1..5 : Tens[k] \in Nat \ {0}
<1>1. Tens[1] = 1 /\ Tens[2] = 10 /\ Tens[3] = 100 /\ Tens[4] = 1000 /\ Tens[5] = 10000
  BY DEF Tens
<1>2. \A k \in 1..5 : k = 1 \/ k = 2 \/ k = 3 \/ k = 4 \/ k = 5
  OBVIOUS
<1> QED
  BY <1>1, <1>2

\* A decimal has no more digits than its number, below 100000.
LEMMA DecimalDigitsOf ==
  ASSUME NEW n
  PROVE  \E w \in 1..5 : /\ IsList(Decimal(n)) /\ Len(Decimal(n)) = w
                         /\ \A i \in 1..w : Decimal(n)[i] = Digits[((n \div Tens[w - i + 1]) % 10) + 1]
                         /\ (w < 5 => ~(Tens[w + 1] <= n)) /\ (w = 1 \/ Tens[w] <= n)
<1> DEFINE T == {k \in 1..5 : k = 1 \/ Tens[k] <= n}
           w == Max(T)
           t == [i \in 1..w |-> Digits[((n \div Tens[w - i + 1]) % 10) + 1]]
<1>1. T \in SUBSET (1..5) /\ T # {}
  OBVIOUS
<1>2. w \in 1..5 /\ w \in T /\ \A k \in T : k <= w
  <2> HIDE DEF T
  <2>1. Max(T) \in T /\ \A k \in T : k <= Max(T)
    <3>1. 5 \in Nat
      OBVIOUS
    <3> QED
      BY <1>1, <3>1, GreatestIndex
  <2>2. Max(T) \in 1..5
    BY <1>1, <2>1
  <2> QED
    BY <2>1, <2>2, Zenon
<1>3. Decimal(n) = t
  BY DEF Decimal
<1>41. w = 1 \/ Tens[w] <= n
  BY <1>2
<1>4. w < 5 => ~(Tens[w + 1] <= n)
  <2>1. SUFFICES ASSUME w < 5, Tens[w + 1] <= n PROVE FALSE
    OBVIOUS
  <2> HIDE DEF w
  <2>2. w + 1 \in 1..5 /\ ~(w + 1 <= w)
    BY <1>2, <2>1
  <2>3. w + 1 \in T
    BY <2>1, <2>2
  <2> QED
    BY <1>2, <2>2, <2>3
<1> HIDE DEF w
<1>5. t = [i \in 1..w |-> t[i]] /\ \A i \in 1..w : t[i] = Digits[((n \div Tens[w - i + 1]) % 10) + 1]
  OBVIOUS
<1> HIDE DEF t
<1>6. IsList(t) /\ Len(t) = w
  <2>1. w \in Nat
    BY <1>2
  <2> QED
    BY <1>5, <2>1, ListMade
<1>7. IsList(t) /\ Len(t) = w /\ w \in 1..5 /\ (w < 5 => ~(Tens[w + 1] <= n)) /\ (w = 1 \/ Tens[w] <= n)
  BY <1>2, <1>4, <1>41, <1>6
<1>8. \E x \in 1..5 : /\ IsList(t) /\ Len(t) = x
                      /\ \A i \in 1..x : t[i] = Digits[((n \div Tens[x - i + 1]) % 10) + 1]
                      /\ (x < 5 => ~(Tens[x + 1] <= n)) /\ (x = 1 \/ Tens[x] <= n)
  BY <1>2, <1>5, <1>7
<1> QED
  BY <1>3, <1>8

\* The powers of ten, also the one that no number here reaches.
Power(k) == IF k = 6 THEN 100000 ELSE Tens[k]

\* A digit more of a number.
LEMMA DigitSteps ==
  ASSUME NEW n \in Nat
  PROVE  /\ n \div Power(1) = n
         /\ \A k \in 1..5 : 10 * (n \div Power(k + 1)) + ((n \div Power(k)) % 10) = n \div Power(k)
         /\ \A k \in 1..6 : n < Power(k) => n \div Power(k) = 0
<1>1. /\ Power(1) = 1 /\ Power(2) = 10 /\ Power(3) = 100 /\ Power(4) = 1000
      /\ Power(5) = 10000 /\ Power(6) = 100000
  BY TensAre DEF Power
<1> HIDE DEF Power
<1>2. n \div Power(1) = n
  <2>1. n \div 1 = n
    OBVIOUS
  <2> QED
    BY <1>1, <2>1
<1>3. ASSUME NEW m \in Nat \ {0} PROVE 10 * (n \div (10 * m)) + ((n \div m) % 10) = n \div m
  <2> DEFINE q == n \div m
             r == n % m
  <2>1. q \in Nat /\ r \in 0..(m - 1) /\ n = q * m + r
    OBVIOUS
  <2> HIDE DEF q, r
  <2> DEFINE a == q \div 10
             b == q % 10
  <2>2. a \in Nat /\ b \in 0..9 /\ q = 10 * a + b
    BY <2>1
  <2> HIDE DEF a, b
  <2>3. n = a * (10 * m) + (b * m + r) /\ b * m + r \in Nat /\ b * m + r < 10 * m
    <3> DEFINE x == q * m
               y == b * m
               z == a * (10 * m)
    <3>1. x = z + y
      BY <2>2
    <3>2. y \in Nat /\ y <= 9 * m
      BY <2>2
    <3>3. n = x + r /\ z \in Nat
      BY <2>1, <2>2
    <3> HIDE DEF x, y, z
    <3>4. n = z + (y + r) /\ y + r \in Nat /\ y + r < 10 * m
      BY <2>1, <3>1, <3>2, <3>3
    <3> QED
      BY <3>4 DEF y, z
  <2>4. n \div (10 * m) = a
    <3> DEFINE t == 10 * m
               u == b * m + r
    <3>1. t \in Nat \ {0}
      OBVIOUS
    <3>2. n = a * t + u /\ u \in Nat /\ u < t
      BY <2>3
    <3> HIDE DEF t, u
    <3>3. n \div t = a
      BY <2>2, <3>1, <3>2
    <3> QED
      BY <3>3 DEF t
  <2> QED
    BY <2>2, <2>4 DEF q, b
<1>4. ASSUME NEW k \in 1..5
      PROVE  10 * (n \div Power(k + 1)) + ((n \div Power(k)) % 10) = n \div Power(k)
  <2>1. Power(k) \in Nat \ {0} /\ Power(k + 1) = 10 * Power(k)
    <3>1. k = 1 \/ k = 2 \/ k = 3 \/ k = 4 \/ k = 5
      OBVIOUS
    <3> QED
      BY <1>1, <3>1
  <2> QED
    BY <1>3, <2>1
<1>5. ASSUME NEW k \in 1..6, n < Power(k) PROVE n \div Power(k) = 0
  <2>1. Power(k) \in Nat \ {0}
    <3>1. k = 1 \/ k = 2 \/ k = 3 \/ k = 4 \/ k = 5 \/ k = 6
      OBVIOUS
    <3> QED
      BY <1>1, <3>1
  <2> DEFINE m == Power(k)
  <2> HIDE DEF m
  <2>2. n \div m = 0
    BY <1>5, <2>1 DEF m
  <2> QED
    BY <2>2 DEF m
<1> QED
  BY <1>2, <1>4, <1>5

\* A number is read as it was printed.
LEMMA DecimalRead ==
  ASSUME NEW n \in Nat, n <= 99999
  PROVE  /\ IsList(Decimal(n)) /\ Len(Decimal(n)) >= 1
         /\ \A i \in 1..Len(Decimal(n)) : Decimal(n)[i] \in DecimalDigits
         /\ Number(Decimal(n)) = n
<1> DEFINE t == Decimal(n)
<1>1. PICK w \in 1..5 : /\ IsList(t) /\ Len(t) = w
                        /\ \A i \in 1..w : t[i] = Digits[((n \div Tens[w - i + 1]) % 10) + 1]
                        /\ w < 5 => ~(Tens[w + 1] <= n)
  BY DecimalDigitsOf
<1> HIDE DEF t
<1>2. n < Power(w + 1)
  <2>1. CASE w = 5
    BY <2>1 DEF Power
  <2>2. CASE w < 5
    <3>1. w + 1 \in 1..5 /\ w + 1 # 6
      BY <2>2
    <3>2. Tens[w + 1] \in Nat
      BY <3>1, TensAre
    <3> QED
      BY <1>1, <2>2, <3>1, <3>2 DEF Power
  <2> QED
    BY <2>1, <2>2
<1>3. ASSUME NEW i \in 1..w
      PROVE  t[i] \in DecimalDigits /\ Value(t[i]) = (n \div Power(w - i + 1)) % 10
  <2>1. w - i + 1 \in 1..5 /\ Power(w - i + 1) = Tens[w - i + 1]
    BY DEF Power
  <2> DEFINE m == Tens[w - i + 1]
             k == (n \div m) % 10
  <2>2. m \in Nat \ {0}
    BY <2>1, TensAre
  <2>3. t[i] = Digits[k + 1]
    BY <1>1
  <2>4. k = (n \div Power(w - i + 1)) % 10
    BY <2>1
  <2> HIDE DEF m
  <2>5. k \in 0..9
    <3>1. n \div m \in Int
      BY <2>2
    <3> QED
      BY <3>1
  <2> HIDE DEF k
  <2>6. t[i] \in DecimalDigits /\ Value(t[i]) = k
    BY <2>3, <2>5, DigitValues
  <2> QED
    BY <2>4, <2>6
<1>4. PICK num : NumbersBy(t, num)
  BY <1>1, <1>3, NumberSteps
<1> DEFINE Good == {i \in Nat : i <= w => num[i] = n \div Power(w - i + 1)}
<1>5. 0 \in Good
  <2>1. num[0] = 0
    BY <1>4 DEF NumbersBy
  <2>2. w + 1 \in 1..6 /\ w - 0 + 1 = w + 1
    OBVIOUS
  <2>3. n \div Power(w + 1) = 0
    BY <1>2, <2>2, DigitSteps
  <2> QED
    BY <2>1, <2>2, <2>3
<1>6. ASSUME NEW i \in Nat, i \in Good PROVE i + 1 \in Good
  <2>1. SUFFICES ASSUME i + 1 <= w PROVE num[i + 1] = n \div Power(w - (i + 1) + 1)
    OBVIOUS
  <2> DEFINE k == w - (i + 1) + 1
  <2>2. i + 1 \in 1..w /\ (i + 1) - 1 = i /\ k \in 1..5 /\ w - i + 1 = k + 1
    BY <2>1
  <2>3. num[i] = n \div Power(k + 1)
    BY <1>6, <2>1, <2>2
  <2>4. num[i + 1] = 10 * num[(i + 1) - 1] + Value(t[i + 1])
    BY <1>1, <1>4, <2>2 DEF NumbersBy
  <2>5. Value(t[i + 1]) = (n \div Power(k)) % 10
    BY <1>3, <2>2
  <2>6. num[i + 1] = 10 * (n \div Power(k + 1)) + ((n \div Power(k)) % 10)
    BY <2>2, <2>3, <2>4, <2>5
  <2> HIDE DEF k
  <2>7. 10 * (n \div Power(k + 1)) + ((n \div Power(k)) % 10) = n \div Power(k)
    BY <2>2, DigitSteps
  <2> QED
    BY <2>6, <2>7 DEF k
<1>7. w \in Good
  <2>1. Nat \subseteq Good
    <3> HIDE DEF Good
    <3> QED
      BY <1>5, <1>6, Induction
  <2> QED
    BY <2>1
<1>8. Number(t) = n
  <2>1. w - w + 1 = 1 /\ num[w] = n \div Power(w - w + 1)
    BY <1>7
  <2>2. Number(t) = num[w]
    BY <1>1, <1>4 DEF NumbersBy
  <2> QED
    BY <2>1, <2>2, DigitSteps
<1> QED
  BY <1>1, <1>3, <1>8 DEF t

-----------------------------------------------------------------------------
\* The path of a link to a list is sent, split and decoded.

\* A word of a path that needs no escape and is no separator.
IsBlank(c) == c = " "

Word(c) == ~IsBlank(c) /\ c \notin {"%", "+", "NUL", "/", "."}

\* No directory of the path is of dots only.
Undotted(path) == \A i \in DOMAIN Parts(path) : ~IsDots(Parts(path)[i])

LEMMA BrowsedPath ==
  ASSUME NEW path, NEW args
  PROVE  /\ Browse(Url(path, args)) = Url(Sendable(Resolved(path)), args)
         /\ Undotted(path) => Browse(Url(path, args)) = Url(Sendable(path), args)
<1> DEFINE u == Url(path, args)
           f == Sendable(Resolved(path))
<1>1. u.path = path
  BY DEF Url
<1>2. Browse(u) = [u EXCEPT !.path = f]
  <2> HIDE DEF u
  <2> QED
    BY <1>1 DEF Browse
<1> HIDE DEF f
<1>3. [u EXCEPT !.path = f] = Url(f, args)
  BY DEF Url
<1>4. Undotted(path) => Resolved(path) = path
  BY DEF Undotted, Resolved
<1> QED
  BY <1>2, <1>3, <1>4 DEF f

LEMMA PlainBrowsed ==
  ASSUME NEW path, IsList(path), Undotted(path), \A i \in 1..Len(path) : ~IsBlank(path[i]), NEW args
  PROVE  Browse(Url(path, args)) = Url(path, args)
<1> DEFINE sent == [i \in DOMAIN path |-> IF path[i] = " " THEN <<"%", "2", "0">> ELSE <<path[i]>>]
           same == [i \in DOMAIN path |-> <<path[i]>>]
<1>1. sent = same
  <2>1. \A i \in DOMAIN path : ~(path[i] = " ")
    <3>1. DOMAIN path = 1..Len(path)
      BY ListIs
    <3> QED
      BY <3>1, Zenon DEF IsBlank
  <2> QED
    BY <2>1, Zenon
<1>2. Sendable(path) = FlattenSeq(sent)
  BY Zenon DEF Sendable
<1> HIDE DEF sent, same
<1>3. FlattenSeq(sent) = path
  BY <1>1, FlatSingles DEF same
<1> QED
  BY <1>2, <1>3, BrowsedPath

\* A path of one word, and one of two words.
LEMMA SplitOne ==
  ASSUME NEW path, IsList(path), Len(path) = 2, NEW sep, path[1] = sep, path[2] # sep
  PROVE  Split(path, sep) = << <<>>, <<path[2]>> >>
<1>1. PICK parts : SplitsBy(path, sep, parts)
  BY SplitSteps
<1>2. /\ parts[0] = << <<>> >> /\ Split(path, sep) = parts[2]
      /\ parts[1] = CutAt(parts[0], path[1], sep) /\ parts[2] = CutAt(parts[1], path[2], sep)
  <2>1. 1 \in 1..Len(path) /\ 2 \in 1..Len(path) /\ 1 - 1 = 0 /\ 2 - 1 = 1
    OBVIOUS
  <2> QED
    BY <1>1, <2>1 DEF SplitsBy
<1>3. parts[1] = << <<>>, <<>> >>
  <2>1. parts[1] = Append(parts[0], <<>>)
    BY <1>2 DEF CutAt
  <2>2. parts[0] = << <<>> >>
    BY <1>2
  <2> DEFINE e == <<>>
  <2>3. parts[1] = Append(<<e>>, e)
    BY <2>1, <2>2
  <2> HIDE DEF e
  <2>4. parts[1] = <<e, e>>
    BY <2>3, AppendedOne
  <2> QED
    BY <2>4 DEF e
<1>4. parts[2] = << <<>>, <<path[2]>> >>
  <2> DEFINE c == path[2]
             t == << <<>>, <<>> >>
  <2>1. parts[2] = CutAt(t, c, sep) /\ c # sep
    BY <1>2, <1>3
  <2> HIDE DEF c
  <2>2. CutAt(t, c, sep) = << <<>>, <<c>> >>
    BY <2>1 DEF CutAt
  <2> QED
    BY <2>1, <2>2 DEF c
<1> QED
  BY <1>2, <1>4

LEMMA SplitTwo ==
  ASSUME NEW path, IsList(path), Len(path) = 4, NEW sep, path[1] = sep, path[2] # sep, path[3] = sep,
             path[4] # sep
  PROVE  Split(path, sep) = << <<>>, <<path[2]>>, <<path[4]>> >>
<1>1. PICK parts : SplitsBy(path, sep, parts)
  BY SplitSteps
<1>2. /\ parts[0] = << <<>> >> /\ Split(path, sep) = parts[4]
      /\ parts[1] = CutAt(parts[0], path[1], sep) /\ parts[2] = CutAt(parts[1], path[2], sep)
      /\ parts[3] = CutAt(parts[2], path[3], sep) /\ parts[4] = CutAt(parts[3], path[4], sep)
  <2>1. /\ 1 \in 1..Len(path) /\ 2 \in 1..Len(path) /\ 3 \in 1..Len(path) /\ 4 \in 1..Len(path)
        /\ 1 - 1 = 0 /\ 2 - 1 = 1 /\ 3 - 1 = 2 /\ 4 - 1 = 3
    OBVIOUS
  <2> QED
    BY <1>1, <2>1 DEF SplitsBy
<1> DEFINE b == path[2]
           c == path[4]
<1>3. parts[1] = << <<>>, <<>> >>
  <2>1. parts[1] = Append(parts[0], <<>>)
    BY <1>2 DEF CutAt
  <2>2. parts[0] = << <<>> >>
    BY <1>2
  <2> DEFINE e == <<>>
  <2>3. parts[1] = Append(<<e>>, e)
    BY <2>1, <2>2
  <2> HIDE DEF e
  <2>4. parts[1] = <<e, e>>
    BY <2>3, AppendedOne
  <2> QED
    BY <2>4 DEF e
<1>4. parts[2] = << <<>>, <<b>> >>
  <2> DEFINE t == << <<>>, <<>> >>
  <2>1. parts[2] = CutAt(t, b, sep) /\ b # sep
    BY <1>2, <1>3
  <2> HIDE DEF b
  <2>2. CutAt(t, b, sep) = << <<>>, <<b>> >>
    BY <2>1 DEF CutAt
  <2> QED
    BY <2>1, <2>2
<1>5. parts[3] = << <<>>, <<b>>, <<>> >>
  <2> HIDE DEF b
  <2>2. parts[3] = Append(parts[2], <<>>)
    BY <1>2 DEF CutAt
  <2> DEFINE e == <<>>
             f == <<b>>
  <2>1. parts[3] = Append(<<e, f>>, e)
    BY <1>4, <2>2
  <2> HIDE DEF e, f
  <2>3. parts[3] = <<e, f, e>>
    BY <2>1, AppendedTwo
  <2> QED
    BY <2>3 DEF e, f
<1>6. parts[4] = << <<>>, <<b>>, <<c>> >>
  <2> DEFINE t == << <<>>, <<b>>, <<>> >>
  <2>1. parts[4] = CutAt(t, c, sep) /\ c # sep
    BY <1>2, <1>5
  <2> HIDE DEF b, c
  <2>2. CutAt(t, c, sep) = << <<>>, <<b>>, <<c>> >>
    BY <2>1 DEF CutAt
  <2> QED
    BY <2>1, <2>2
<1> QED
  BY <1>2, <1>6

LEMMA WordDecoded == ASSUME NEW w, Word(w) PROVE UrlDecode(<<w>>) = <<w>>
<1> DEFINE t == <<w>>
<1>1. IsList(t) /\ Len(t) = 1 /\ t[1] = w
  BY Single
<1>2. w \notin {"%", "+", "NUL"}
  BY DEF Word
<1> HIDE DEF t
<1>3. \A i \in 1..Len(t) : t[i] \notin {"%", "+", "NUL"}
  BY <1>1, <1>2
<1>4. UrlDecode(t) = t
  BY <1>1, <1>3, PlainDecoded
<1> QED
  BY <1>4 DEF t

LEMMA OneDir ==
  ASSUME NEW path, IsList(path), Len(path) = 2, path[1] = "/", NEW w, path[2] = w, Word(w)
  PROVE  Dirs(path) = << <<w>> >>
<1> DEFINE e == <<>>
           f == <<w>>
           parts == <<e, f>>
           kept == {i \in DOMAIN parts : parts[i] # <<>>}
           dirs == <<f>>
<1>1. Split(path, "/") = parts
  <2> DEFINE sep == "/"
  <2>1. w # sep
    BY DEF Word
  <2>2. path[1] = sep /\ path[2] # sep
    BY <2>1
  <2> HIDE DEF sep
  <2>3. Split(path, sep) = << <<>>, <<path[2]>> >>
    BY <2>2, SplitOne
  <2> QED
    BY <2>3 DEF sep
<1>2. e = <<>> /\ f # <<>>
  BY OneNotEmpty
<1>3. UrlDecode(f) = f
  BY WordDecoded
<1> HIDE DEF e, f
<1>4. 1 \notin kept /\ 2 \in kept
  BY <1>2
<1>5. Select(parts, kept) = dirs
  <2> HIDE DEF kept
  <2> QED
    BY <1>4, SecondKept
<1>6. dirs # <<>> /\ IsList(dirs) /\ Len(dirs) = 1 /\ dirs[1] = f /\ DOMAIN dirs = 1..1
  <2>1. IsList(dirs) /\ Len(dirs) = 1 /\ dirs[1] = f
    BY Single
  <2> QED
    BY <2>1, OneNotEmpty, ListIs
<1> DEFINE u == [i \in DOMAIN dirs |-> UrlDecode(dirs[i])]
<1>7. Dirs(path) = u
  <2>1. Dirs(path) = IF Select(parts, kept) = <<>> THEN << <<>> >>
                     ELSE [i \in DOMAIN Select(parts, kept) |-> UrlDecode(Select(parts, kept)[i])]
    BY <1>1 DEF Dirs, Parts
  <2> HIDE DEF parts, kept
  <2> QED
    BY <1>5, <1>6, <2>1
<1>8. u = [i \in 1..1 |-> UrlDecode(dirs[i])]
  BY <1>6
<1>9. u = [i \in 1..1 |-> u[i]] /\ u[1] = f
  BY <1>3, <1>6, <1>8
<1> HIDE DEF u, dirs
<1>10. IsList(u) /\ Len(u) = 1
  BY <1>9, ListMade
<1>11. u = dirs
  BY <1>6, <1>9, <1>10, ListsSame
<1> QED
  BY <1>7, <1>11 DEF dirs, f

LEMMA TwoDirs ==
  ASSUME NEW path, IsList(path), Len(path) = 4, path[1] = "/", path[3] = "/",
         NEW v, path[2] = v, Word(v), NEW w, path[4] = w, Word(w)
  PROVE  Dirs(path) = << <<v>>, <<w>> >>
<1> DEFINE e == <<>>
           f == <<v>>
           g == <<w>>
           parts == <<e, f, g>>
           kept == {i \in DOMAIN parts : parts[i] # <<>>}
           dirs == <<f, g>>
<1>1. Split(path, "/") = parts
  <2> DEFINE sep == "/"
  <2>1. w # sep /\ v # sep
    BY DEF Word
  <2>2. path[1] = sep /\ path[2] # sep /\ path[3] = sep /\ path[4] # sep
    BY <2>1
  <2> HIDE DEF sep
  <2>3. Split(path, sep) = << <<>>, <<path[2]>>, <<path[4]>> >>
    BY <2>2, SplitTwo
  <2> QED
    BY <2>3 DEF sep
<1>2. e = <<>> /\ f # <<>> /\ g # <<>>
  BY OneNotEmpty
<1>3. UrlDecode(f) = f /\ UrlDecode(g) = g
  BY WordDecoded
<1> HIDE DEF e, f, g
<1>4. 1 \notin kept /\ 2 \in kept /\ 3 \in kept
  BY <1>2
<1>5. Select(parts, kept) = dirs
  <2> HIDE DEF kept
  <2> QED
    BY <1>4, LastTwoKept
<1>6. dirs # <<>> /\ IsList(dirs) /\ Len(dirs) = 2 /\ dirs[1] = f /\ dirs[2] = g /\ DOMAIN dirs = 1..2
  <2>1. IsList(dirs) /\ Len(dirs) = 2 /\ dirs[1] = f /\ dirs[2] = g
    BY Pair
  <2>2. dirs # <<>>
    BY <2>1, EmptyList
  <2> QED
    BY <2>1, <2>2, ListIs
<1> DEFINE u == [i \in DOMAIN dirs |-> UrlDecode(dirs[i])]
<1>7. Dirs(path) = u
  <2>1. Dirs(path) = IF Select(parts, kept) = <<>> THEN << <<>> >>
                     ELSE [i \in DOMAIN Select(parts, kept) |-> UrlDecode(Select(parts, kept)[i])]
    BY <1>1 DEF Dirs, Parts
  <2> HIDE DEF parts, kept
  <2> QED
    BY <1>5, <1>6, <2>1
<1>8. u = [i \in 1..2 |-> UrlDecode(dirs[i])]
  BY <1>6
<1>9. u = [i \in 1..2 |-> u[i]] /\ u[1] = f /\ u[2] = g
  BY <1>3, <1>6, <1>8
<1> HIDE DEF u, dirs
<1>10. IsList(u) /\ Len(u) = 2
  BY <1>9, ListMade
<1>11. \A i \in 1..2 : u[i] = dirs[i]
  BY <1>6, <1>9
<1>12. u = dirs
  BY <1>6, <1>10, <1>11, ListsSame
<1> QED
  BY <1>7, <1>12 DEF dirs, f, g

-----------------------------------------------------------------------------
\* ... and is routed to its list.

\* The route that is found in a list of routes, for a directory of one word.
Matches(r, name, onlyleaf) == ~(onlyleaf /\ r.routes # <<>>) /\ RouteMatch(r, name)

Finds(routes, name, onlyleaf, r) ==
    LET c == FindChildRoute(routes, name, onlyleaf)
    IN  c \in 1..Len(routes) /\ routes[c] = r

LEMMA FindsOnly ==
  ASSUME NEW routes, IsList(routes), NEW name, NEW onlyleaf, NEW r \in ToSet(routes),
             Matches(r, name, onlyleaf),
         \A q \in ToSet(routes) : Matches(q, name, onlyleaf) => q = r
  PROVE  Finds(routes, name, onlyleaf, r)
<1> DEFINE I == Candidates(routes, name, onlyleaf)
           c == FindChildRoute(routes, name, onlyleaf)
<1>1. ToSet(routes) = {routes[i] : i \in 1..Len(routes)}
  BY ListIs
<1>2. PICK k \in 1..Len(routes) : r = routes[k]
  BY <1>1
<1>3. k \in I
  BY <1>2 DEF Candidates, Matches
<1>4. c \in I /\ c \in 1..Len(routes)
  BY <1>3, ChildFound
<1> HIDE DEF c
<1>5. Matches(routes[c], name, onlyleaf) /\ routes[c] \in ToSet(routes)
  BY <1>1, <1>4 DEF Candidates, Matches
<1> QED
  BY <1>4, <1>5 DEF Finds, c

\* The first route that matches is found.
LEMMA FindsFirst ==
  ASSUME NEW a, IsList(a), NEW b, IsList(b), NEW name, NEW onlyleaf, NEW r, Finds(a, name, onlyleaf, r)
  PROVE  Finds(a \o b, name, onlyleaf, r) /\ IsList(a \o b)
<1> DEFINE s == a \o b
           c == FindChildRoute(a, name, onlyleaf)
           d == FindChildRoute(s, name, onlyleaf)
<1>1. /\ IsList(s) /\ Len(a) \in Nat /\ Len(b) \in Nat /\ Len(s) = Len(a) + Len(b)
      /\ \A i \in 1..(Len(a) + Len(b)) : s[i] = IF i <= Len(a) THEN a[i] ELSE b[i - Len(a)]
  BY JoinedLists
<1> HIDE DEF s
<1>2. c \in 1..Len(a) /\ a[c] = r
  BY DEF Finds
<1>3. c \in Candidates(a, name, onlyleaf) /\ \A i \in Candidates(a, name, onlyleaf) : c <= i
  <2>1. Candidates(a, name, onlyleaf) # {}
    <3>1. c # 0
      BY <1>1, <1>2
    <3> HIDE DEF c
    <3> QED
      BY <3>1, ChildFound DEF c
  <2> QED
    BY <2>1, ChildFound
<1>4. \A i \in 1..Len(a) : i \in 1..Len(s) /\ s[i] = a[i]
  BY <1>1
<1> HIDE DEF c
<1>5. c \in Candidates(s, name, onlyleaf)
  BY <1>2, <1>3, <1>4 DEF Candidates
<1>6. d \in Candidates(s, name, onlyleaf) /\ d \in 1..Len(s) /\ d <= c
  BY <1>1, <1>5, ChildFound
<1> HIDE DEF d
<1>7. d \in 1..Len(a)
  BY <1>1, <1>2, <1>6
<1>8. d \in Candidates(a, name, onlyleaf)
  BY <1>4, <1>6, <1>7 DEF Candidates
<1>9. d = c
  BY <1>1, <1>2, <1>3, <1>6, <1>7, <1>8
<1>10. d \in 1..Len(s) /\ s[d] = r
  BY <1>2, <1>4, <1>6, <1>9
<1> QED
  BY <1>1, <1>10 DEF Finds, d, s

LEMMA WordMatches ==
  ASSUME NEW w, Word(w), NEW name, NEW ext \in {<<>>, HtmlExt, JsonExt, SvgExt}, NEW page, NEW routes
  PROVE  Matches(Route(name, ext, page, routes), <<w>>, FALSE) <=> ext = <<>> /\ name \in {Star, <<w>>}
<1> DEFINE r == Route(name, ext, page, routes)
           t == <<w>>
<1>1. r.name = name /\ r.ext = ext /\ r.routes = routes
  BY DEF Route
<1> HIDE DEF r
<1>2. IsList(t) /\ Len(t) = 1 /\ t[1] = w
  BY Single
<1>3. w # "."
  BY DEF Word
<1> HIDE DEF t
<1>4. HasExtension(t, ext) <=> ext = <<>>
  <2>1. {i \in DOMAIN t : t[i] = "."} = {}
    <3>1. DOMAIN t = 1..1
      BY <1>2, ListIs
    <3> QED
      BY <1>2, <1>3, <3>1
  <2> QED
    BY <2>1 DEF HasExtension
<1>5. Cut(t, <<>>) = t
  BY <1>2, WholeCut
<1>6. RouteMatch(r, t) <=> ext = <<>> /\ name \in {Star, t}
  BY <1>1, <1>4, <1>5 DEF RouteMatch
<1>7. Matches(r, t, FALSE) <=> RouteMatch(r, t)
  BY DEF Matches
<1> QED
  BY <1>6, <1>7 DEF r, t

\* A leaf matches its name, with its extension or none.
LEMMA LeafMatches ==
  ASSUME NEW w, Word(w), NEW name, NEW ext \in {<<>>, HtmlExt, JsonExt, SvgExt}, NEW page, NEW routes
  PROVE  Matches(Route(name, ext, page, routes), <<w>>, TRUE)
           <=> ext = <<>> /\ name \in {Star, <<w>>} /\ routes = <<>>
<1> DEFINE r == Route(name, ext, page, routes)
           t == <<w>>
<1>1. r.routes = routes
  BY DEF Route
<1>2. Matches(r, t, FALSE) <=> ext = <<>> /\ name \in {Star, t}
  BY WordMatches
<1> HIDE DEF r, t
<1>3. Matches(r, t, FALSE) <=> RouteMatch(r, t)
  BY DEF Matches
<1>4. Matches(r, t, TRUE) <=> RouteMatch(r, t) /\ routes = <<>>
  BY <1>1 DEF Matches
<1> QED
  BY <1>2, <1>3, <1>4 DEF r, t

LEMMA WordsAre == Word("players") /\ Word("clans") /\ Word("servers") /\ Word("by-lastseen")
<1>1. /\ "players" # " " /\ "clans" # " " /\ "servers" # " " /\ "by-lastseen" # " "
  BY Zenon
<1>2. /\ ~IsBlank("players") /\ ~IsBlank("clans") /\ ~IsBlank("servers") /\ ~IsBlank("by-lastseen")
  BY <1>1, Zenon DEF IsBlank
<1>3. /\ "players" \notin {"%", "+", "NUL", "/", "."} /\ "clans" \notin {"%", "+", "NUL", "/", "."}
      /\ "servers" \notin {"%", "+", "NUL", "/", "."} /\ "by-lastseen" \notin {"%", "+", "NUL", "/", "."}
  OBVIOUS
<1> QED
  BY <1>2, <1>3 DEF Word

\* What has the route of a list and a word as its name, and no routes.
ListExtensions == {<<>>, HtmlExt, JsonExt, SvgExt}

IsLeafOf(r, t) == r.routes = <<>> /\ RouteMatch(r, t)

LeafRule(t) ==
    \A name, ext, page, routes :
        ext \in ListExtensions /\ IsLeafOf(Route(name, ext, page, routes), t)
          => ext = <<>> /\ name \in {Star, t} /\ routes = <<>>

LEMMA LeafMatch == \A r, t : Matches(r, t, TRUE) <=> IsLeafOf(r, t)
BY DEF Matches, IsLeafOf

LEMMA LeafIs == ASSUME NEW w, Word(w), NEW t, t = <<w>> PROVE LeafRule(t)
<1>1. SUFFICES ASSUME NEW name, NEW ext \in ListExtensions, NEW page, NEW routes,
                      IsLeafOf(Route(name, ext, page, routes), t)
               PROVE  ext = <<>> /\ name \in {Star, t} /\ routes = <<>>
  BY DEF LeafRule
<1> DEFINE r == Route(name, ext, page, routes)
<1>2. r.routes = routes
  BY DEF Route
<1>3. Matches(r, t, FALSE) <=> ext = <<>> /\ name \in {Star, t}
  BY WordMatches DEF ListExtensions
<1>4. IsLeafOf(r, t)
  BY <1>1
<1> HIDE DEF r
<1>5. RouteMatch(r, t) /\ routes = <<>>
  BY <1>2, <1>4 DEF IsLeafOf
<1>6. Matches(r, t, FALSE)
  BY <1>5 DEF Matches
<1> QED
  BY <1>3, <1>5, <1>6

LEMMA LeafHas ==
  ASSUME NEW w, Word(w), NEW name \in {Star, <<w>>}, NEW page
  PROVE  Matches(Route(name, <<>>, page, <<>>), <<w>>, TRUE)
BY LeafMatches

LEMMA SectionsNotEmpty == PlayersRoutes # <<>> /\ ClansRoutes # <<>> /\ ServersRoutes # <<>>
<1>1. ToSet(PlayersRoutes) # {} /\ ToSet(ClansRoutes) # {} /\ ToSet(ServersRoutes) # {}
  BY PlayersSet, ClansSet, ServersSet
<1>2. ToSet(<<>>) = {}
  BY EmptyList
<1>3. \A s : ToSet(s) # {} => s # <<>>
  BY <1>2
<1> HIDE DEF PlayersRoutes, ClansRoutes, ServersRoutes
<1> QED
  BY <1>1, <1>3

IsSection(w, page) == \/ w = "players" /\ page = "player_list"
                      \/ w = "clans" /\ page = "clan_list"
                      \/ w = "servers" /\ page = "server_list"

\* The section is a page, when it is the last directory ...
LEMMA SectionLeaf ==
  ASSUME NEW w, NEW page, IsSection(w, page)
  PROVE  Finds(Root, <<w>>, TRUE, Route(<<w>>, <<>>, page, <<>>))
<1> DEFINE r == Route(<<w>>, <<>>, page, <<>>)
           t == <<w>>
<1>1. Word(w)
  BY WordsAre DEF IsSection
<1>2. r \in ToSet(Root) /\ IsList(Root)
  <2>1. Route(<<"players">>, <<>>, "player_list", <<>>) \in ToSet(Root)
    BY RootSet
  <2>2. Route(<<"clans">>, <<>>, "clan_list", <<>>) \in ToSet(Root)
    BY RootSet
  <2>3. Route(<<"servers">>, <<>>, "server_list", <<>>) \in ToSet(Root)
    BY RootSet
  <2> QED
    BY <2>1, <2>2, <2>3, RootSet DEF IsSection
<1>3. LeafRule(t)
  BY <1>1, LeafIs
<1>4. HtmlExt # <<>>
  <2>1. Len(HtmlExt) = 2 /\ Len(<<>>) = 0
    BY Pair, EmptyList DEF HtmlExt
  <2> HIDE DEF HtmlExt
  <2> QED
    BY <2>1
<1>5. Matches(r, t, TRUE)
  BY <1>1, LeafHas
<1>6. ASSUME NEW q \in ToSet(Root), Matches(q, t, TRUE) PROVE q = r
  <2>1. \E name, ext, p, routes :
           /\ q = Route(name, ext, p, routes) /\ ext \in {<<>>, HtmlExt}
           /\ \/ ext = HtmlExt
              \/ ext = <<>> /\ \/ routes \in {PlayersRoutes, ClansRoutes, ServersRoutes}
                               \/ name \in {<<"search">>, <<"pages">>, <<"player">>, <<"clan">>,
                                    <<"server">>, <<>>}
                               \/ routes = <<>> /\ name = <<"players">> /\ p = "player_list"
                               \/ routes = <<>> /\ name = <<"clans">> /\ p = "clan_list"
                               \/ routes = <<>> /\ name = <<"servers">> /\ p = "server_list"
    BY RootSet
  <2>2. PICK name, ext, p, routes :
           /\ q = Route(name, ext, p, routes) /\ ext \in {<<>>, HtmlExt}
           /\ \/ ext = HtmlExt
              \/ ext = <<>> /\ \/ routes \in {PlayersRoutes, ClansRoutes, ServersRoutes}
                               \/ name \in {<<"search">>, <<"pages">>, <<"player">>, <<"clan">>,
                                    <<"server">>, <<>>}
                               \/ routes = <<>> /\ name = <<"players">> /\ p = "player_list"
                               \/ routes = <<>> /\ name = <<"clans">> /\ p = "clan_list"
                               \/ routes = <<>> /\ name = <<"servers">> /\ p = "server_list"
    BY <2>1
  <2>3. ext = <<>> /\ name \in {Star, t} /\ routes = <<>>
    <3> HIDE DEF t
    <3>1. ext \in ListExtensions
      BY <2>2 DEF ListExtensions
    <3>2. IsLeafOf(Route(name, ext, p, routes), t)
      BY <1>6, <2>2, LeafMatch
    <3> QED
      BY <1>3, <3>1, <3>2 DEF LeafRule
  <2>4. name \notin {<<"search">>, <<"pages">>, <<"player">>, <<"clan">>, <<"server">>, <<>>}
    <3>1. name[1] \notin {"search", "pages", "player", "clan", "server"} /\ Len(name) = 1
      BY <2>3 DEF Star, IsSection
    <3> QED
      BY <3>1
  <2>5. /\ routes = <<>>
        /\ \/ name = <<"players">> /\ p = "player_list"
           \/ name = <<"clans">> /\ p = "clan_list"
           \/ name = <<"servers">> /\ p = "server_list"
    BY <1>4, <2>2, <2>3, <2>4, SectionsNotEmpty
  <2>6. name = t /\ p = page
    <3>1. name[1] = "players" \/ name[1] = "clans" \/ name[1] = "servers"
      BY <2>5
    <3>2. name # Star
      BY <3>1 DEF Star
    <3>3. name = <<w>>
      BY <2>3, <3>2
    <3> QED
      BY <2>5, <3>3 DEF IsSection
  <2> QED
    BY <2>2, <2>3, <2>6
<1> HIDE DEF r, t
<1>7. Finds(Root, t, TRUE, r)
  BY <1>2, <1>5, <1>6, FindsOnly
<1> QED
  BY <1>7 DEF r, t

\* ... and is entered, when it is not.
LEMMA PlayersEntered == Finds(Root, <<"players">>, FALSE,
    Route(<<"players">>, <<>>, "", PlayersRoutes)) /\ IsList(Root)
<1> DEFINE t == <<"players">>
           r == Route(t, <<>>, "", PlayersRoutes)
           h1 == Html(<<"search">>, "search")
           h2 == Dir(<<"pages">>, Html(Star, "old_player_list"))
           h3 == Dir(<<"players">>, PlayersRoutes)
           a3 == h1 \o h2 \o h3
           h4 == Html(<<"players">>, "player_list")
           h5 == Dir(<<"player">>, PlayerRoutes)
           h6 == Dir(<<"clans">>, ClansRoutes)
           h7 == Html(<<"clans">>, "clan_list")
           h8 == Dir(<<"clan">>, Html(Star, "clan"))
           h9 == Dir(<<"servers">>, ServersRoutes)
           h10 == Html(<<"servers">>, "server_list")
           h11 == Dir(<<"server">>, Html(Star, "server"))
           h12 == Html(<<>>, "player_list")
           F(s) == Finds(s, t, FALSE, r) /\ IsList(s)
<1>1. IsList(h1) /\ ToSet(h1) = {Route(<<"search">>, HtmlExt, "search", <<>>),
          Route(<<"search">>, <<>>, "search", <<>>)}
  BY HtmlSet
<1>2. IsList(h2) /\ ToSet(h2) = {Route(<<"pages">>, <<>>, "", Html(Star, "old_player_list"))}
  BY DirSet
<1>3. IsList(h3) /\ ToSet(h3) = {r}
  BY DirSet
<1>4. /\ IsList(h4) /\ IsList(h5) /\ IsList(h6) /\ IsList(h7) /\ IsList(h8) /\ IsList(h9)
      /\ IsList(h10) /\ IsList(h11) /\ IsList(h12)
  BY HtmlSet, DirSet
<1>5. Root = a3 \o h4 \o h5 \o h6 \o h7 \o h8 \o h9 \o h10 \o h11 \o h12
  BY DEF Root
<1> HIDE DEF h1, h2, h3, h4, h5, h6, h7, h8, h9, h10, h11, h12
<1>6. IsList(a3) /\ ToSet(a3) = ToSet(h1) \cup ToSet(h2) \cup ToSet(h3)
  <2> DEFINE a2 == h1 \o h2
  <2>1. IsList(a2) /\ ToSet(a2) = ToSet(h1) \cup ToSet(h2)
    BY <1>1, <1>2, JoinedLists
  <2> HIDE DEF a2
  <2>2. IsList(a2 \o h3) /\ ToSet(a2 \o h3) = ToSet(a2) \cup ToSet(h3)
    BY <1>3, <2>1, JoinedLists
  <2> QED
    BY <2>1, <2>2 DEF a2
<1> HIDE DEF a3
<1>7. ASSUME NEW name, NEW p, NEW routes, NEW ext \in {<<>>, HtmlExt, JsonExt, SvgExt}
      PROVE  Matches(Route(name, ext, p, routes), t, FALSE) <=> ext = <<>> /\ name \in {Star, t}
  <2>1. Word("players")
    BY WordsAre
  <2> QED
    BY <2>1, WordMatches
<1>8. r \in ToSet(a3) /\ Matches(r, t, FALSE)
  BY <1>3, <1>6, <1>7
<1>9. <<"search">> \notin {Star, t} /\ <<"pages">> \notin {Star, t}
  BY DEF Star
<1>10. ASSUME NEW q \in ToSet(a3), Matches(q, t, FALSE) PROVE q = r
  <2>1. q \in ToSet(h1) => FALSE
    <3>1. SUFFICES ASSUME q \in ToSet(h1) PROVE FALSE
      OBVIOUS
    <3>2. \/ q = Route(<<"search">>, HtmlExt, "search", <<>>)
          \/ q = Route(<<"search">>, <<>>, "search", <<>>)
      BY <1>1, <3>1
    <3> QED
      BY <1>7, <1>9, <1>10, <3>2
  <2>2. q \in ToSet(h2) => FALSE
    <3>1. SUFFICES ASSUME q \in ToSet(h2) PROVE FALSE
      OBVIOUS
    <3>2. q = Route(<<"pages">>, <<>>, "", Html(Star, "old_player_list"))
      BY <1>2, <3>1
    <3> QED
      BY <1>7, <1>9, <1>10, <3>2
  <2> QED
    BY <1>3, <1>6, <2>1, <2>2
<1> HIDE DEF r, t
<1>11. F(a3)
  BY <1>6, <1>8, <1>10, FindsOnly
<1>12. ASSUME NEW a, F(a), NEW b, IsList(b) PROVE F(a \o b)
  BY <1>12, FindsFirst
<1> HIDE DEF F
<1>13. F(a3 \o h4 \o h5 \o h6)
  BY <1>4, <1>11, <1>12
<1> DEFINE a6 == a3 \o h4 \o h5 \o h6
<1> HIDE DEF a6
<1>14. F(a6 \o h7 \o h8 \o h9)
  BY <1>4, <1>12, <1>13 DEF a6
<1> DEFINE a9 == a6 \o h7 \o h8 \o h9
<1> HIDE DEF a9
<1>15. F(a9 \o h10 \o h11 \o h12)
  BY <1>4, <1>12, <1>14 DEF a9
<1>16. F(Root)
  BY <1>5, <1>15 DEF a6, a9
<1> QED
  BY <1>16 DEF F, r, t

\* The list by the date of the last game is found before the player who would have that name.
LEMMA LastSeenFound ==
  /\ Finds(PlayersRoutes, <<"by-lastseen">>, TRUE, Route(<<"by-lastseen">>, <<>>, "player_list", <<>>))
  /\ IsList(PlayersRoutes)
<1> DEFINE t == <<"by-lastseen">>
           r == Route(t, <<>>, "player_list", <<>>)
           h1 == Html(<<"search">>, "search")
           h2 == Html(<<"by-rank">>, "player_list")
           h3 == Json(<<"by-rank">>, "json_player_list")
           h4 == Html(<<"by-lastseen">>, "player_list")
           a4 == h1 \o h2 \o h3 \o h4
           h5 == Json(<<"by-lastseen">>, "json_player_list")
           h6 == Json(Star, "json_player")
           h7 == Dir(Star, Svg(<<"elo", " ", "rank">>, "old_graph"))
           h8 == Html(Star, "old_player")
           F(s) == Finds(s, t, TRUE, r) /\ IsList(s)
<1>1. IsList(h1) /\ ToSet(h1) = {Route(<<"search">>, HtmlExt, "search", <<>>),
          Route(<<"search">>, <<>>, "search", <<>>)}
  BY HtmlSet
<1>2. IsList(h2) /\ ToSet(h2) = {Route(<<"by-rank">>, HtmlExt, "player_list", <<>>),
          Route(<<"by-rank">>, <<>>, "player_list", <<>>)}
  BY HtmlSet
<1>3. IsList(h3) /\ ToSet(h3) = {Route(<<"by-rank">>, JsonExt, "json_player_list", <<>>)}
  BY JsonSet
<1>4. IsList(h4) /\ ToSet(h4) = {Route(t, HtmlExt, "player_list", <<>>), r}
  BY HtmlSet
<1>5. IsList(h5) /\ IsList(h6) /\ IsList(h7) /\ IsList(h8)
  BY HtmlSet, DirSet, JsonSet
<1>6. PlayersRoutes = a4 \o h5 \o h6 \o h7 \o h8
  BY DEF PlayersRoutes
<1> HIDE DEF h1, h2, h3, h4, h5, h6, h7, h8
<1>7. IsList(a4) /\ ToSet(a4) = ToSet(h1) \cup ToSet(h2) \cup ToSet(h3) \cup ToSet(h4)
  <2> DEFINE a2 == h1 \o h2
             a3 == a2 \o h3
  <2>1. IsList(a2) /\ ToSet(a2) = ToSet(h1) \cup ToSet(h2)
    BY <1>1, <1>2, JoinedLists
  <2> HIDE DEF a2
  <2>2. IsList(a3) /\ ToSet(a3) = ToSet(a2) \cup ToSet(h3)
    BY <1>3, <2>1, JoinedLists
  <2> HIDE DEF a3
  <2>3. IsList(a3 \o h4) /\ ToSet(a3 \o h4) = ToSet(a3) \cup ToSet(h4)
    BY <1>4, <2>2, JoinedLists
  <2> QED
    BY <2>1, <2>2, <2>3 DEF a2, a3
<1> HIDE DEF a4
<1>8. Word("by-lastseen")
  BY WordsAre
<1>81. LeafRule(t)
  BY <1>8, LeafIs
<1>9. r \in ToSet(a4) /\ Matches(r, t, TRUE)
  BY <1>4, <1>7, <1>8, LeafHas
<1>10. <<"search">> \notin {Star, t} /\ <<"by-rank">> \notin {Star, t}
  BY DEF Star
<1>11. HtmlExt # <<>> /\ JsonExt # <<>>
  <2>1. Len(HtmlExt) = 2 /\ Len(JsonExt) = 2 /\ Len(<<>>) = 0
    BY Pair, EmptyList DEF HtmlExt, JsonExt
  <2> HIDE DEF HtmlExt, JsonExt
  <2> QED
    BY <2>1
<1>12. ASSUME NEW q \in ToSet(a4), Matches(q, t, TRUE) PROVE q = r
  <2>1. \/ q = Route(<<"search">>, HtmlExt, "search", <<>>)
        \/ q = Route(<<"search">>, <<>>, "search", <<>>)
        \/ q = Route(<<"by-rank">>, HtmlExt, "player_list", <<>>)
        \/ q = Route(<<"by-rank">>, <<>>, "player_list", <<>>)
        \/ q = Route(<<"by-rank">>, JsonExt, "json_player_list", <<>>)
        \/ q = Route(t, HtmlExt, "player_list", <<>>)
        \/ q = r
    BY <1>1, <1>2, <1>3, <1>4, <1>7
  <2> HIDE DEF t, r
  <2> QED
    BY <1>81, <1>10, <1>11, <1>12, <2>1, LeafMatch DEF LeafRule, ListExtensions
<1> HIDE DEF r, t
<1>13. F(a4)
  BY <1>7, <1>9, <1>12, FindsOnly
<1>14. ASSUME NEW a, F(a), NEW b, IsList(b) PROVE F(a \o b)
  BY <1>14, FindsFirst
<1> HIDE DEF F
<1>15. F(a4 \o h5 \o h6)
  BY <1>5, <1>13, <1>14
<1> DEFINE a6 == a4 \o h5 \o h6
<1> HIDE DEF a6
<1>16. F(a6 \o h7 \o h8)
  BY <1>5, <1>14, <1>15 DEF a6
<1>17. F(PlayersRoutes)
  BY <1>6, <1>16 DEF a6
<1> QED
  BY <1>17 DEF F, r, t

Entry(page, routes, dirs) == [page |-> page, routes |-> routes, dirs |-> dirs]

\* What is entered by a route without an extension.
LEMMA EnterFound ==
  ASSUME NEW v, NEW dirs, IsList(dirs), v.dirs = dirs, NEW i \in 1..Len(dirs), IsList(dirs[i]),
         NEW r, NEW c \in 1..Len(v.routes), v.routes[c] = r, r.ext = <<>>
  PROVE  Enter(v, i, c) = Entry(r.page, r.routes, dirs)
<1>2. c # 0
  OBVIOUS
<1>3. Cut(dirs[i], <<>>) = dirs[i]
  BY WholeCut
<1>4. [dirs EXCEPT ![i] = dirs[i]] = dirs
  <2>1. DOMAIN dirs = 1..Len(dirs) /\ dirs = [k \in DOMAIN dirs |-> dirs[k]]
    BY ListIs
  <2> QED
    BY <2>1
<1>5. Enter(v, i, c) = [page |-> v.routes[c].page, routes |-> v.routes[c].routes,
                        dirs |-> [dirs EXCEPT ![i] = Cut(dirs[i], v.routes[c].ext)]]
  BY <1>2 DEF Enter
<1>6. Enter(v, i, c) = [page |-> r.page, routes |-> r.routes,
          dirs |-> [dirs EXCEPT ![i] = Cut(dirs[i], r.ext)]]
  BY <1>5
<1>7. Enter(v, i, c) = [page |-> r.page, routes |-> r.routes, dirs |-> dirs]
  BY <1>3, <1>4, <1>6
<1> QED
  BY <1>7 DEF Entry

-----------------------------------------------------------------------------
\* A text in which no symbol is a blank.
NoBlanks(path) == \A i \in 1..Len(path) : ~IsBlank(path[i])

LEMMA SlashNotBlank == ~IsBlank("/")
<1>1. "/" # " "
  BY Zenon
<1> QED
  BY <1>1, Zenon DEF IsBlank

LEMMA WordNotBlank == ASSUME NEW w, Word(w) PROVE ~IsBlank(w)
  BY DEF Word

-----------------------------------------------------------------------------
\* Lists that are joined, and lists made of pieces.

LEMMA JoinedThree ==
  ASSUME NEW a, NEW b, NEW c, IsList(a), IsList(b), IsList(c)
  PROVE  /\ IsList(a \o b) /\ IsList(b \o c) /\ IsList((a \o b) \o c)
         /\ (a \o b) \o c = a \o (b \o c)
<1> DEFINE s == a \o b
           t == b \o c
<1>1. /\ IsList(s) /\ Len(s) = Len(a) + Len(b)
      /\ \A i \in 1..(Len(a) + Len(b)) : s[i] = IF i <= Len(a) THEN a[i] ELSE b[i - Len(a)]
  BY JoinedLists
<1>2. /\ IsList(t) /\ Len(t) = Len(b) + Len(c)
      /\ \A i \in 1..(Len(b) + Len(c)) : t[i] = IF i <= Len(b) THEN b[i] ELSE c[i - Len(b)]
  BY JoinedLists
<1>3. Len(a) \in Nat /\ Len(b) \in Nat /\ Len(c) \in Nat
  BY ListIs
<1> HIDE DEF s, t
<1>4. /\ IsList(s \o c) /\ Len(s \o c) = Len(s) + Len(c)
      /\ \A i \in 1..(Len(s) + Len(c)) : (s \o c)[i] = IF i <= Len(s) THEN s[i] ELSE c[i - Len(s)]
  BY <1>1, JoinedLists
<1>5. /\ IsList(a \o t) /\ Len(a \o t) = Len(a) + Len(t)
      /\ \A i \in 1..(Len(a) + Len(t)) : (a \o t)[i] = IF i <= Len(a) THEN a[i] ELSE t[i - Len(a)]
  BY <1>2, JoinedLists
<1>6. Len(s \o c) = Len(a \o t)
  BY <1>1, <1>2, <1>3, <1>4, <1>5
<1>7. ASSUME NEW i \in 1..Len(s \o c) PROVE (s \o c)[i] = (a \o t)[i]
  <2>0. i \in Nat /\ i >= 1 /\ i <= Len(a) + Len(b) + Len(c)
    BY <1>1, <1>3, <1>4
  <2>1. CASE i <= Len(a)
    BY <2>0, <2>1, <1>1, <1>2, <1>3, <1>4, <1>5
  <2>2. CASE ~(i <= Len(a)) /\ i <= Len(a) + Len(b)
    <3>1. (s \o c)[i] = b[i - Len(a)]
      BY <2>0, <2>2, <1>1, <1>3, <1>4
    <3>2. i - Len(a) \in 1..(Len(b) + Len(c)) /\ i - Len(a) <= Len(b)
      BY <2>0, <2>2, <1>3
    <3>3. (a \o t)[i] = t[i - Len(a)]
      BY <2>0, <2>2, <1>2, <1>3, <1>5
    <3> QED
      BY <1>2, <3>1, <3>2, <3>3
  <2>3. CASE ~(i <= Len(a) + Len(b))
    <3>1. (s \o c)[i] = c[i - (Len(a) + Len(b))]
      BY <2>0, <2>3, <1>1, <1>3, <1>4
    <3>2. i - Len(a) \in 1..(Len(b) + Len(c)) /\ ~(i - Len(a) <= Len(b)) /\ (i - Len(a)) - Len(b) = i - (Len(a) + Len(b))
      BY <2>0, <2>3, <1>3
    <3>3. (a \o t)[i] = t[i - Len(a)]
      BY <2>0, <2>3, <1>2, <1>3, <1>5
    <3> QED
      BY <1>2, <3>1, <3>2, <3>3
  <2> QED
    BY <2>1, <2>2, <2>3
<1>8. s \o c = a \o t
  BY <1>4, <1>5, <1>6, <1>7, ListsSame
<1> QED
  BY <1>1, <1>2, <1>4, <1>8 DEF s, t

LEMMA NoneJoined == ASSUME NEW s, IsList(s) PROVE <<>> \o s = s
<1> DEFINE e == <<>>
<1>1. IsList(e) /\ Len(e) = 0
  BY EmptyList
<1> HIDE DEF e
<1>2. /\ IsList(e \o s) /\ Len(e \o s) = 0 + Len(s) /\ Len(s) \in Nat
      /\ \A i \in 1..(0 + Len(s)) : (e \o s)[i] = IF i <= 0 THEN e[i] ELSE s[i - 0]
  BY <1>1, JoinedLists
<1>3. Len(e \o s) = Len(s) /\ \A i \in 1..Len(s) : (e \o s)[i] = s[i]
  BY <1>2
<1>4. e \o s = s
  BY <1>2, <1>3, ListsSame
<1> QED
  BY <1>4 DEF e

LEMMA JoinedAppend ==
  ASSUME NEW a, NEW b, IsList(a), IsList(b), NEW x
  PROVE  a \o Append(b, x) = Append(a \o b, x)
<1> DEFINE t == <<x>>
           s == a \o b
<1>1. IsList(t)
  BY Single
<1> HIDE DEF t
<1>2. (a \o b) \o t = a \o (b \o t)
  BY <1>1, JoinedThree
<1>3. IsList(s)
  BY JoinedLists
<1> HIDE DEF s
<1>4. s \o <<x>> = Append(s, x) /\ b \o <<x>> = Append(b, x)
  BY <1>3, JoinedOne
<1>5. s \o t = a \o (b \o t)
  BY <1>2 DEF s
<1>6. s \o <<x>> = a \o (b \o <<x>>)
  BY <1>5 DEF t
<1> QED
  BY <1>4, <1>6 DEF s

\* What has only elements of a set, piece after piece.
LEMMA FlatWithin ==
  ASSUME NEW S, NEW f, IsList(f), \A i \in 1..Len(f) : IsList(f[i]) /\ \A k \in 1..Len(f[i]) : f[i][k] \in S
  PROVE  IsList(FlattenSeq(f)) /\ \A i \in 1..Len(FlattenSeq(f)) : FlattenSeq(f)[i] \in S
<1>1. \A i \in 1..Len(f) : f[i] \in Seq(S)
  BY ListWithin
<1>2. f \in Seq(Seq(S))
  BY <1>1, ListWithin
<1>3. PICK joined : JoinsBy(S, f, joined)
  BY <1>2, FlattenSteps
<1>4. FlattenSeq(f) \in Seq(S)
  <2>1. Len(f) \in 0..Len(f)
    BY ListIs
  <2> QED
    BY <1>3, <2>1 DEF JoinsBy
<1> QED
  BY <1>4, ListIn, LenProperties

LEMMA FlatSteps ==
  ASSUME NEW f, IsList(f), \A i \in 1..Len(f) : IsList(f[i])
  PROVE  \E joined : /\ joined[0] = <<>> /\ FlattenSeq(f) = joined[Len(f)]
                     /\ \A n \in 0..Len(f) : IsList(joined[n])
                     /\ \A n \in 1..Len(f) : joined[n] = joined[n - 1] \o f[n]
<1>1. PICK S : f \in Seq(Seq(S))
  BY FlattenedList
<1>2. PICK joined : JoinsBy(S, f, joined)
  BY <1>1, FlattenSteps
<1>3. \A n \in 0..Len(f) : joined[n] \in Seq(S)
  BY <1>2 DEF JoinsBy
<1>4. \A n \in 0..Len(f) : IsList(joined[n])
  BY <1>3, ListIn
<1> QED
  BY <1>2, <1>4 DEF JoinsBy

\* The pieces of two lists that are joined.
LEMMA FlatJoined ==
  ASSUME NEW f, IsList(f), \A i \in 1..Len(f) : IsList(f[i]), NEW g, IsList(g),
             \A i \in 1..Len(g) : IsList(g[i])
  PROVE  FlattenSeq(f \o g) = FlattenSeq(f) \o FlattenSeq(g)
<1> DEFINE h == f \o g
           m == Len(f)
           n == Len(g)
<1>1. /\ IsList(h) /\ Len(h) = m + n /\ m \in Nat /\ n \in Nat
      /\ \A i \in 1..(m + n) : h[i] = IF i <= m THEN f[i] ELSE g[i - m]
  BY JoinedLists
<1>2. \A i \in 1..Len(h) : IsList(h[i])
  <2>1. ASSUME NEW i \in 1..(m + n) PROVE IsList(h[i])
    <3>1. CASE i <= m
      <4>1. i \in 1..m
        BY <1>1, <3>1
      <4> QED
        BY <1>1, <3>1, <4>1
    <3>2. CASE ~(i <= m)
      <4>1. i - m \in 1..n
        BY <1>1, <3>2
      <4> QED
        BY <1>1, <3>2, <4>1
    <3> QED
      BY <3>1, <3>2
  <2> QED
    BY <1>1, <2>1
<1> HIDE DEF h
<1>3. PICK hs : /\ hs[0] = <<>> /\ FlattenSeq(h) = hs[Len(h)]
                /\ \A k \in 0..Len(h) : IsList(hs[k])
                /\ \A k \in 1..Len(h) : hs[k] = hs[k - 1] \o h[k]
  BY <1>1, <1>2, FlatSteps
<1>4. PICK fs : /\ fs[0] = <<>> /\ FlattenSeq(f) = fs[m]
                /\ \A k \in 0..m : IsList(fs[k])
                /\ \A k \in 1..m : fs[k] = fs[k - 1] \o f[k]
  BY FlatSteps
<1>5. PICK gs : /\ gs[0] = <<>> /\ FlattenSeq(g) = gs[n]
                /\ \A k \in 0..n : IsList(gs[k])
                /\ \A k \in 1..n : gs[k] = gs[k - 1] \o g[k]
  BY FlatSteps
<1> DEFINE F == {k \in Nat : k <= m => hs[k] = fs[k]}
<1>6. 0 \in F
  BY <1>3, <1>4
<1>7. ASSUME NEW k \in Nat, k \in F PROVE k + 1 \in F
  <2>1. SUFFICES ASSUME k + 1 <= m PROVE hs[k + 1] = fs[k + 1]
    OBVIOUS
  <2>2. k + 1 \in 1..m /\ k + 1 \in 1..Len(h) /\ (k + 1) - 1 = k /\ k + 1 \in 1..(m + n)
    BY <1>1, <2>1
  <2>3. hs[k + 1] = hs[k] \o h[k + 1] /\ h[k + 1] = f[k + 1]
    BY <1>1, <1>3, <2>1, <2>2
  <2>4. fs[k + 1] = fs[k] \o f[k + 1]
    BY <1>4, <2>2
  <2>5. hs[k] = fs[k]
    BY <1>1, <1>7, <2>1
  <2> QED
    BY <2>3, <2>4, <2>5
<1>8. hs[m] = fs[m]
  <2> HIDE DEF F
  <2>1. m \in F
    BY <1>1, <1>6, <1>7, Induction
  <2> QED
    BY <1>1, <2>1 DEF F
<1> DEFINE z == fs[m]
<1>8a. hs[m] = z /\ IsList(z) /\ m + n = Len(h)
  BY <1>1, <1>4, <1>8
<1> HIDE DEF m, n, z
<1>8b. m \in Nat /\ n \in Nat /\ \A i \in 1..(m + n) : h[i] = IF i <= m THEN f[i] ELSE g[i - m]
  BY <1>1
<1>8c. ASSUME NEW k \in Nat,
        k + 1 <= n PROVE h[m + (k + 1)] = g[k + 1] /\ hs[m + (k + 1)] = hs[m + k] \o g[k + 1]
  <2>1. m + (k + 1) \in 1..(m + n) /\ (m + (k + 1)) - 1 = m + k /\ (m + (k + 1)) - m = k + 1 /\ ~(m + (k + 1) <= m)
    BY <1>8b, <1>8c
  <2>2. h[m + (k + 1)] = g[k + 1]
    BY <1>8b, <2>1
  <2>3. hs[m + (k + 1)] = hs[m + k] \o h[m + (k + 1)]
    BY <1>3, <1>8a, <2>1
  <2> QED
    BY <2>2, <2>3
<1>8d. ASSUME NEW k \in Nat,
        k + 1 <= n PROVE IsList(gs[k]) /\ IsList(g[k + 1]) /\ gs[k + 1] = gs[k] \o g[k + 1]
  <2>1. k + 1 \in 1..n /\ k \in 0..n /\ (k + 1) - 1 = k
    BY <1>8b, <1>8d
  <2>2. IsList(gs[k]) /\ gs[k + 1] = gs[k] \o g[k + 1]
    BY <1>5, <2>1
  <2>3. IsList(g[k + 1])
    BY <2>1 DEF n
  <2> QED
    BY <2>2, <2>3
<1> DEFINE G == {k \in Nat : k <= n => hs[m + k] = z \o gs[k]}
<1>9. 0 \in G
  <2>1. z \o gs[0] = z
    BY <1>5, <1>8a, JoinedNone
  <2>2. m + 0 = m
    BY <1>8b
  <2> QED
    BY <1>8a, <2>1, <2>2
<1>10. ASSUME NEW k \in Nat, k \in G PROVE k + 1 \in G
  <2>1. SUFFICES ASSUME k + 1 <= n PROVE hs[m + (k + 1)] = z \o gs[k + 1]
    OBVIOUS
  <2>2. hs[m + k] = z \o gs[k]
    BY <1>10, <1>8b, <2>1
  <2>3. hs[m + (k + 1)] = hs[m + k] \o g[k + 1] /\ gs[k + 1] = gs[k] \o g[k + 1]
    BY <1>8c, <1>8d, <2>1
  <2>4. IsList(gs[k]) /\ IsList(g[k + 1])
    BY <1>8d, <2>1
  <2> DEFINE x == gs[k]
             y == g[k + 1]
  <2>5. (z \o x) \o y = z \o (x \o y)
    <3> HIDE DEF x, y
    <3>1. IsList(x) /\ IsList(y)
      BY <2>4 DEF x, y
    <3> QED
      BY <1>8a, <3>1, JoinedThree
  <2> QED
    BY <2>2, <2>3, <2>5
<1>11. hs[m + n] = z \o gs[n]
  <2> HIDE DEF G
  <2>1. n \in G
    BY <1>8b, <1>9, <1>10, Induction
  <2> QED
    BY <1>8b, <2>1 DEF G
<1> QED
  BY <1>3, <1>4, <1>5, <1>8a, <1>11 DEF h, z

-----------------------------------------------------------------------------
\* Texts that are cut at a separator, piece after piece.

\* What is in a text after its first n symbols.
Reads(text, n, t) == n + Len(t) <= Len(text) /\ \A k \in 1..Len(t) : text[n + k] = t[k]

Without(t, c) == \A k \in 1..Len(t) : t[k] # c

Same(f, g, i) == f[i] = g[i]

\* A character is added to the last part, unless it starts another.
LEMMA CutGrown ==
  ASSUME NEW q, IsList(q), NEW a, NEW c, NEW sep
  PROVE  CutAt(Append(q, a), c, sep) = IF c = sep THEN Append(Append(q, a), <<>>) ELSE Append(q, Append(a, c))
<1> DEFINE p == Append(q, a)
           z == Append(a, c)
           m == Len(q)
<1>1. /\ IsList(p) /\ Len(p) = m + 1 /\ p[m + 1] = a /\ m \in Nat
      /\ \A i \in 1..m : p[i] = q[i]
  BY AppendedList, ListIs
<1>2. /\ IsList(Append(q, z)) /\ Len(Append(q, z)) = m + 1 /\ Append(q, z)[m + 1] = z
      /\ \A i \in 1..m : Append(q, z)[i] = q[i]
  BY AppendedList
<1>3. z = Append(p[Len(p)], c)
  BY <1>1
<1> HIDE DEF p, z, m
<1> DEFINE r == Append(q, z)
<1>2a. /\ IsList(r) /\ Len(r) = m + 1 /\ r[m + 1] = z /\ \A i \in 1..m : r[i] = q[i]
  BY <1>2
<1> HIDE DEF r
<1>4. [p EXCEPT ![Len(p)] = Append(@, c)] = r
  <2> DEFINE e == [i \in 1..(m + 1) |-> IF i = m + 1 THEN z ELSE p[i]]
  <2>1. DOMAIN p = 1..(m + 1)
    BY <1>1, ListIs
  <2>2. [p EXCEPT ![Len(p)] = Append(@, c)] = e
    BY <1>1, <1>3, <2>1
  <2>3. e = [i \in 1..(m + 1) |-> e[i]] /\ m + 1 \in Nat
    BY <1>1
  <2>4. \A i \in 1..(m + 1) : e[i] = r[i]
    BY <1>1, <1>2a
  <2> HIDE DEF e
  <2>5. IsList(e) /\ Len(e) = m + 1
    BY <2>3, ListMade
  <2>6. e = r
    BY <1>2a, <2>4, <2>5, ListsSame
  <2> QED
    BY <2>2, <2>6
<1>5. CutAt(p, c, sep) = IF c = sep THEN Append(p, <<>>) ELSE r
  BY <1>4 DEF CutAt
<1> QED
  BY <1>5 DEF p, z, r

\* What is split has at least one part.
LEMMA SplitParts ==
  ASSUME NEW text, IsList(text), NEW sep, NEW parts, SplitsBy(text, sep, parts), NEW n \in 0..Len(text)
  PROVE  IsList(parts[n])
BY ListIn DEF SplitsBy

\* A part that has no separator grows until the next one.
LEMMA PartGrows ==
  ASSUME NEW text, IsList(text), NEW sep, NEW parts, SplitsBy(text, sep, parts), NEW n \in Nat,
         NEW q, IsList(q), NEW t, IsList(t), Reads(text, n, t), Without(t, sep), parts[n] = Append(q, <<>>)
  PROVE  parts[n + Len(t)] = Append(q, t)
<1> DEFINE W == {k \in Nat : k <= Len(t) => parts[n + k] = Append(q, SubSeq(t, 1, k))}
<1>0. Len(t) \in Nat /\ Len(text) \in Nat /\ n + Len(t) <= Len(text)
  BY ListIs DEF Reads
<1>1. 0 \in W
  <2>1. n + 0 = n /\ SubSeq(t, 1, 0) = <<>>
    BY PrefixNone
  <2> QED
    BY <2>1
<1>2. ASSUME NEW k \in Nat, k \in W PROVE k + 1 \in W
  <2>1. SUFFICES ASSUME k + 1 <= Len(t) PROVE parts[n + (k + 1)] = Append(q, SubSeq(t, 1, k + 1))
    OBVIOUS
  <2>2. k + 1 \in 1..Len(t) /\ n + (k + 1) \in 1..Len(text) /\ (n + (k + 1)) - 1 = n + k
    BY <1>0, <2>1
  <2>3. text[n + (k + 1)] = t[k + 1] /\ t[k + 1] # sep
    BY <2>2 DEF Reads, Without
  <2>4. parts[n + (k + 1)] = CutAt(parts[n + k], t[k + 1], sep)
    BY <2>2, <2>3 DEF SplitsBy
  <2>5. parts[n + k] = Append(q, SubSeq(t, 1, k))
    BY <1>0, <1>2, <2>1
  <2>6. Append(SubSeq(t, 1, k), t[k + 1]) = SubSeq(t, 1, k + 1)
    BY <2>1, PrefixMore
  <2> DEFINE a == SubSeq(t, 1, k)
             c == t[k + 1]
  <2>7. CutAt(Append(q, a), c, sep) = Append(q, Append(a, c))
    <3> HIDE DEF a
    <3> QED
      BY <2>3, CutGrown
  <2> QED
    BY <2>4, <2>5, <2>6, <2>7
<1>3. Len(t) \in W
  <2> HIDE DEF W
  <2> QED
    BY <1>0, <1>1, <1>2, Induction
<1>4. SubSeq(t, 1, Len(t)) = t
  BY PrefixAll
<1>5. parts[n + Len(t)] = Append(q, SubSeq(t, 1, Len(t)))
  BY <1>0, <1>3
<1> QED
  BY <1>4, <1>5

\* What comes before a text is split as it would be alone.
LEMMA SplitPrefix ==
  ASSUME NEW a, IsList(a), NEW sep, NEW own, SplitsBy(a, sep, own),
         NEW text, IsList(text), NEW parts, SplitsBy(text, sep, parts), Reads(text, 0, a)
  PROVE  parts[Len(a)] = Split(a, sep)
<1> DEFINE W == {i \in Nat : i <= Len(a) => Same(parts, own, i)}
<1>0. Len(a) \in Nat /\ Len(text) \in Nat /\ Len(a) <= Len(text)
  BY ListIs DEF Reads
<1>1. 0 \in W
  BY DEF SplitsBy, Same
<1>2. ASSUME NEW k \in Nat, k \in W PROVE k + 1 \in W
  <2>1. SUFFICES ASSUME k + 1 <= Len(a) PROVE Same(parts, own, k + 1)
    OBVIOUS
  <2>2. k + 1 \in 1..Len(a) /\ k + 1 \in 1..Len(text) /\ (k + 1) - 1 = k /\ 0 + (k + 1) = k + 1
    BY <1>0, <2>1
  <2>3. text[k + 1] = a[k + 1]
    BY <2>2 DEF Reads
  <2>4. parts[k + 1] = CutAt(parts[k], text[k + 1], sep) /\ own[k + 1] = CutAt(own[k], a[k + 1], sep)
    BY <2>2 DEF SplitsBy
  <2>5. Same(parts, own, k)
    BY <1>0, <1>2, <2>1
  <2> QED
    BY <2>3, <2>4, <2>5 DEF Same
<1>3. Len(a) \in W
  <2> HIDE DEF W
  <2> QED
    BY <1>0, <1>1, <1>2, Induction
<1> QED
  BY <1>0, <1>3 DEF SplitsBy, Same

\* What has no separator is one part.
LEMMA SplitNone ==
  ASSUME NEW t, IsList(t), NEW sep, Without(t, sep)
  PROVE  Split(t, sep) = <<t>>
<1>1. PICK parts : SplitsBy(t, sep, parts)
  BY SplitSteps
<1> DEFINE q == <<>>
           e == <<>>
<1>2. IsList(q) /\ Append(q, t) = <<t>> /\ Append(q, e) = <<e>>
  BY EmptyList
<1>3. Reads(t, 0, t)
  BY ListIs DEF Reads
<1>4. parts[0] = Append(q, <<>>)
  BY <1>1, <1>2 DEF SplitsBy
<1> HIDE DEF q
<1>5. parts[0 + Len(t)] = Append(q, t)
  <2> DEFINE n == 0
  <2>1. n \in Nat /\ Reads(t, n, t) /\ parts[n] = Append(q, <<>>)
    BY <1>3, <1>4
  <2>2. IsList(q)
    BY <1>2
  <2> HIDE DEF n, e
  <2>3. parts[n + Len(t)] = Append(q, t)
    BY <1>1, <2>1, <2>2, PartGrows
  <2> QED
    BY <2>3 DEF n
<1>6. 0 + Len(t) = Len(t)
  BY ListIs
<1> QED
  BY <1>1, <1>2, <1>5, <1>6 DEF SplitsBy

\* A separator and a text that has none add a part.
LEMMA SplitNext ==
  ASSUME NEW a, IsList(a), NEW t, IsList(t), NEW sep, Without(t, sep)
  PROVE  Split((a \o <<sep>>) \o t, sep) = Append(Split(a, sep), t)
<1> DEFINE o == <<sep>>
           b == a \o o
           text == b \o t
           m == Len(a)
<1>1. IsList(o) /\ Len(o) = 1 /\ o[1] = sep
  BY Single
<1> HIDE DEF o
<1>2. /\ IsList(b) /\ Len(b) = m + 1 /\ m \in Nat
      /\ \A i \in 1..(m + 1) : b[i] = IF i <= m THEN a[i] ELSE o[i - m]
  BY <1>1, JoinedLists
<1>3. b[m + 1] = sep /\ \A i \in 1..m : b[i] = a[i]
  <2>1. m + 1 \in 1..(m + 1) /\ ~(m + 1 <= m) /\ (m + 1) - m = 1
    BY <1>2
  <2>2. b[m + 1] = sep
    BY <1>1, <1>2, <2>1
  <2>3. \A i \in 1..m : b[i] = a[i]
    BY <1>2
  <2> QED
    BY <2>2, <2>3
<1> HIDE DEF b
<1>4. /\ IsList(text) /\ Len(text) = (m + 1) + Len(t) /\ Len(t) \in Nat
      /\ \A i \in 1..((m + 1) + Len(t)) : text[i] = IF i <= m + 1 THEN b[i] ELSE t[i - (m + 1)]
  BY <1>2, JoinedLists
<1> HIDE DEF text
<1>5. Reads(text, 0, a)
  BY <1>2, <1>3, <1>4 DEF Reads
<1>6. Reads(text, m + 1, t)
  <2>1. ASSUME NEW k \in 1..Len(t) PROVE text[(m + 1) + k] = t[k]
    <3>1. (m + 1) + k \in 1..((m + 1) + Len(t)) /\ ~((m + 1) + k <= m + 1) /\ ((m + 1) + k) - (m + 1) = k
      BY <1>2, <1>4
    <3> QED
      BY <1>4, <3>1
  <2> QED
    BY <1>2, <1>4, <2>1 DEF Reads
<1>7. PICK own : SplitsBy(a, sep, own)
  BY SplitSteps
<1>8. PICK parts : SplitsBy(text, sep, parts)
  BY <1>4, SplitSteps
<1>9. parts[m] = Split(a, sep)
  BY <1>4, <1>5, <1>7, <1>8, SplitPrefix
<1> DEFINE q == Split(a, sep)
<1>10. IsList(q)
  BY SplitList
<1>11. parts[m + 1] = Append(q, <<>>)
  <2>1. m + 1 \in 1..Len(text) /\ (m + 1) - 1 = m /\ text[m + 1] = sep
    BY <1>2, <1>3, <1>4
  <2>2. parts[m + 1] = CutAt(parts[m], sep, sep)
    BY <1>8, <2>1 DEF SplitsBy
  <2> QED
    BY <1>9, <2>2 DEF CutAt
<1> HIDE DEF q
<1>12. m + 1 \in Nat
  BY <1>2
<1>13. parts[(m + 1) + Len(t)] = Append(q, t)
  BY <1>4, <1>6, <1>8, <1>10, <1>11, <1>12, PartGrows
<1>14. Split(text, sep) = Append(q, t)
  BY <1>4, <1>8, <1>13 DEF SplitsBy
<1> QED
  BY <1>14 DEF q, text, b, o

-----------------------------------------------------------------------------
\* Texts that are decoded, piece after piece.

Decoding(s, e) == [text |-> s, escape |-> e]

Space == " "

PlusRead(c) == IF c = "+" THEN " " ELSE c

LEMMA PlusReads == PlusRead("+") = Space /\ \A c : c # "+" => PlusRead(c) = c
BY Zenon DEF PlusRead, Space

LEMMA DecodeIs ==
  ASSUME NEW done, NEW c
  PROVE  Decode(done, c) =
           IF done.escape = <<>>
           THEN IF c = "%" THEN [done EXCEPT !.escape = <<c>>]
                ELSE [done EXCEPT !.text = Append(@, PlusRead(c))]
           ELSE IF Len(done.escape) = 1 THEN [done EXCEPT !.escape = Append(@, c)]
           ELSE [text |-> Append(done.text, Symbol(done.escape[2], c)), escape |-> <<>>]
BY Zenon DEF Decode, PlusRead

LEMMA DecodedSteps ==
  ASSUME NEW s, NEW c, NEW high
  PROVE  /\ c # "%" => Decode(Decoding(s, <<>>), c) = Decoding(Append(s, PlusRead(c)), <<>>)
         /\ Decode(Decoding(s, <<>>), "%") = Decoding(s, <<"%">>)
         /\ Decode(Decoding(s, <<"%">>), high) = Decoding(s, <<"%", high>>)
         /\ Decode(Decoding(s, <<"%", high>>), c) = Decoding(Append(s, Symbol(high, c)), <<>>)
<1>1. ASSUME NEW e PROVE /\ Decoding(s, e).text = s /\ Decoding(s, e).escape = e
                        /\ \A x : [Decoding(s, e) EXCEPT !.escape = x] = Decoding(s, x)
                        /\ \A t : [Decoding(s, e) EXCEPT !.text = t] = Decoding(t, e)
  BY DEF Decoding
<1> DEFINE none == <<>>
           one == <<"%">>
           two == <<"%", high>>
<1>2. /\ one # none /\ two # none
  OBVIOUS
<1>2a. Len(one) = 1 /\ Len(two) = 2 /\ two[2] = high
  OBVIOUS
<1>2b. Append(one, high) = two
  BY AppendedOne
<1>3. c # "%" => Decode(Decoding(s, <<>>), c) = Decoding(Append(s, PlusRead(c)), <<>>)
  <2> DEFINE d == Decoding(s, <<>>)
  <2>1. d.text = s /\ d.escape = <<>> /\ \A x : [d EXCEPT !.text = x] = Decoding(x, <<>>)
    BY <1>1
  <2> HIDE DEF d
  <2>2. c # "%" => Decode(d, c) = Decoding(Append(s, PlusRead(c)), <<>>)
    BY <2>1, DecodeIs
  <2> QED
    BY <2>2 DEF d
<1>4. Decode(Decoding(s, <<>>), "%") = Decoding(s, <<"%">>)
  <2> DEFINE d == Decoding(s, <<>>)
             p == "%"
  <2>1. d.text = s /\ d.escape = <<>> /\ \A x : [d EXCEPT !.escape = x] = Decoding(s, x)
    BY <1>1
  <2>2. p = "%"
    OBVIOUS
  <2> HIDE DEF d, p
  <2>3. Decode(d, p) = Decoding(s, <<p>>)
    BY <2>1, <2>2, DecodeIs
  <2> QED
    BY <2>3 DEF d, p
<1>5. Decode(Decoding(s, one), high) = Decoding(s, two)
  <2> DEFINE d == Decoding(s, one)
  <2>1. d.text = s /\ d.escape = one /\ \A x : [d EXCEPT !.escape = x] = Decoding(s, x)
    BY <1>1
  <2> HIDE DEF d, one, two
  <2>2. ~(d.escape = <<>>) /\ Len(d.escape) = 1 /\ Append(d.escape, high) = two
    BY <1>2, <1>2a, <1>2b, <2>1
  <2>3. Decode(d, high) = [d EXCEPT !.escape = Append(@, high)]
    BY <2>2, DecodeIs
  <2> QED
    BY <2>1, <2>2, <2>3 DEF d
<1>6. Decode(Decoding(s, two), c) = Decoding(Append(s, Symbol(high, c)), <<>>)
  <2> DEFINE d == Decoding(s, two)
  <2>1. d.text = s /\ d.escape = two
    BY <1>1
  <2> HIDE DEF d, one, two
  <2>2. ~(d.escape = <<>>) /\ ~(Len(d.escape) = 1) /\ d.escape[2] = high
    BY <1>2, <1>2a, <2>1
  <2>3. Decode(d, c) = [text |-> Append(d.text, Symbol(d.escape[2], c)), escape |-> <<>>]
    BY <2>2, DecodeIs
  <2> QED
    BY <2>1, <2>2, <2>3 DEF d, Decoding
<1> QED
  BY <1>3, <1>4, <1>5, <1>6

\* A text is read to the end as another.
Decoded(text, s) == \E done : DecodesBy(text, done) /\ done[Len(text)] = Decoding(s, <<>>)

\* A piece of a text that is read as one character.
Piece(u, c) == \/ u = <<c>> /\ c \notin {"%", "+"}
               \/ u = <<"+">> /\ c = Space
               \/ \E high, low : u = <<"%", high, low>> /\ c = Symbol(high, low)

LEMMA DecodePrefix ==
  ASSUME NEW a, IsList(a), NEW own, DecodesBy(a, own),
         NEW text, IsList(text), NEW done, DecodesBy(text, done), Reads(text, 0, a)
  PROVE  done[Len(a)] = own[Len(a)]
<1> DEFINE W == {i \in Nat : i <= Len(a) => Same(done, own, i)}
<1>0. Len(a) \in Nat /\ Len(text) \in Nat /\ Len(a) <= Len(text)
  BY ListIs DEF Reads
<1>1. 0 \in W
  BY DEF DecodesBy, Same
<1>2. ASSUME NEW k \in Nat, k \in W PROVE k + 1 \in W
  <2>1. SUFFICES ASSUME k + 1 <= Len(a) PROVE Same(done, own, k + 1)
    OBVIOUS
  <2>2. k + 1 \in 1..Len(a) /\ k + 1 \in 1..Len(text) /\ (k + 1) - 1 = k /\ 0 + (k + 1) = k + 1
    BY <1>0, <2>1
  <2>3. text[k + 1] = a[k + 1]
    BY <2>2 DEF Reads
  <2>4. done[k + 1] = Decode(done[k], text[k + 1]) /\ own[k + 1] = Decode(own[k], a[k + 1])
    BY <2>2 DEF DecodesBy
  <2>5. Same(done, own, k)
    BY <1>0, <1>2, <2>1
  <2> QED
    BY <2>3, <2>4, <2>5 DEF Same
<1>3. Len(a) \in W
  <2> HIDE DEF W
  <2> QED
    BY <1>0, <1>1, <1>2, Induction
<1> QED
  BY <1>0, <1>3 DEF Same

LEMMA PieceList ==
  ASSUME NEW u, NEW c, Piece(u, c)
  PROVE  IsList(u) /\ Len(u) \in {1, 3}
<1>1. CASE u = <<c>>
  BY <1>1, Single
<1>2. CASE u = <<"+">>
  BY <1>2, Single
<1>3. ASSUME NEW high, NEW low, u = <<"%", high, low>> PROVE IsList(u) /\ Len(u) = 3
  BY <1>3, Triple
<1> QED
  BY <1>1, <1>2, <1>3, Single DEF Piece

LEMMA DecodedNext ==
  ASSUME NEW a, IsList(a), NEW s, Decoded(a, s), NEW u, NEW c, Piece(u, c)
  PROVE  IsList(a \o u) /\ Decoded(a \o u, Append(s, c))
<1> DEFINE text == a \o u
           m == Len(a)
<1>1. IsList(u) /\ Len(u) \in {1, 3}
  BY PieceList
<1>2. /\ IsList(text) /\ Len(text) = m + Len(u) /\ m \in Nat
      /\ \A i \in 1..(m + Len(u)) : text[i] = IF i <= m THEN a[i] ELSE u[i - m]
  BY <1>1, JoinedLists
<1> HIDE DEF text
<1>3. Reads(text, 0, a)
  BY <1>1, <1>2 DEF Reads
<1>4. \A k \in 1..Len(u) : text[m + k] = u[k]
  <2>1. ASSUME NEW k \in 1..Len(u) PROVE text[m + k] = u[k]
    <3>1. m + k \in 1..(m + Len(u)) /\ ~(m + k <= m) /\ (m + k) - m = k
      BY <1>1, <1>2
    <3> QED
      BY <1>2, <3>1
  <2> QED
    BY <2>1
<1>5. PICK done : DecodesBy(text, done)
  BY <1>2, DecodeSteps
<1>6. done[m] = Decoding(s, <<>>)
  <2>1. PICK own : DecodesBy(a, own) /\ own[Len(a)] = Decoding(s, <<>>)
    BY DEF Decoded
  <2> QED
    BY <1>2, <1>3, <1>5, <2>1, DecodePrefix
<1>7. \A n \in 1..Len(text) : done[n] = Decode(done[n - 1], text[n])
  BY <1>5 DEF DecodesBy
<1>8. m + 1 \in 1..Len(text) /\ (m + 1) - 1 = m /\ text[m + 1] = u[1]
  <2>1. Len(text) = m + Len(u) /\ m \in Nat
    BY <1>2
  <2>2. Len(u) = 1 \/ Len(u) = 3
    BY <1>1
  <2> HIDE DEF m
  <2>3. 1 \in 1..Len(u) /\ m + 1 \in 1..Len(text) /\ (m + 1) - 1 = m
    BY ONLY <2>1, <2>2
  <2> QED
    BY ONLY <1>4, <2>3
<1>9. done[m + 1] = Decode(Decoding(s, <<>>), u[1])
  BY <1>6, <1>7, <1>8
<1>10. SUFFICES done[Len(text)] = Decoding(Append(s, c), <<>>)
  BY <1>2, <1>5 DEF Decoded, text
<1>11. ASSUME Len(u) = 1, u[1] # "%", c = PlusRead(u[1])
       PROVE  done[Len(text)] = Decoding(Append(s, c), <<>>)
  BY <1>2, <1>9, <1>11, DecodedSteps
<1>12. CASE u = <<c>> /\ c \notin {"%", "+"}
  <2>1. Len(u) = 1 /\ u[1] = c
    BY <1>12, Single
  <2>2. PlusRead(c) = c
    BY <1>12, PlusReads
  <2> QED
    BY <1>11, <1>12, <2>1, <2>2
<1>13. CASE u = <<"+">> /\ c = Space
  <2>1. Len(u) = 1 /\ u[1] = "+"
    BY <1>13, Single
  <2> QED
    BY <1>11, <1>13, <2>1, PlusReads
<1>14. ASSUME NEW high, NEW low, u = <<"%", high, low>>, c = Symbol(high, low)
       PROVE  done[Len(text)] = Decoding(Append(s, c), <<>>)
  <2>1. Len(u) = 3 /\ u[1] = "%" /\ u[2] = high /\ u[3] = low
    BY <1>14, Triple
  <2>2. done[m + 1] = Decoding(s, <<"%">>)
    BY <1>9, <2>1, DecodedSteps
  <2>3. m + 2 \in 1..Len(text) /\ (m + 2) - 1 = m + 1 /\ m + 3 \in 1..Len(text) /\ (m + 3) - 1 = m + 2 /\ Len(text) = m + 3
    BY <1>2, <2>1
  <2>4. text[m + 2] = high /\ text[m + 3] = low
    BY <1>4, <2>1
  <2>5. done[m + 2] = Decode(done[m + 1], high) /\ done[m + 3] = Decode(done[m + 2], low)
    BY <1>7, <2>3, <2>4
  <2>6. done[m + 2] = Decoding(s, <<"%", high>>)
    BY <2>2, <2>5, DecodedSteps
  <2>7. done[m + 3] = Decoding(Append(s, Symbol(high, low)), <<>>)
    BY <2>5, <2>6, DecodedSteps
  <2> QED
    BY <1>14, <2>3, <2>7
<1> QED
  BY <1>12, <1>13, <1>14 DEF Piece

LEMMA NoneDecoded == Decoded(<<>>, <<>>)
<1> DEFINE text == <<>>
<1>1. IsList(text) /\ Len(text) = 0
  BY EmptyList
<1>2. PICK done : DecodesBy(text, done)
  BY <1>1, DecodeSteps
<1>3. done[0] = Decoding(<<>>, <<>>)
  BY <1>2 DEF DecodesBy, Decoding
<1> HIDE DEF text
<1>4. Decoded(text, <<>>)
  BY <1>1, <1>2, <1>3 DEF Decoded
<1> QED
  BY <1>4 DEF text

\* A text made of pieces is read piece after piece.
LEMMA DecodedFlat ==
  ASSUME NEW f, IsList(f), NEW s, IsList(s), Len(f) = Len(s), \A i \in 1..Len(s) : Piece(f[i], s[i])
  PROVE  IsList(FlattenSeq(f)) /\ Decoded(FlattenSeq(f), s)
<1>1. \A i \in 1..Len(f) : IsList(f[i])
  BY PieceList
<1>2. PICK joined : /\ joined[0] = <<>> /\ FlattenSeq(f) = joined[Len(f)]
                    /\ \A n \in 0..Len(f) : IsList(joined[n])
                    /\ \A n \in 1..Len(f) : joined[n] = joined[n - 1] \o f[n]
  BY <1>1, FlatSteps
<1> DEFINE W == {k \in Nat : k <= Len(s) => Decoded(joined[k], SubSeq(s, 1, k))}
<1>3. 0 \in W
  BY <1>2, NoneDecoded, PrefixNone
<1>4. ASSUME NEW k \in Nat, k \in W PROVE k + 1 \in W
  <2>1. SUFFICES ASSUME k + 1 <= Len(s) PROVE Decoded(joined[k + 1], SubSeq(s, 1, k + 1))
    OBVIOUS
  <2>0. Len(s) \in Nat
    BY ListIs
  <2>2. k + 1 \in 1..Len(s) /\ (k + 1) - 1 = k /\ k \in 0..Len(f)
    BY <2>0, <2>1
  <2>3. joined[k + 1] = joined[k] \o f[k + 1] /\ IsList(joined[k]) /\ Piece(f[k + 1], s[k + 1])
    BY <1>2, <2>2
  <2>4. Decoded(joined[k], SubSeq(s, 1, k))
    BY <1>4, <2>0, <2>1
  <2>5. Append(SubSeq(s, 1, k), s[k + 1]) = SubSeq(s, 1, k + 1)
    BY <2>1, PrefixMore
  <2> DEFINE a == joined[k]
             u == f[k + 1]
             c == s[k + 1]
             t == SubSeq(s, 1, k)
  <2>6. Decoded(a \o u, Append(t, c))
    <3>1. IsList(a) /\ Decoded(a, t) /\ Piece(u, c)
      BY <2>3, <2>4
    <3> HIDE DEF a, u, c, t
    <3> QED
      BY <3>1, DecodedNext
  <2> QED
    BY <2>3, <2>5, <2>6
<1>5. Len(s) \in W
  <2> HIDE DEF W
  <2> QED
    BY <1>3, <1>4, ListIs, Induction
<1>6. Decoded(joined[Len(s)], SubSeq(s, 1, Len(s)))
  BY <1>5, ListIs
<1> QED
  BY <1>1, <1>2, <1>6, PrefixAll, FlattenedList

LEMMA DecodedIs ==
  ASSUME NEW text, NEW s, IsList(s), Decoded(text, s), Without(s, "NUL")
  PROVE  UrlDecode(text) = s
<1>1. PICK done : DecodesBy(text, done) /\ done[Len(text)] = Decoding(s, <<>>)
  BY DEF Decoded
<1>2. done[Len(text)].text = s
  BY <1>1 DEF Decoding
<1>3. UrlDecode(text) = CString(s)
  BY <1>1, <1>2 DEF DecodesBy
<1> QED
  BY <1>3, CStringList DEF Without

-----------------------------------------------------------------------------
\* A name is encoded and decoded.

DigitAt(i, c) == c \in {Digits[i], UpperDigits[i]}

LEMMA UpperAre ==
  /\ UpperDigits = <<"0", "1", "2", "3", "4", "5", "6", "7", "8", "9", "A", "B", "C", "D", "E", "F">>
<1> DEFINE a == SubSeq(Digits, 1, 10)
           l == <<"A", "B", "C", "D", "E", "F">>
           u == <<"0", "1", "2", "3", "4", "5", "6", "7", "8", "9", "A", "B", "C", "D", "E", "F">>
<1> DEFINE H == {"0", "1", "2", "3", "4", "5", "6", "7", "8", "9", "a", "b", "c", "d", "e", "f", "A",
               "B", "C", "D", "E", "F"}
<1>1a. IsList(l) /\ Len(l) = 6
  <2>1. l \in Seq(H) /\ Len(l) = 6
    OBVIOUS
  <2> QED
    BY <2>1, ListIn
<1>1b. IsList(u) /\ Len(u) = 16
  <2>1. u \in Seq(H) /\ Len(u) = 16
    OBVIOUS
  <2> QED
    BY <2>1, ListIn
<1>1c. IsList(Digits) /\ Len(Digits) = 16
  <2>1. Digits \in Seq(H) /\ Len(Digits) = 16
    BY DEF Digits
  <2> QED
    BY <2>1, ListIn
<1>1. IsList(l) /\ Len(l) = 6 /\ IsList(u) /\ Len(u) = 16 /\ IsList(Digits) /\ Len(Digits) = 16
  BY <1>1a, <1>1b, <1>1c
<1>2. IsList(a) /\ Len(a) = 10 /\ \A i \in 1..10 : a[i] = Digits[1 + i - 1]
  <2> DEFINE m == 1
             n == 10
             s == Digits
  <2>1. m \in Nat \ {0} /\ n \in Nat /\ n <= Len(s) /\ m <= n + 1 /\ IsList(s) /\ n - m + 1 = 10 /\ m = 1
    BY <1>1
  <2> HIDE DEF m, n, s
  <2>2. /\ IsList(SubSeq(s, m, n)) /\ Len(SubSeq(s, m, n)) = n - m + 1
        /\ \A i \in 1..(n - m + 1) : SubSeq(s, m, n)[i] = s[m + i - 1]
    BY <2>1, PartOfList
  <2>3. IsList(SubSeq(s, m, n)) /\ Len(SubSeq(s, m, n)) = 10 /\ \A i \in 1..10 : SubSeq(s, m,
            n)[i] = s[1 + i - 1]
    BY <2>1, <2>2
  <2> QED
    BY <2>3 DEF m, n, s
<1>3. \A i \in 1..10 : a[i] = Digits[i]
  BY <1>2
<1>4. \A i \in 1..10 : Digits[i] = u[i]
  <2>1. ASSUME NEW i \in 1..10 PROVE Digits[i] = u[i]
    <3>1. i \in {1, 2, 3, 4, 5, 6, 7, 8, 9, 10}
      OBVIOUS
    <3> QED
      BY <3>1 DEF Digits
  <2> QED
    BY <2>1
<1>5. \A i \in 11..16 : l[i - 10] = u[i]
  <2>1. ASSUME NEW i \in 11..16 PROVE l[i - 10] = u[i]
    <3>1. i \in {11, 12, 13, 14, 15, 16}
      OBVIOUS
    <3> QED
      BY <3>1
  <2> QED
    BY <2>1
<1> HIDE DEF a, l, u
<1>6. /\ IsList(a \o l) /\ Len(a \o l) = Len(a) + Len(l)
      /\ \A i \in 1..(Len(a) + Len(l)) : (a \o l)[i] = IF i <= Len(a) THEN a[i] ELSE l[i - Len(a)]
  BY <1>1, <1>2, JoinedLists
<1>7a. Len(a) + Len(l) = 16
  BY <1>1, <1>2
<1>7. IsList(a \o l) /\ Len(a \o l) = 16 /\ \A i \in 1..16 : (a \o l)[i] = IF i <= 10 THEN a[i] ELSE l[i - 10]
  BY <1>1, <1>2, <1>6, <1>7a
<1>8. ASSUME NEW i \in 1..16 PROVE (a \o l)[i] = u[i]
  <2>1. CASE i <= 10
    <3>1. i \in 1..10
      BY <2>1
    <3>2. (a \o l)[i] = a[i]
      BY <1>7, <2>1
    <3>3. a[i] = Digits[i] /\ Digits[i] = u[i]
      BY <1>3, <1>4, <3>1
    <3> QED
      BY <3>2, <3>3
  <2>2. CASE ~(i <= 10)
    <3>1. i \in 11..16
      BY <2>2
    <3> QED
      BY <1>5, <1>7, <2>2, <3>1
  <2> QED
    BY <2>1, <2>2
<1>9. a \o l = u
  BY <1>1, <1>7, <1>8, ListsSame
<1> QED
  BY <1>9 DEF UpperDigits, a, l, u

LEMMA DigitsAre ==
  /\ \A i, j \in 1..16 : {Digits[i], UpperDigits[i]} \cap {Digits[j], UpperDigits[j]} # {} => i = j
<1>1. SUFFICES ASSUME NEW i \in 1..16, NEW j \in 1..16, i # j
               PROVE  /\ Digits[i] # Digits[j] /\ UpperDigits[i] # UpperDigits[j] /\ Digits[i] # UpperDigits[j]
  <2>1. \A i, j \in 1..16 : i # j => Digits[i] # Digits[j] /\ UpperDigits[i] # UpperDigits[j] /\ Digits[i] # UpperDigits[j]
    BY <1>1
  <2> QED
    BY <2>1
<1> DEFINE N == {1, 2, 3, 4, 5, 6, 7, 8, 9, 10, 11, 12, 13, 14, 15, 16}
<1>2. i \in N /\ j \in N
  OBVIOUS
<1>3. Digits[i] # Digits[j]
  BY <1>1, <1>2, SMTT(60) DEF Digits
<1>4. UpperDigits[i] # UpperDigits[j]
  BY <1>1, <1>2, UpperAre, SMTT(60)
<1>5. Digits[i] # UpperDigits[j]
  BY <1>1, <1>2, UpperAre, SMTT(60) DEF Digits
<1> QED
  BY <1>3, <1>4, <1>5

LEMMA HexRead ==
  ASSUME NEW k \in 0..15
  PROVE  HexToDec(Digits[k + 1]) = k /\ HexToDec(UpperDigits[k + 1]) = k
<1>0. k + 1 \in 1..16
  OBVIOUS
<1>1. ASSUME NEW c, c \in {Digits[k + 1], UpperDigits[k + 1]} PROVE HexToDec(c) = k
  <2>1. \A i \in 1..16 : c \in {Digits[i], UpperDigits[i]} => i = k + 1
    <3>1. SUFFICES ASSUME NEW i \in 1..16, c \in {Digits[i], UpperDigits[i]} PROVE i = k + 1
      OBVIOUS
    <3>2. {Digits[i], UpperDigits[i]} \cap {Digits[k + 1], UpperDigits[k + 1]} # {}
      BY <1>1, <3>1
    <3> QED
      BY <1>0, <3>2, DigitsAre
  <2>2. (CHOOSE i \in 1..16 : c \in {Digits[i], UpperDigits[i]}) = k + 1
    BY <1>0, <1>1, <2>1
  <2>3. \E i \in 1..16 : c \in {Digits[i], UpperDigits[i]}
    BY <1>0, <1>1
  <2> DEFINE m == CHOOSE i \in 1..16 : c \in {Digits[i], UpperDigits[i]}
  <2>4. HexToDec(c) = m - 1
    BY <2>3 DEF HexToDec
  <2>5. m = k + 1
    BY <2>2
  <2> HIDE DEF m
  <2> QED
    BY <2>4, <2>5
<1> QED
  BY <1>1

\* A byte has one symbol.
LEMMA ByteSymbol ==
  ASSUME NEW c \in DOMAIN Byte, NEW high, NEW low, 16 * HexToDec(high) + HexToDec(low) = Byte[c]
  PROVE  Symbol(high, low) = c
<1>1. \A s, t \in DOMAIN Byte : Byte[s] = Byte[t] => s = t
  BY ByteAssumption, Zenon
<1> DEFINE b == 16 * HexToDec(high) + HexToDec(low)
<1>2. Symbol(high, low) = IF \E s \in DOMAIN Byte : Byte[s] = b THEN CHOOSE s \in DOMAIN Byte : Byte[s] = b ELSE "other"
  BY DEF Symbol
<1>3. b = Byte[c]
  OBVIOUS
<1> HIDE DEF b
<1>4. (CHOOSE s \in DOMAIN Byte : Byte[s] = b) = c
  BY <1>1, <1>3
<1> QED
  BY <1>2, <1>3, <1>4

LEMMA ByteIs == ASSUME NEW c \in DOMAIN Byte PROVE Byte[c] \in 0..255
BY ByteAssumption, Zenon

LEMMA HalfBytes ==
  ASSUME NEW b \in 0..255
  PROVE  b \div 16 \in 0..15 /\ b % 16 \in 0..15 /\ 16 * (b \div 16) + (b % 16) = b
  OBVIOUS

LEMMA EscapeRead ==
  ASSUME NEW c \in DOMAIN Byte
  PROVE  Symbol(UpperDigits[(Byte[c] \div 16) + 1], UpperDigits[(Byte[c] % 16) + 1]) = c
<1> DEFINE b == Byte[c]
           h == b \div 16
           l == b % 16
<1>1. h \in 0..15 /\ l \in 0..15 /\ 16 * h + l = b
  BY ByteIs, HalfBytes
<1> HIDE DEF h, l
<1>2. HexToDec(UpperDigits[h + 1]) = h /\ HexToDec(UpperDigits[l + 1]) = l
  BY <1>1, HexRead
<1>3. Symbol(UpperDigits[h + 1], UpperDigits[l + 1]) = c
  BY <1>1, <1>2, ByteSymbol
<1> QED
  BY <1>3 DEF h, l

LEMMA UnsafeIs == "%" \in UnsafeForUrls /\ "+" \in UnsafeForUrls /\ "/" \in UnsafeForUrls /\ Space \in UnsafeForUrls
BY Zenon DEF UnsafeForUrls, Space

LEMMA SpaceIs == Space \in DOMAIN Byte /\ Byte[Space] = 32
BY ByteAssumption, UnsafeIs, Zenon DEF Space

LEMMA BlankIs == \A c : IsBlank(c) <=> c = Space
BY Zenon DEF IsBlank, Space

LEMMA EscapedPiece == ASSUME NEW c PROVE Piece(Escaped(c), c)
<1>1. CASE c \notin UnsafeForUrls
  BY <1>1, UnsafeIs DEF Escaped, Piece
<1>2. CASE c \in UnsafeForUrls
  <2> DEFINE h == UpperDigits[(Byte[c] \div 16) + 1]
             l == UpperDigits[(Byte[c] % 16) + 1]
  <2>1. Escaped(c) = <<"%", h, l>>
    BY <1>2 DEF Escaped
  <2>2. c = Symbol(h, l)
    BY <1>2, EscapeRead, ByteAssumption, Zenon
  <2> HIDE DEF h, l
  <2> QED
    BY <2>1, <2>2 DEF Piece
<1> QED
  BY <1>1, <1>2

HexChars == {"0", "1", "2", "3", "4", "5", "6", "7", "8", "9", "a", "b", "c", "d", "e", "f",
             "A", "B", "C", "D", "E", "F"}

LEMMA HexCharsAre ==
  /\ \A i \in 1..16 : Digits[i] \in HexChars /\ UpperDigits[i] \in HexChars
  /\ \A c \in HexChars : c # Space /\ c \notin {"/", "%", "+", "NUL", ".", ":", "[", "]"}
<1>1. \A c \in HexChars : c # Space
  BY Zenon DEF Space, HexChars
<1>2. \A c \in HexChars : c \notin {"/", "%", "+", "NUL", ".", ":", "[", "]"}
  BY DEF HexChars
<1>3. ASSUME NEW i \in 1..16 PROVE Digits[i] \in HexChars /\ UpperDigits[i] \in HexChars
  <2>1. i \in {1, 2, 3, 4, 5, 6, 7, 8, 9, 10, 11, 12, 13, 14, 15, 16}
    OBVIOUS
  <2>2. Digits[i] \in HexChars
    BY <2>1 DEF Digits, HexChars
  <2>3. UpperDigits[i] \in HexChars
    BY <2>1, UpperAre DEF HexChars
  <2> QED
    BY <2>2, <2>3
<1> QED
  BY <1>1, <1>2, <1>3

\* Pieces without a character make a text without it.
LEMMA FlatWithout ==
  ASSUME NEW f, IsList(f), \A i \in 1..Len(f) : IsList(f[i]), NEW c, \A i \in 1..Len(f) : Without(f[i], c)
  PROVE  IsList(FlattenSeq(f)) /\ Without(FlattenSeq(f), c)
<1> DEFINE S == (UNION {ToSet(f[i]) : i \in 1..Len(f)}) \ {c}
<1>1. ASSUME NEW i \in 1..Len(f), NEW k \in 1..Len(f[i]) PROVE f[i][k] \in S
  <2>1. f[i][k] \in ToSet(f[i])
    BY ListIs
  <2>2. f[i][k] # c
    BY DEF Without
  <2> QED
    BY <2>1, <2>2
<1>2. c \notin S
  OBVIOUS
<1> HIDE DEF S
<1>3. IsList(FlattenSeq(f)) /\ \A i \in 1..Len(FlattenSeq(f)) : FlattenSeq(f)[i] \in S
  BY <1>1, FlatWithin
<1> QED
  BY <1>2, <1>3 DEF Without

LEMMA EscapedWithout ==
  ASSUME NEW c, NEW x \in {"/", Space}
  PROVE  Without(Escaped(c), x)
<1>0. x \in UnsafeForUrls /\ x \notin HexChars /\ x # "%"
  <2>1. Space # "%"
    BY Zenon DEF Space
  <2>2. x \notin HexChars
    BY HexCharsAre
  <2> QED
    BY <2>1, <2>2, UnsafeIs
<1>1. CASE c \notin UnsafeForUrls
  <2>1. Escaped(c) = <<c>> /\ c # x
    BY <1>0, <1>1 DEF Escaped
  <2>2. Len(<<c>>) = 1 /\ <<c>>[1] = c
    OBVIOUS
  <2> QED
    BY <2>1, <2>2 DEF Without
<1>2. CASE c \in UnsafeForUrls
  <2> DEFINE h == UpperDigits[(Byte[c] \div 16) + 1]
             l == UpperDigits[(Byte[c] % 16) + 1]
  <2>1. Escaped(c) = <<"%", h, l>>
    BY <1>2 DEF Escaped
  <2>2. c \in DOMAIN Byte
    BY <1>2, ByteAssumption, Zenon
  <2>3. (Byte[c] \div 16) + 1 \in 1..16 /\ (Byte[c] % 16) + 1 \in 1..16
    <3> DEFINE b == Byte[c]
    <3>1. b \in 0..255
      BY <2>2, ByteIs
    <3> HIDE DEF b
    <3>2. b \div 16 \in 0..15 /\ b % 16 \in 0..15
      BY <3>1, HalfBytes
    <3>3. (b \div 16) + 1 \in 1..16 /\ (b % 16) + 1 \in 1..16
      BY <3>2
    <3> QED
      BY <3>3 DEF b
  <2>4. h # x /\ l # x
    BY <1>0, <2>3, HexCharsAre
  <2> HIDE DEF h, l
  <2>5. Len(<<"%", h, l>>) = 3 /\ <<"%", h, l>>[1] = "%" /\ <<"%", h, l>>[2] = h /\ <<"%", h, l>>[3] = l
    OBVIOUS
  <2>6. \A k \in 1..3 : k = 1 \/ k = 2 \/ k = 3
    OBVIOUS
  <2> QED
    BY <1>0, <2>1, <2>4, <2>5, <2>6 DEF Without
<1> QED
  BY <1>1, <1>2

\* Whatever text is encoded, it is decoded as it was.
LEMMA EncodedText ==
  ASSUME NEW n, IsList(n)
  PROVE  /\ IsList(UrlEncode(n)) /\ Decoded(UrlEncode(n), n)
         /\ Without(UrlEncode(n), "/") /\ Without(UrlEncode(n), Space)
<1> DEFINE f == Escapes(n)
<1>1. UrlEncode(n) = FlattenSeq(f) /\ IsList(f) /\ Len(f) = Len(n) /\ \A i \in 1..Len(f) : IsList(f[i])
  BY EscapesList
<1>2. \A i \in 1..Len(n) : f[i] = Escaped(n[i])
  BY DEF Escapes
<1>3. \A i \in 1..Len(n) : Piece(f[i], n[i])
  BY <1>2, EscapedPiece
<1>4. \A i \in 1..Len(f) : Without(f[i], "/") /\ Without(f[i], Space)
  <2>1. ASSUME NEW i \in 1..Len(f), NEW x \in {"/", Space} PROVE Without(f[i], x)
    BY <1>1, <1>2, EscapedWithout
  <2> QED
    BY <2>1
<1> HIDE DEF f
<1>5. IsList(FlattenSeq(f)) /\ Decoded(FlattenSeq(f), n)
  BY <1>1, <1>3, DecodedFlat
<1>6. ASSUME NEW x, x \in {"/", Space} PROVE Without(FlattenSeq(f), x)
  BY <1>1, <1>4, <1>6, FlatWithout
<1> QED
  BY <1>1, <1>5, <1>6

LEMMA NoneSteps == ASSUME NEW s, Decoded(<<>>, s) PROVE s = <<>>
<1> DEFINE e == <<>>
<1>1. PICK done : DecodesBy(e, done) /\ done[Len(e)] = Decoding(s, <<>>)
  BY DEF Decoded
<1>2. Len(e) = 0 /\ done[0] = [text |-> <<>>, escape |-> <<>>]
  BY <1>1, EmptyList DEF DecodesBy
<1>3. Decoding(s, <<>>).text = s
  BY DEF Decoding
<1>4. Decoding(s, <<>>) = [text |-> <<>>, escape |-> <<>>]
  BY <1>1, <1>2
<1> QED
  BY <1>3, <1>4

LEMMA NameIs ==
  ASSUME NEW n \in Naming
  PROVE  IsList(n) /\ Without(n, "NUL") /\ \A i \in 1..Len(n) : n[i] \in DOMAIN Byte
<1>1. \A i \in 1..Len(n) : n[i] \in DOMAIN Byte \ {"NUL"}
  BY LenProperties DEF Naming
<1>2. IsList(n)
  BY ListIn DEF Naming
<1> QED
  BY <1>1, <1>2 DEF Without

\* Whatever name url_encode() puts in a link, url_decode() reads that name there, and the link is
\* not cut inside it (cgi.c).
THEOREM NameDecoded ==
  ASSUME NEW n \in Naming
  PROVE  /\ IsList(UrlEncode(n)) /\ UrlDecode(UrlEncode(n)) = n
         /\ Without(UrlEncode(n), "/") /\ Without(UrlEncode(n), Space)
         /\ n # <<>> => UrlEncode(n) # <<>>
<1>1. IsList(n) /\ Without(n, "NUL")
  BY NameIs
<1>2. UrlDecode(UrlEncode(n)) = n
  BY <1>1, EncodedText, DecodedIs
<1>3. UrlEncode(n) = <<>> => n = <<>>
  <2>1. Decoded(UrlEncode(n), n)
    BY <1>1, EncodedText
  <2> QED
    BY <2>1, NoneSteps
<1> QED
  BY <1>1, <1>2, <1>3, EncodedText

LEMMA FirstPart ==
  ASSUME NEW s, IsList(s), NEW n \in Nat, n <= Len(s)
  PROVE  IsList(SubSeq(s, 1, n)) /\ Len(SubSeq(s, 1, n)) = n /\ \A i \in 1..n : SubSeq(s, 1, n)[i] = s[i]
<1> DEFINE m == 1
<1>1. m \in Nat \ {0} /\ m <= n + 1 /\ n - m + 1 = n /\ \A i \in 1..n : m + i - 1 = i
  OBVIOUS
<1> HIDE DEF m
<1>2. /\ IsList(SubSeq(s, m, n)) /\ Len(SubSeq(s, m, n)) = n - m + 1
      /\ \A i \in 1..(n - m + 1) : SubSeq(s, m, n)[i] = s[m + i - 1]
  BY <1>1, PartOfList
<1>3. IsList(SubSeq(s, m, n)) /\ Len(SubSeq(s, m, n)) = n /\ \A i \in 1..n : SubSeq(s, m, n)[i] = s[i]
  BY <1>1, <1>2
<1> QED
  BY <1>3 DEF m

\* A text ends before the first nul byte.
LEMMA NulEnds ==
  ASSUME NEW n, IsList(n), Without(n, "NUL"), NEW t, t = Append(n, "NUL")
  PROVE  CString(t) = n
<1> DEFINE m == Len(n)
           B == {k \in DOMAIN t : t[k] = "NUL"} \cup {Len(t) + 1}
<1>1. /\ IsList(t) /\ Len(t) = m + 1 /\ t[m + 1] = "NUL" /\ m \in Nat
      /\ \A i \in 1..m : t[i] = n[i]
  BY AppendedList, ListIs
<1>2. DOMAIN t = 1..(m + 1)
  BY <1>1, ListIs
<1>3. m + 1 \in B /\ \A k \in B : m + 1 <= k
  <2>1. ASSUME NEW k \in 1..(m + 1), t[k] = "NUL" PROVE m + 1 <= k
    <3>1. ~(k <= m)
      <4>1. SUFFICES ASSUME k <= m PROVE FALSE
        OBVIOUS
      <4>2. k \in 1..m
        BY <1>1, <4>1
      <4> QED
        BY <1>1, <2>1, <4>2 DEF Without
    <3> QED
      BY <1>1, <3>1
  <2> QED
    BY <1>1, <1>2, <2>1
<1>4. \A k \in B : k \in Nat
  BY <1>1, <1>2
<1> HIDE DEF B
<1>5. Min(B) = m + 1
  <2>1. \A x, y \in B : x <= y /\ y <= x => x = y
    BY <1>4
  <2> QED
    BY <1>3, <2>1 DEF Min
<1>6. CString(t) = SubSeq(t, 1, Min(B) - 1)
  BY DEF CString, B
<1>7. Min(B) - 1 = m
  BY <1>1, <1>5
<1>8. CString(t) = SubSeq(t, 1, m)
  BY <1>6, <1>7
<1> HIDE DEF m
<1>9. IsList(SubSeq(t, 1, m)) /\ Len(SubSeq(t, 1, m)) = m /\ \A i \in 1..m : SubSeq(t, 1, m)[i] = n[i]
  <2>1. IsList(t) /\ m \in Nat /\ m <= Len(t)
    BY <1>1
  <2>2. IsList(SubSeq(t, 1, m)) /\ Len(SubSeq(t, 1, m)) = m /\ \A i \in 1..m : SubSeq(t, 1, m)[i] = t[i]
    BY <2>1, FirstPart
  <2> QED
    BY <1>1, <2>2
<1>10. m = Len(n)
  BY DEF m
<1> QED
  BY <1>8, <1>9, <1>10, ListsSame

\* Pairs follow one another.
LEMMA FlatPairs ==
  ASSUME NEW f, IsList(f), \A i \in 1..Len(f) : IsList(f[i]) /\ Len(f[i]) = 2
  PROVE  /\ IsList(FlattenSeq(f)) /\ Len(FlattenSeq(f)) = 2 * Len(f)
         /\ \A i \in 1..Len(f) : FlattenSeq(f)[2 * i - 1] = f[i][1] /\ FlattenSeq(f)[2 * i] = f[i][2]
<1>0. Len(f) \in Nat
  BY ListIs
<1>1. PICK joined : /\ joined[0] = <<>> /\ FlattenSeq(f) = joined[Len(f)]
                    /\ \A n \in 0..Len(f) : IsList(joined[n])
                    /\ \A n \in 1..Len(f) : joined[n] = joined[n - 1] \o f[n]
  BY FlatSteps
<1> DEFINE Paired(t, n) == Len(t) = 2 * n /\ \A i \in 1..n : t[2 * i - 1] = f[i][1] /\ t[2 * i] = f[i][2]
           W == {n \in Nat : n <= Len(f) => Paired(joined[n], n)}
<1>2. 0 \in W
  BY <1>1, EmptyList
<1>3. ASSUME NEW n \in Nat, n \in W PROVE n + 1 \in W
  <2>1. SUFFICES ASSUME n + 1 <= Len(f) PROVE Paired(joined[n + 1], n + 1)
    OBVIOUS
  <2>2. n + 1 \in 1..Len(f) /\ (n + 1) - 1 = n /\ n \in 0..Len(f) /\ n <= Len(f)
    BY <1>0, <2>1
  <2>3. joined[n + 1] = joined[n] \o f[n + 1] /\ IsList(joined[n]) /\ IsList(f[n + 1]) /\ Len(f[n + 1]) = 2
    BY <1>1, <2>2
  <2>4. Paired(joined[n], n)
    BY <1>3, <2>2
  <2> DEFINE a == joined[n]
             b == f[n + 1]
             t == joined[n + 1]
  <2>5. /\ Len(a) = 2 * n /\ IsList(a) /\ IsList(b) /\ Len(b) = 2 /\ t = a \o b
        /\ \A i \in 1..n : a[2 * i - 1] = f[i][1] /\ a[2 * i] = f[i][2]
    BY <2>3, <2>4
  <2> HIDE DEF a, b, t
  <2> DEFINE ab == a \o b
  <2>6a. /\ Len(ab) = Len(a) + Len(b)
         /\ \A i \in 1..(Len(a) + Len(b)) : ab[i] = IF i <= Len(a) THEN a[i] ELSE b[i - Len(a)]
    BY <2>5, JoinedLists
  <2>6b. t = ab
    BY <2>5
  <2> HIDE DEF ab
  <2>6. /\ Len(t) = 2 * n + 2
        /\ \A i \in 1..(2 * n + 2) : t[i] = IF i <= 2 * n THEN a[i] ELSE b[i - 2 * n]
    BY <2>5, <2>6a, <2>6b
  <2>7. ASSUME NEW i \in 1..(n + 1) PROVE t[2 * i - 1] = f[i][1] /\ t[2 * i] = f[i][2]
    <3>1. CASE i <= n
      <4>1. i \in 1..n /\ 2 * i - 1 \in 1..(2 * n + 2) /\ 2 * i \in 1..(2 * n + 2) /\ 2 * i - 1 <= 2 * n /\ 2 * i <= 2 * n
        BY <3>1
      <4> QED
        BY <2>5, <2>6, <4>1
    <3>2. CASE ~(i <= n)
      <4>1. /\ i = n + 1 /\ 2 * i - 1 \in 1..(2 * n + 2) /\ 2 * i \in 1..(2 * n + 2)
            /\ ~(2 * i - 1 <= 2 * n) /\ ~(2 * i <= 2 * n) /\ (2 * i - 1) - 2 * n = 1 /\ 2 * i - 2 * n = 2
        BY <3>2
      <4>2. t[2 * i - 1] = b[1] /\ t[2 * i] = b[2]
        BY <2>6, <4>1
      <4>3. b = f[i]
        BY <4>1 DEF b
      <4> QED
        BY <4>2, <4>3
    <3> QED
      BY <3>1, <3>2
  <2>8. Len(t) = 2 * (n + 1)
    BY <2>6
  <2> QED
    BY <2>7, <2>8 DEF t
<1>4. Len(f) \in W
  <2> HIDE DEF W
  <2> QED
    BY <1>0, <1>2, <1>3, Induction
<1>5. IsList(joined[Len(f)])
  BY <1>0, <1>1
<1> QED
  BY <1>0, <1>1, <1>4, <1>5

LEMMA HexPadding == HexToDec(Space) = 0
<1>1. ~(\E i \in 1..16 : Space \in {Digits[i], UpperDigits[i]})
  <2>1. SUFFICES ASSUME NEW i \in 1..16 PROVE Space \notin {Digits[i], UpperDigits[i]}
    OBVIOUS
  <2>2. Digits[i] \in HexChars /\ UpperDigits[i] \in HexChars
    BY HexCharsAre
  <2>3. Space \notin HexChars
    BY HexCharsAre
  <2> QED
    BY <2>2, <2>3
<1> QED
  BY <1>1 DEF HexToDec

\* "%2x" of a byte.
HighDigit(b) == IF b < 16 THEN Space ELSE Digits[(b \div 16) + 1]

LEMMA HexadecimalIs ==
  ASSUME NEW b \in 0..255
  PROVE  /\ Hexadecimal(b) = <<HighDigit(b), Digits[(b % 16) + 1]>>
         /\ HighDigit(b) \in HexChars \cup {Space} /\ Digits[(b % 16) + 1] \in HexChars
         /\ 16 * HexToDec(HighDigit(b)) + HexToDec(Digits[(b % 16) + 1]) = b
<1>1. Hexadecimal(b) = <<HighDigit(b), Digits[(b % 16) + 1]>>
  BY Zenon DEF Hexadecimal, HighDigit, Space
<1> DEFINE h == b \div 16
           l == b % 16
<1>2. h \in 0..15 /\ l \in 0..15 /\ 16 * h + l = b
  BY HalfBytes
<1>3. b < 16 => h = 0
  BY <1>2
<1>3a. HighDigit(b) = IF b < 16 THEN Space ELSE Digits[h + 1]
  BY DEF HighDigit
<1> HIDE DEF h, l
<1>4. HexToDec(Digits[h + 1]) = h /\ HexToDec(Digits[l + 1]) = l /\ h + 1 \in 1..16 /\ l + 1 \in 1..16
  BY <1>2, HexRead
<1>5. Digits[h + 1] \in HexChars /\ Digits[l + 1] \in HexChars
  BY <1>4, HexCharsAre
<1>6. HexToDec(HighDigit(b)) = h /\ HighDigit(b) \in HexChars \cup {Space}
  BY <1>3, <1>3a, <1>4, <1>5, HexPadding
<1>7. 16 * HexToDec(HighDigit(b)) + HexToDec(Digits[l + 1]) = b
  BY <1>2, <1>4, <1>6
<1> QED
  BY <1>1, <1>5, <1>6, <1>7 DEF l

\* "00" ends a name.
LEMMA NulRead == Symbol("0", "0") = "NUL"
<1> DEFINE z == Digits[0 + 1]
           c == "NUL"
<1>1. z = "0"
  BY DEF Digits
<1>2. HexToDec(z) = 0
  BY HexRead
<1>3. c \in DOMAIN Byte /\ Byte[c] = 0
  BY ByteAssumption, Zenon DEF UnsafeForUrls
<1> HIDE DEF z, c
<1>4. Symbol(z, z) = c
  <2>1. 16 * HexToDec(z) + HexToDec(z) = Byte[c]
    BY <1>2, <1>3
  <2> QED
    BY <1>3, <2>1, ByteSymbol
<1> QED
  BY <1>1, <1>4 DEF c

\* Whatever name json_hexstring() prints, the old URLs that have its hexadecimal digits are
\* redirected to that name: although hextodec() reads the blank of a padded byte, what it reads is
\* zero (json.c, route.c).
THEOREM NameConverted ==
  ASSUME NEW n \in Naming
  PROVE  ConvertHexname(JsonHexstring(n)) = n
<1> DEFINE f == Hexadecimals(n)
           e == FlattenSeq(f)
           o == <<"0", "0">>
           m == Len(n)
<1>1. IsList(n) /\ Without(n, "NUL") /\ (\A i \in 1..m : n[i] \in DOMAIN Byte) /\ m \in Nat
  BY NameIs, ListIs
<1>2. JsonHexstring(n) = e \o o /\ IsList(f) /\ Len(f) = m /\ \A i \in 1..m : f[i] = Hexadecimal(Byte[n[i]])
  BY <1>1, HexstringList DEF Hexadecimals
<1>3. ASSUME NEW i \in 1..m
      PROVE  IsList(f[i]) /\ Len(f[i]) = 2 /\ Symbol(f[i][1], f[i][2]) = n[i]
  <2> DEFINE b == Byte[n[i]]
             c == n[i]
  <2>1. c \in DOMAIN Byte /\ b = Byte[c] /\ f[i] = Hexadecimal(b)
    BY <1>1, <1>2
  <2>2. b \in 0..255
    BY <2>1, ByteIs
  <2> HIDE DEF b, c, f
  <2>3. f[i] = <<HighDigit(b), Digits[(b % 16) + 1]>>
    BY <2>1, <2>2, HexadecimalIs
  <2>4. 16 * HexToDec(HighDigit(b)) + HexToDec(Digits[(b % 16) + 1]) = b
    BY <2>2, HexadecimalIs
  <2> DEFINE h == HighDigit(b)
             l == Digits[(b % 16) + 1]
  <2>5. IsList(f[i]) /\ Len(f[i]) = 2 /\ f[i][1] = h /\ f[i][2] = l
    BY <2>3, Pair
  <2>6. 16 * HexToDec(h) + HexToDec(l) = Byte[c]
    BY <2>1, <2>4
  <2> HIDE DEF h, l
  <2>7. Symbol(h, l) = c
    BY <2>1, <2>6, ByteSymbol
  <2> QED
    BY <2>5, <2>7 DEF c
<1> HIDE DEF f
<1>4. /\ IsList(e) /\ Len(e) = 2 * m
      /\ \A i \in 1..m : e[2 * i - 1] = f[i][1] /\ e[2 * i] = f[i][2]
  BY <1>2, <1>3, FlatPairs
<1>5. IsList(o) /\ Len(o) = 2 /\ o[1] = "0" /\ o[2] = "0"
  BY Pair
<1> HIDE DEF e, o, m
<1> DEFINE t == e \o o
<1>6a. /\ IsList(t) /\ Len(t) = Len(e) + Len(o)
       /\ \A i \in 1..(Len(e) + Len(o)) : t[i] = IF i <= Len(e) THEN e[i] ELSE o[i - Len(e)]
  BY <1>4, <1>5, JoinedLists
<1> HIDE DEF t
<1>6. /\ IsList(t) /\ Len(t) = 2 * m + 2
      /\ \A i \in 1..(2 * m + 2) : t[i] = IF i <= 2 * m THEN e[i] ELSE o[i - 2 * m]
  BY <1>4, <1>5, <1>6a
<1> HIDE DEF t
<1>7. Len(t) \div 2 = m + 1
  BY <1>1, <1>6
<1> DEFINE made == [k \in 1..(m + 1) |-> Symbol(t[2 * k - 1], t[2 * k])]
<1>8. ConvertHexname(t) = CString(made)
  BY <1>7 DEF ConvertHexname
<1>9. \A k \in 1..m : made[k] = n[k]
  <2>1. ASSUME NEW k \in 1..m PROVE made[k] = n[k]
    <3>1. /\ k \in 1..(m + 1) /\ 2 * k - 1 \in 1..(2 * m + 2) /\ 2 * k \in 1..(2 * m + 2)
          /\ 2 * k - 1 <= 2 * m /\ 2 * k <= 2 * m
      BY <1>1
    <3>2. made[k] = Symbol(t[2 * k - 1], t[2 * k])
      BY <3>1
    <3> HIDE DEF made
    <3>3. t[2 * k - 1] = e[2 * k - 1] /\ t[2 * k] = e[2 * k]
      BY <1>6, <3>1
    <3>4. made[k] = Symbol(f[k][1], f[k][2])
      BY <1>4, <3>2, <3>3
    <3> QED
      BY <1>3, <3>4
  <2> QED
    BY <2>1
<1>10. made[m + 1] = "NUL"
  <2>1. /\ m + 1 \in 1..(m + 1) /\ 2 * (m + 1) - 1 \in 1..(2 * m + 2) /\ 2 * (m + 1) \in 1..(2 * m + 2)
        /\ ~(2 * (m + 1) - 1 <= 2 * m) /\ ~(2 * (m + 1) <= 2 * m)
        /\ (2 * (m + 1) - 1) - 2 * m = 1 /\ 2 * (m + 1) - 2 * m = 2
    BY <1>1
  <2>2. made[m + 1] = Symbol(t[2 * (m + 1) - 1], t[2 * (m + 1)])
    BY <2>1
  <2> HIDE DEF made
  <2>3. t[2 * (m + 1) - 1] = "0" /\ t[2 * (m + 1)] = "0"
    BY <1>5, <1>6, <2>1
  <2> QED
    BY <2>2, <2>3, NulRead
<1>11. IsList(made) /\ Len(made) = m + 1
  <2>1. made = [k \in 1..(m + 1) |-> made[k]] /\ m + 1 \in Nat
    BY <1>1
  <2> HIDE DEF made
  <2> QED
    BY <2>1, ListMade
<1> HIDE DEF made
<1>12. made = Append(n, "NUL")
  <2> DEFINE c == "NUL"
             a == Append(n, c)
  <2>0. m = Len(n)
    BY DEF m
  <2>1. IsList(a) /\ Len(a) = m + 1 /\ a[m + 1] = c /\ \A i \in 1..m : a[i] = n[i]
    BY <1>1, <2>0, AppendedList
  <2>2. made[m + 1] = c
    BY <1>10
  <2> HIDE DEF a, c
  <2>3. \A i \in 1..(m + 1) : i \in 1..m \/ i = m + 1
    BY <1>1
  <2>4. \A i \in 1..(m + 1) : made[i] = a[i]
    BY <1>9, <2>1, <2>2, <2>3
  <2>5. made = a
    BY <1>11, <2>1, <2>4, ListsSame
  <2> QED
    BY <2>5 DEF a, c
<1>13. CString(made) = n
  BY <1>1, <1>12, NulEnds
<1> QED
  BY <1>2, <1>8, <1>13 DEF t

LEMMA JoinedWithout ==
  ASSUME NEW a, IsList(a), NEW b, IsList(b), NEW c, Without(a, c), Without(b, c)
  PROVE  IsList(a \o b) /\ Without(a \o b, c)
<1> DEFINE t == a \o b
           m == Len(a)
<1>1. /\ IsList(t) /\ Len(t) = m + Len(b) /\ m \in Nat /\ Len(b) \in Nat
      /\ \A i \in 1..(m + Len(b)) : t[i] = IF i <= m THEN a[i] ELSE b[i - m]
  BY JoinedLists
<1> HIDE DEF t
<1>2. ASSUME NEW i \in 1..Len(t) PROVE t[i] # c
  <2>1. CASE i <= m
    <3>1. i \in 1..m
      BY <1>1, <2>1
    <3>2. t[i] = a[i]
      BY <1>1, <2>1
    <3> QED
      BY <3>1, <3>2 DEF Without
  <2>2. CASE ~(i <= m)
    <3>1. i - m \in 1..Len(b)
      BY <1>1, <2>2
    <3>2. t[i] = b[i - m]
      BY <1>1, <2>2
    <3> QED
      BY <3>1, <3>2 DEF Without
  <2> QED
    BY <2>1, <2>2
<1>3. Without(t, c)
  BY <1>2 DEF Without
<1> QED
  BY <1>1, <1>3 DEF t

LEMMA OneWithout == ASSUME NEW x, NEW c, x # c PROVE Without(<<x>>, c)
BY DEF Without

LEMMA TwoWithout == ASSUME NEW x, NEW y, NEW c, x # c, y # c PROVE Without(<<x, y>>, c)
<1>1. Len(<<x, y>>) = 2 /\ <<x, y>>[1] = x /\ <<x, y>>[2] = y
  OBVIOUS
<1>2. \A k \in 1..2 : k = 1 \/ k = 2
  OBVIOUS
<1> QED
  BY <1>1, <1>2 DEF Without

\* What is in the digits of a name.
LEMMA HexText ==
  ASSUME NEW n \in Naming
  PROVE  /\ IsList(JsonHexstring(n)) /\ Len(JsonHexstring(n)) >= 2
         /\ \A c : c \notin HexChars \cup {Space} => Without(JsonHexstring(n), c)
<1> DEFINE f == Hexadecimals(n)
           e == FlattenSeq(f)
           o == <<"0", "0">>
<1>1. IsList(n) /\ \A i \in 1..Len(n) : n[i] \in DOMAIN Byte
  BY NameIs
<1>2. /\ JsonHexstring(n) = e \o o /\ IsList(f) /\ Len(f) = Len(n) /\ (\A i \in 1..Len(n) : IsList(f[i]))
      /\ \A i \in 1..Len(n) : f[i] = Hexadecimal(Byte[n[i]])
  BY <1>1, HexstringList DEF Hexadecimals
<1>3. ASSUME NEW c, c \notin HexChars \cup {Space} PROVE Without(e \o o, c)
  <2>1. ASSUME NEW i \in 1..Len(n) PROVE Without(f[i], c)
    <3> DEFINE b == Byte[n[i]]
    <3>1. b \in 0..255
      BY <1>1, ByteIs
    <3>2. f[i] = Hexadecimal(b)
      BY <1>2
    <3> HIDE DEF b, f
    <3> DEFINE x == HighDigit(b)
               y == Digits[(b % 16) + 1]
    <3>3. f[i] = <<x, y>> /\ x \in HexChars \cup {Space} /\ y \in HexChars
      BY <3>1, <3>2, HexadecimalIs
    <3> HIDE DEF x, y
    <3>4. Without(<<x, y>>, c)
      BY <1>3, <3>3, TwoWithout
    <3> QED
      BY <3>3, <3>4
  <2> HIDE DEF f
  <2>2. IsList(e) /\ Without(e, c)
    BY <1>2, <2>1, FlatWithout
  <2>3. IsList(o) /\ Without(o, c)
    <3>1. "0" # c
      BY <1>3 DEF HexChars
    <3> QED
      BY <3>1, TwoWithout, Pair
  <2> HIDE DEF e, o
  <2> QED
    BY <2>2, <2>3, JoinedWithout
<1> HIDE DEF f
<1>4. IsList(e)
  BY <1>2, FlattenedList
<1>5. IsList(o) /\ Len(o) = 2
  BY Pair
<1> HIDE DEF e, o
<1>6. IsList(e \o o) /\ Len(e \o o) = Len(e) + Len(o) /\ Len(e) \in Nat
  BY <1>4, <1>5, JoinedLists
<1>7. Len(e \o o) >= 2
  BY <1>5, <1>6
<1> QED
  BY <1>2, <1>3, <1>6, <1>7

-----------------------------------------------------------------------------
\* What a browser sends.
Sent(c) == IF c = " " THEN <<"%", "2", "0">> ELSE <<c>>

Sends(path) == [i \in 1..Len(path) |-> Sent(path[i])]

LEMMA SentPiece ==
  ASSUME NEW c
  PROVE  /\ IsList(Sent(c))
         /\ c \notin {"%", "+"} => Piece(Sent(c), c)
         /\ c = Space => Sent(c) = <<"%", "2", "0">>
         /\ c # Space => Sent(c) = <<c>>
<1>1. c = Space => Sent(c) = <<"%", "2", "0">>
  BY Zenon DEF Sent, Space
<1>2. c # Space => Sent(c) = <<c>>
  BY Zenon DEF Sent, Space
<1>3. Symbol("2", "0") = Space
  <2> DEFINE h == Digits[2 + 1]
             l == Digits[0 + 1]
             s == Space
  <2>1. h = "2" /\ l = "0"
    BY DEF Digits
  <2>2. HexToDec(h) = 2 /\ HexToDec(l) = 0
    <3>1. 2 \in 0..15 /\ 0 \in 0..15
      OBVIOUS
    <3> QED
      BY <3>1, HexRead
  <2>3. s \in DOMAIN Byte /\ Byte[s] = 32
    BY SpaceIs
  <2> HIDE DEF h, l, s
  <2>4. 16 * HexToDec(h) + HexToDec(l) = Byte[s]
    BY <2>2, <2>3
  <2>5. Symbol(h, l) = s
    BY <2>3, <2>4, ByteSymbol
  <2> QED
    BY <2>1, <2>5 DEF s
<1>4. ASSUME c = Space PROVE Piece(Sent(c), c)
  BY <1>1, <1>3, <1>4 DEF Piece
<1>5. ASSUME c # Space, c \notin {"%", "+"} PROVE Piece(Sent(c), c)
  BY <1>2, <1>5 DEF Piece
<1>6. IsList(Sent(c))
  BY <1>1, <1>2, Single, Triple
<1> QED
  BY <1>1, <1>2, <1>4, <1>5, <1>6

LEMMA SendsList ==
  ASSUME NEW path, IsList(path)
  PROVE  /\ IsList(Sends(path)) /\ Len(Sends(path)) = Len(path)
         /\ \A i \in 1..Len(path) : Sends(path)[i] = Sent(path[i]) /\ IsList(Sends(path)[i])
<1> DEFINE f == Sends(path)
           n == Len(path)
<1>1. n \in Nat
  BY ListIs
<1>2. f = [i \in 1..n |-> f[i]] /\ \A i \in 1..n : f[i] = Sent(path[i])
  BY DEF Sends
<1>3. \A i \in 1..n : IsList(Sent(path[i]))
  BY SentPiece
<1> HIDE DEF f, n
<1>4. IsList(f) /\ Len(f) = n
  BY <1>1, <1>2, ListMade
<1> QED
  BY <1>2, <1>3, <1>4 DEF f, n

LEMMA SendableIs ==
  ASSUME NEW path, IsList(path)
  PROVE  Sendable(path) = FlattenSeq(Sends(path)) /\ IsList(Sendable(path))
<1> DEFINE sent == [i \in DOMAIN path |-> IF path[i] = " " THEN <<"%", "2", "0">> ELSE <<path[i]>>]
<1>1. sent = Sends(path)
  <2>1. DOMAIN path = 1..Len(path)
    BY ListIs
  <2> QED
    BY <2>1, Zenon DEF Sends, Sent
<1>2. Sendable(path) = FlattenSeq(sent)
  BY Zenon DEF Sendable
<1> HIDE DEF sent
<1>3. IsList(FlattenSeq(Sends(path)))
  BY SendsList, FlattenedList
<1> QED
  BY <1>1, <1>2, <1>3

LEMMA BrowsedIs ==
  ASSUME NEW path, IsList(path), Undotted(path), NEW args
  PROVE  Browse(Url(path, args)) = Url(FlattenSeq(Sends(path)), args)
  BY BrowsedPath, SendableIs

\* What a browser makes of a path is a text.
LEMMA ResolvedList ==
  ASSUME NEW path, IsList(path)
  PROVE  IsList(Resolved(path))
<1> DEFINE parts == Parts(path)
           kept == {i \in DOMAIN parts : ~IsDots(parts[i])
                      /\ ~(i + 1 \in DOMAIN parts /\ parts[i + 1] = Up)}
           dirs == Select(parts, kept)
           slash == <<"/">>
           ended == [i \in DOMAIN dirs |-> dirs[i] \o slash]
<1>1. Resolved(path) = path \/ Resolved(path) = slash \o FlattenSeq(ended)
  BY DEF Resolved
<1>2. IsList(dirs) /\ \A i \in 1..Len(dirs) : IsList(dirs[i])
  <2>1. IsList(parts) /\ \A i \in 1..Len(parts) : IsList(parts[i])
    BY PartsList
  <2> HIDE DEF parts, kept
  <2> QED
    BY <2>1, KeptLists
<1>3. IsList(slash)
  BY Single
<1> HIDE DEF dirs, slash
<1>4. Len(dirs) \in Nat /\ DOMAIN dirs = 1..Len(dirs)
  BY <1>2, ListIs
<1>5. ended = [i \in 1..Len(dirs) |-> ended[i]] /\ \A i \in 1..Len(dirs) : ended[i] = dirs[i] \o slash
  BY <1>4
<1> HIDE DEF ended
<1>6. IsList(ended) /\ Len(ended) = Len(dirs)
  BY <1>4, <1>5, ListMade
<1>7. ASSUME NEW i \in 1..Len(ended) PROVE IsList(ended[i])
  <2>1. i \in 1..Len(dirs)
    BY <1>6
  <2>2. IsList(dirs[i])
    BY <1>2, <2>1
  <2> DEFINE d == dirs[i]
  <2>3. ended[i] = d \o slash /\ IsList(d)
    BY <1>5, <2>1, <2>2
  <2> HIDE DEF d
  <2> QED
    BY <1>3, <2>3, JoinedLists
<1>8. IsList(slash \o FlattenSeq(ended))
  BY <1>3, <1>6, <1>7, FlattenedList, JoinedLists
<1> QED
  BY <1>1, <1>8

LEMMA BrowsedList ==
  ASSUME NEW path, IsList(path), NEW args
  PROVE  \E t : IsList(t) /\ Browse(Url(path, args)) = Url(t, args)
  BY BrowsedPath, ResolvedList, SendableIs

\* The parts of a path are sent one after the other ...
LEMMA SentJoined ==
  ASSUME NEW a, IsList(a), NEW b, IsList(b)
  PROVE  FlattenSeq(Sends(a \o b)) = FlattenSeq(Sends(a)) \o FlattenSeq(Sends(b))
<1> DEFINE t == a \o b
           f == Sends(a)
           g == Sends(b)
           h == Sends(t)
           m == Len(a)
           n == Len(b)
<1>1. /\ IsList(t) /\ Len(t) = m + n /\ m \in Nat /\ n \in Nat
      /\ \A i \in 1..(m + n) : t[i] = IF i <= m THEN a[i] ELSE b[i - m]
  BY JoinedLists
<1>2. /\ IsList(f) /\ Len(f) = m /\ \A i \in 1..m : f[i] = Sent(a[i]) /\ IsList(f[i])
  BY SendsList
<1>3. /\ IsList(g) /\ Len(g) = n /\ \A i \in 1..n : g[i] = Sent(b[i]) /\ IsList(g[i])
  BY SendsList
<1> HIDE DEF t
<1>4. /\ IsList(h) /\ Len(h) = m + n /\ \A i \in 1..(m + n) : h[i] = Sent(t[i]) /\ IsList(h[i])
  BY <1>1, SendsList
<1> HIDE DEF f, g, h
<1> DEFINE fg == f \o g
<1>5. /\ IsList(fg) /\ Len(fg) = Len(f) + Len(g)
      /\ \A i \in 1..(Len(f) + Len(g)) : fg[i] = IF i <= Len(f) THEN f[i] ELSE g[i - Len(f)]
  BY <1>2, <1>3, JoinedLists
<1> HIDE DEF fg, m, n
<1>6. IsList(fg) /\ Len(fg) = m + n /\ \A i \in 1..(m + n) : fg[i] = IF i <= m THEN f[i] ELSE g[i - m]
  BY <1>2, <1>3, <1>5
<1>7. ASSUME NEW i \in 1..(m + n) PROVE h[i] = fg[i]
  <2>1. CASE i <= m
    <3>1. i \in 1..m
      BY <1>1, <2>1
    <3>2. h[i] = Sent(a[i])
      BY <1>1, <1>4, <2>1
    <3>3. fg[i] = Sent(a[i])
      BY <1>2, <1>6, <2>1, <3>1
    <3> QED
      BY <3>2, <3>3
  <2>2. CASE ~(i <= m)
    <3>1. i - m \in 1..n
      BY <1>1, <2>2
    <3>2. h[i] = Sent(b[i - m])
      BY <1>1, <1>4, <2>2
    <3>3. fg[i] = Sent(b[i - m])
      BY <1>3, <1>6, <2>2, <3>1
    <3> QED
      BY <3>2, <3>3
  <2> QED
    BY <2>1, <2>2
<1>8. h = fg
  BY <1>4, <1>6, <1>7, ListsSame
<1>9. FlattenSeq(f \o g) = FlattenSeq(f) \o FlattenSeq(g)
  BY <1>2, <1>3, FlatJoined
<1>10. FlattenSeq(fg) = FlattenSeq(f) \o FlattenSeq(g)
  BY <1>9 DEF fg
<1> QED
  BY <1>8, <1>10 DEF f, g, h, t

\* ... as they are, when they have no blanks ...
LEMMA SentPlain ==
  ASSUME NEW a, IsList(a), Without(a, Space)
  PROVE  FlattenSeq(Sends(a)) = a
<1> DEFINE same == [i \in DOMAIN a |-> <<a[i]>>]
<1>1. Sends(a) = same
  <2>1. \A i \in 1..Len(a) : Sent(a[i]) = <<a[i]>>
    BY SentPiece DEF Without
  <2>2. DOMAIN a = 1..Len(a)
    BY ListIs
  <2>3. Sends(a) = [i \in 1..Len(a) |-> Sent(a[i])]
    BY DEF Sends
  <2>4. [i \in 1..Len(a) |-> Sent(a[i])] = [i \in 1..Len(a) |-> <<a[i]>>]
    BY <2>1
  <2> QED
    BY <2>2, <2>3, <2>4
<1> HIDE DEF same
<1>2. FlattenSeq(same) = a
  BY FlatSingles DEF same
<1> QED
  BY <1>1, <1>2

\* ... and else they are decoded as they were.
LEMMA SentDecoded ==
  ASSUME NEW a, IsList(a), Without(a, "%"), Without(a, "+"), Without(a, "NUL"), Without(a, "/")
  PROVE  /\ IsList(FlattenSeq(Sends(a))) /\ UrlDecode(FlattenSeq(Sends(a))) = a
         /\ Without(FlattenSeq(Sends(a)), "/")
         /\ a # <<>> => FlattenSeq(Sends(a)) # <<>>
<1> DEFINE f == Sends(a)
<1>1. IsList(f) /\ Len(f) = Len(a) /\ \A i \in 1..Len(a) : f[i] = Sent(a[i]) /\ IsList(f[i])
  BY SendsList
<1>2. \A i \in 1..Len(a) : Piece(f[i], a[i])
  <2>1. \A i \in 1..Len(a) : a[i] \notin {"%", "+"}
    BY DEF Without
  <2> QED
    BY <1>1, <2>1, SentPiece
<1>3. ASSUME NEW i \in 1..Len(a) PROVE Without(f[i], "/")
  <2> DEFINE c == a[i]
  <2>1. c # "/" /\ f[i] = Sent(c)
    BY <1>1 DEF Without
  <2> HIDE DEF c
  <2>2. CASE c = Space
    <3>1. f[i] = <<"%", "2", "0">>
      BY <2>1, <2>2, SentPiece
    <3>2. Len(<<"%", "2", "0">>) = 3 /\ \A k \in 1..3 : <<"%", "2", "0">>[k] # "/"
      OBVIOUS
    <3> QED
      BY <3>1, <3>2 DEF Without
  <2>3. CASE c # Space
    <3>1. f[i] = <<c>>
      BY <2>1, <2>3, SentPiece
    <3> QED
      BY <2>1, <3>1, OneWithout
  <2> QED
    BY <2>2, <2>3
<1> HIDE DEF f
<1>4. IsList(FlattenSeq(f)) /\ Decoded(FlattenSeq(f), a)
  BY <1>1, <1>2, DecodedFlat
<1>5. Without(FlattenSeq(f), "/")
  BY <1>1, <1>3, FlatWithout
<1>6. UrlDecode(FlattenSeq(f)) = a
  BY <1>4, DecodedIs
<1>7. FlattenSeq(f) = <<>> => a = <<>>
  BY <1>4, NoneSteps
<1> QED
  BY <1>4, <1>5, <1>6, <1>7 DEF f

\* What is kept of a list that has one more element.
LEMMA SelectNext ==
  ASSUME NEW s, IsList(s), NEW x, NEW kept, NEW more, \A i \in 1..Len(s) : i \in more <=> i \in kept
  PROVE  Select(Append(s, x), more) = IF Len(s) + 1 \in more THEN Append(Select(s, kept),
             x) ELSE Select(s, kept)
<1> DEFINE t == Append(s, x)
           S == ToSet(s)
           T == ToSet(t)
           n == Len(s)
<1>1. IsList(t) /\ Len(t) = n + 1 /\ t[n + 1] = x /\ \A i \in 1..n : t[i] = s[i]
  BY AppendedList
<1>2. n \in Nat
  BY ListIs
<1> HIDE DEF t
<1>3. s \in Seq(S) /\ t \in Seq(T)
  BY <1>1 DEF IsList
<1> HIDE DEF S, T
<1>4. PICK old : SelectsBy(S, s, kept, old)
  BY <1>3, SelectSteps
<1>5. PICK new : SelectsBy(T, t, more, new)
  BY <1>3, SelectSteps
<1>6. /\ old[0] = <<>> /\ Select(s, kept) = old[n]
      /\ \A m \in 1..n : old[m] = IF m \in kept THEN Append(old[m - 1], s[m]) ELSE old[m - 1]
  BY <1>4 DEF SelectsBy
<1>7. /\ new[0] = <<>> /\ Select(t, more) = new[n + 1]
      /\ \A m \in 1..(n + 1) : new[m] = IF m \in more THEN Append(new[m - 1], t[m]) ELSE new[m - 1]
  BY <1>1, <1>5 DEF SelectsBy
<1> HIDE DEF n
<1> DEFINE Good == {m \in Nat : m <= n => Same(old, new, m)}
<1>8. 0 \in Good
  BY <1>6, <1>7 DEF Same
<1>9. ASSUME NEW m \in Nat, m \in Good PROVE m + 1 \in Good
  <2>1. SUFFICES ASSUME m + 1 <= n PROVE Same(old, new, m + 1)
    OBVIOUS
  <2>2. m <= n /\ m + 1 \in 1..n /\ m + 1 \in 1..(n + 1) /\ (m + 1) - 1 = m
    BY <1>2, <2>1
  <2>3. old[m] = new[m]
    BY <1>9, <2>2 DEF Same
  <2>4. t[m + 1] = s[m + 1] /\ (m + 1 \in more <=> m + 1 \in kept)
    BY <1>1, <2>2 DEF n
  <2>5. old[m + 1] = IF m + 1 \in kept THEN Append(old[m], s[m + 1]) ELSE old[m]
    BY <1>6, <2>2
  <2>6. new[m + 1] = IF m + 1 \in more THEN Append(new[m], t[m + 1]) ELSE new[m]
    BY <1>7, <2>2
  <2> QED
    BY <2>3, <2>4, <2>5, <2>6 DEF Same
<1>10. Nat \subseteq Good
  <2> HIDE DEF Good
  <2> QED
    BY <1>8, <1>9, Induction
<1>11. old[n] = new[n]
  BY <1>2, <1>10 DEF Same
<1>12. new[n + 1] = IF n + 1 \in more THEN Append(new[n], t[n + 1]) ELSE new[n]
  <2>1. n + 1 \in 1..(n + 1) /\ (n + 1) - 1 = n
    BY <1>2
  <2> QED
    BY <1>7, <2>1
<1> QED
  BY <1>1, <1>6, <1>7, <1>11, <1>12 DEF n, t

\* The directories of a path, before they are decoded.
NotEmpty(parts) == {i \in DOMAIN parts : parts[i] # <<>>}

LEMMA PartsNext ==
  ASSUME NEW a, IsList(a), NEW t, IsList(t), Without(t, "/")
  PROVE  Parts((a \o <<"/">>) \o t) = IF t = <<>> THEN Parts(a) ELSE Append(Parts(a), t)
<1> DEFINE sep == "/"
           s == Split(a, sep)
           p == Append(s, t)
<1>1. Split((a \o <<sep>>) \o t, sep) = p
  <2> HIDE DEF sep
  <2>1. Without(t, sep)
    BY DEF sep
  <2> QED
    BY <2>1, SplitNext
<1>2. IsList(s)
  BY SplitList
<1>3. IsList(p) /\ Len(p) = Len(s) + 1 /\ p[Len(s) + 1] = t /\ \A i \in 1..Len(s) : p[i] = s[i]
  BY <1>2, AppendedList
<1>4. Parts((a \o <<"/">>) \o t) = Select(p, NotEmpty(p)) /\ Parts(a) = Select(s, NotEmpty(s))
  BY <1>1 DEF Parts, NotEmpty
<1>5. DOMAIN s = 1..Len(s) /\ DOMAIN p = 1..(Len(s) + 1) /\ Len(s) \in Nat
  BY <1>2, <1>3, ListIs
<1> HIDE DEF s
<1> DEFINE kept == NotEmpty(s)
           more == NotEmpty(p)
<1>6. \A i \in 1..Len(s) : i \in more <=> i \in kept
  <2> HIDE DEF p
  <2> QED
    BY <1>3, <1>5 DEF NotEmpty
<1>7. Len(s) + 1 \in more <=> t # <<>>
  <2> HIDE DEF p
  <2> QED
    BY <1>3, <1>5 DEF NotEmpty
<1> HIDE DEF kept, more
<1>8. Select(p, more) = IF Len(s) + 1 \in more THEN Append(Select(s, kept), t) ELSE Select(s, kept)
  BY <1>2, <1>6, SelectNext
<1> QED
  BY <1>4, <1>7, <1>8 DEF kept, more

LEMMA PartsNone == Parts(<<>>) = <<>>
<1> DEFINE e == <<>>
           sep == "/"
           s == <<e>>
           kept == NotEmpty(s)
<1>1. Split(e, sep) = s
  <2>1. IsList(e) /\ Len(e) = 0
    BY EmptyList
  <2>2. Without(e, sep)
    BY <2>1 DEF Without
  <2> HIDE DEF sep, e
  <2> QED
    BY <2>1, <2>2, SplitNone
<1>2. kept = {}
  <2>1. DOMAIN s = 1..1 /\ s[1] = e
    BY Single, ListIs
  <2> HIDE DEF s
  <2> QED
    BY <2>1 DEF NotEmpty
<1>3. IsList(s)
  BY Single
<1> HIDE DEF s
<1>4. IsList(Select(s, kept)) /\ Len(Select(s, kept)) = Cardinality(kept \cap (1..Len(s)))
  BY <1>3, SelectedList
<1>5. Len(Select(s, kept)) = 0
  BY <1>2, <1>4, FS_EmptySet
<1>6. Select(s, kept) = <<>>
  BY <1>4, <1>5, EmptyList
<1> QED
  BY <1>1, <1>6 DEF Parts, kept, NotEmpty

Decodes(dirs) == [i \in DOMAIN dirs |-> UrlDecode(dirs[i])]

LEMMA DirsOf ==
  ASSUME NEW path, NEW dirs, Parts(path) = dirs
  PROVE  Dirs(path) = IF dirs = <<>> THEN << <<>> >> ELSE Decodes(dirs)
<1> DEFINE q == Parts(path)
<1>2. Dirs(path) = IF q = <<>> THEN << <<>> >> ELSE [i \in DOMAIN q |-> UrlDecode(q[i])]
  BY DEF Dirs
<1> QED
  BY <1>2 DEF Decodes

LEMMA DecodesOne == ASSUME NEW a PROVE Decodes(<<a>>) = <<UrlDecode(a)>>
BY DEF Decodes

LEMMA DecodesTwo == ASSUME NEW a, NEW b PROVE Decodes(<<a, b>>) = <<UrlDecode(a), UrlDecode(b)>>
BY DEF Decodes

LEMMA DecodesThree == ASSUME NEW a, NEW b, NEW c
  PROVE Decodes(<<a, b, c>>) = <<UrlDecode(a), UrlDecode(b), UrlDecode(c)>>
BY DEF Decodes

LEMMA AppendedNone == ASSUME NEW x PROVE Append(<<>>, x) = <<x>>
OBVIOUS

LEMMA OnePart ==
  ASSUME NEW w, w # "/"
  PROVE  IsList(<<"/", w>>) /\ Parts(<<"/", w>>) = << <<w>> >>
<1> DEFINE e == <<>>
           sep == <<"/">>
           t == <<w>>
           path == (e \o sep) \o t
<1>1. IsList(e) /\ IsList(t) /\ IsList(sep) /\ t # <<>>
  BY EmptyList, Single, OneNotEmpty
<1>2. Without(t, "/")
  BY OneWithout
<1>3. e \o sep = sep
  <2> HIDE DEF sep
  <2> QED
    BY <1>1, NoneJoined DEF e
<1>4. sep \o t = Append(sep, w)
  <2> HIDE DEF sep
  <2> QED
    BY <1>1, JoinedOne DEF t
<1>5. Append(sep, w) = <<"/", w>>
  BY AppendedOne
<1>6. Parts(path) = Append(Parts(e), t)
  <2> HIDE DEF e, t
  <2> QED
    BY <1>1, <1>2, PartsNext
<1>7. Append(Parts(e), t) = <<t>>
  BY PartsNone, AppendedNone
<1>8. IsList(<<"/", w>>)
  BY Pair
<1> QED
  BY <1>3, <1>4, <1>5, <1>6, <1>7, <1>8 DEF path, t

LEMMA TwoParts ==
  ASSUME NEW w, w # "/", NEW t, IsList(t), Without(t, "/")
  PROVE  /\ IsList(<<"/", w, "/">> \o t)
         /\ Parts(<<"/", w, "/">> \o t) = IF t = <<>> THEN << <<w>> >> ELSE << <<w>>, t>>
<1> DEFINE a == <<"/", w>>
           sep == <<"/">>
           f == <<w>>
<1>1. IsList(a) /\ Parts(a) = <<f>>
  BY OnePart
<1>2. IsList(<<"/", w, "/">>)
  BY Triple
<1>3. a \o sep = <<"/", w, "/">>
  <2>1. Append(a, "/") = <<"/", w, "/">>
    BY AppendedTwo
  <2>2. a \o sep = Append(a, "/")
    <3> HIDE DEF a
    <3> QED
      BY <1>1, JoinedOne
  <2> QED
    BY <2>1, <2>2
<1> HIDE DEF a, f
<1>4. Parts((a \o sep) \o t) = IF t = <<>> THEN Parts(a) ELSE Append(Parts(a), t)
  BY <1>1, PartsNext
<1>5. Append(<<f>>, t) = <<f, t>>
  BY AppendedOne
<1>6. IsList(<<"/", w, "/">> \o t)
  BY <1>2, JoinedLists
<1> QED
  BY <1>1, <1>3, <1>4, <1>5, <1>6 DEF f

LEMMA ThreeParts ==
  ASSUME NEW w, w # "/", NEW t, IsList(t), Without(t, "/"), NEW u, IsList(u), Without(u, "/"), u # <<>>
  PROVE  /\ IsList((<<"/", w, "/">> \o t) \o (<<"/">> \o u))
         /\ Parts((<<"/", w, "/">> \o t) \o (<<"/">> \o u))
              = IF t = <<>> THEN << <<w>>, u>> ELSE << <<w>>, t, u>>
<1> DEFINE a == <<"/", w, "/">> \o t
           sep == <<"/">>
           f == <<w>>
<1>1. IsList(a) /\ Parts(a) = IF t = <<>> THEN <<f>> ELSE <<f, t>>
  BY TwoParts
<1>2. IsList(sep)
  BY Single
<1> HIDE DEF a, f, sep
<1>3. a \o (sep \o u) = (a \o sep) \o u /\ IsList((a \o sep) \o u)
  BY <1>1, <1>2, JoinedThree
<1>4. Parts((a \o sep) \o u) = Append(Parts(a), u)
  BY <1>1, PartsNext DEF sep
<1>5. Append(<<f>>, u) = <<f, u>> /\ Append(<<f, t>>, u) = <<f, t, u>>
  BY AppendedOne, AppendedTwo
<1> QED
  BY <1>1, <1>3, <1>4, <1>5 DEF a, f, sep

\* The directories that a request for a path has.
LEMMA OneName ==
  ASSUME NEW w, Word(w)
  PROVE  IsList(<<"/", w>>) /\ Dirs(<<"/", w>>) = << <<w>> >>
<1> DEFINE dirs == << <<w>> >>
<1>1. IsList(<<"/", w>>) /\ Parts(<<"/", w>>) = dirs
  BY OnePart DEF Word
<1>2. dirs # <<>>
  BY OneNotEmpty
<1> HIDE DEF dirs
<1>3. Dirs(<<"/", w>>) = Decodes(dirs)
  BY <1>1, <1>2, DirsOf
<1>4. Decodes(dirs) = << UrlDecode(<<w>>) >>
  BY DecodesOne DEF dirs
<1> QED
  BY <1>1, <1>3, <1>4, WordDecoded

LEMMA TwoNames ==
  ASSUME NEW w, Word(w), NEW t, IsList(t), Without(t, "/"), NEW name, UrlDecode(t) = name
  PROVE  /\ IsList(<<"/", w, "/">> \o t)
         /\ Dirs(<<"/", w, "/">> \o t) = IF t = <<>> THEN << <<w>> >> ELSE << <<w>>, name>>
<1> DEFINE path == <<"/", w, "/">> \o t
           f == <<w>>
<1>1. IsList(path) /\ Parts(path) = IF t = <<>> THEN <<f>> ELSE <<f, t>>
  BY TwoParts DEF Word
<1>2. <<f>> # <<>> /\ <<f, t>> # <<>>
  OBVIOUS
<1>3. UrlDecode(f) = f
  BY WordDecoded
<1> HIDE DEF f, path
<1>4. Decodes(<<f>>) = <<f>> /\ Decodes(<<f, t>>) = <<f, name>>
  BY <1>3, DecodesOne, DecodesTwo
<1>5. Dirs(path) = Decodes(Parts(path))
  BY <1>1, <1>2, DirsOf
<1> QED
  BY <1>1, <1>4, <1>5 DEF f, path

LEMMA ThreeNames ==
  ASSUME NEW w, Word(w), NEW t, IsList(t), Without(t, "/"), NEW name, UrlDecode(t) = name,
         NEW u, IsList(u), Without(u, "/"), u # <<>>, NEW more, UrlDecode(u) = more
  PROVE  /\ IsList((<<"/", w, "/">> \o t) \o (<<"/">> \o u))
         /\ Dirs((<<"/", w, "/">> \o t) \o (<<"/">> \o u))
              = IF t = <<>> THEN << <<w>>, more>> ELSE << <<w>>, name, more>>
<1> DEFINE path == (<<"/", w, "/">> \o t) \o (<<"/">> \o u)
           f == <<w>>
<1>1. IsList(path) /\ Parts(path) = IF t = <<>> THEN <<f, u>> ELSE <<f, t, u>>
  BY ThreeParts DEF Word
<1>2. <<f, u>> # <<>> /\ <<f, t, u>> # <<>>
  OBVIOUS
<1>3. UrlDecode(f) = f
  BY WordDecoded
<1> HIDE DEF f, path
<1>4. Decodes(<<f, u>>) = <<f, more>> /\ Decodes(<<f, t, u>>) = <<f, name, more>>
  BY <1>3, DecodesTwo, DecodesThree
<1>5. Dirs(path) = Decodes(Parts(path))
  BY <1>1, <1>2, DirsOf
<1> QED
  BY <1>1, <1>4, <1>5 DEF f, path

\* A browser sends the path, of which only the middle may have blanks.
LEMMA WordSent ==
  ASSUME NEW w, Word(w), NEW t, IsList(t)
  PROVE  /\ FlattenSeq(Sends(<<"/", w, "/">> \o t)) = <<"/", w, "/">> \o FlattenSeq(Sends(t))
         /\ IsList(<<"/", w, "/">>) /\ IsList(<<"/", w, "/">> \o t)
<1> DEFINE a == <<"/", w, "/">>
<1>1. IsList(a) /\ Len(a) = 3 /\ a[1] = "/" /\ a[2] = w /\ a[3] = "/"
  BY Triple
<1>2. w # Space /\ "/" # Space
  BY WordNotBlank, SlashNotBlank, BlankIs
<1> HIDE DEF a
<1>3. Without(a, Space)
  <2>1. ASSUME NEW k \in 1..3 PROVE a[k] # Space
    <3>1. k = 1 \/ k = 2 \/ k = 3
      OBVIOUS
    <3> QED
      BY <1>1, <1>2, <3>1
  <2> QED
    BY <1>1, <2>1 DEF Without
<1>4. FlattenSeq(Sends(a)) = a
  BY <1>1, <1>3, SentPlain
<1>5. FlattenSeq(Sends(a \o t)) = a \o FlattenSeq(Sends(t))
  BY <1>1, <1>4, SentJoined
<1>6. IsList(a \o t)
  BY <1>1, JoinedLists
<1> QED
  BY <1>1, <1>5, <1>6 DEF a

\* The directories of a path are not dots when neither the word nor the names in it are.
LEMMA DotsAre ==
  ASSUME NEW t
  PROVE  /\ t # <<>> /\ IsList(t) /\ t[1] # "." => ~IsDots(t)
         /\ t # <<>> /\ IsList(t) /\ t[Len(t)] # "." => ~IsDots(t)
<1>1. <<".">>[1] = "." /\ Len(<<".">>) = 1 /\ Up[1] = "." /\ Up[2] = "." /\ Len(Up) = 2
  BY DEF Up
<1> HIDE DEF Up
<1>2. ASSUME IsDots(t) PROVE t[1] = "." /\ t[Len(t)] = "."
  <2>1. CASE t = <<".">>
    BY <1>1, <2>1
  <2>2. CASE t = Up
    BY <1>1, <2>2
  <2> QED
    BY <1>2, <2>1, <2>2 DEF IsDots
<1> QED
  BY <1>2

LEMMA WordNoDots == ASSUME NEW w, Word(w) PROVE ~IsDots(<<w>>)
<1> DEFINE t == <<w>>
<1>1. IsList(t) /\ t # <<>> /\ t[1] = w
  BY Single, OneNotEmpty
<1>2. w # "."
  BY DEF Word
<1> HIDE DEF t
<1>3. ~IsDots(t)
  BY <1>1, <1>2, DotsAre
<1> QED
  BY <1>3 DEF t

LEMMA OneUndotted ==
  ASSUME NEW w, Word(w)
  PROVE  Undotted(<<"/", w>>)
<1> DEFINE f == <<w>>
           dirs == <<f>>
<1>1. Parts(<<"/", w>>) = dirs
  BY OnePart DEF Word
<1>2. ~IsDots(f)
  BY WordNoDots
<1> HIDE DEF f
<1>3. DOMAIN dirs = 1..1 /\ dirs[1] = f
  OBVIOUS
<1> HIDE DEF dirs
<1> QED
  BY <1>1, <1>2, <1>3 DEF Undotted

LEMMA TwoUndotted ==
  ASSUME NEW w, Word(w), NEW t, IsList(t), Without(t, "/"), ~IsDots(t), t # <<>>
  PROVE  Undotted(<<"/", w, "/">> \o t)
<1> DEFINE f == <<w>>
           dirs == <<f, t>>
<1>1. Parts(<<"/", w, "/">> \o t) = dirs
  BY TwoParts DEF Word
<1>2. ~IsDots(f)
  BY WordNoDots
<1> HIDE DEF f
<1>3. DOMAIN dirs = 1..2 /\ dirs[1] = f /\ dirs[2] = t
  OBVIOUS
<1> HIDE DEF dirs
<1> QED
  BY <1>1, <1>2, <1>3 DEF Undotted

LEMMA ThreeUndotted ==
  ASSUME NEW w, Word(w), NEW t, IsList(t), Without(t, "/"), ~IsDots(t), t # <<>>,
         NEW u, IsList(u), Without(u, "/"), u # <<>>, ~IsDots(u)
  PROVE  Undotted((<<"/", w, "/">> \o t) \o (<<"/">> \o u))
<1> DEFINE f == <<w>>
           dirs == <<f, t, u>>
<1>1. Parts((<<"/", w, "/">> \o t) \o (<<"/">> \o u)) = dirs
  BY ThreeParts DEF Word
<1>2. ~IsDots(f)
  BY WordNoDots
<1> HIDE DEF f
<1>3. DOMAIN dirs = 1..3 /\ dirs[1] = f /\ dirs[2] = t /\ dirs[3] = u
  OBVIOUS
<1> HIDE DEF dirs
<1> QED
  BY <1>1, <1>2, <1>3 DEF Undotted

LEMMA TwoSent ==
  ASSUME NEW w, Word(w), NEW t, IsList(t), Without(t, "/"), ~IsDots(t), t # <<>>, NEW args
  PROVE  Browse(Url(<<"/", w, "/">> \o t, args)) = Url(<<"/", w, "/">> \o FlattenSeq(Sends(t)), args)
<1> DEFINE path == <<"/", w, "/">> \o t
<1>1. IsList(path) /\ FlattenSeq(Sends(path)) = <<"/", w, "/">> \o FlattenSeq(Sends(t))
  BY WordSent
<1>2. Undotted(path)
  BY TwoUndotted
<1> HIDE DEF path
<1>3. Browse(Url(path, args)) = Url(FlattenSeq(Sends(path)), args)
  BY <1>1, <1>2, BrowsedIs
<1> QED
  BY <1>1, <1>3 DEF path

LEMMA ThreeSent ==
  ASSUME NEW w, Word(w), NEW t, IsList(t), Without(t, "/"), ~IsDots(t), t # <<>>,
         NEW u, IsList(u), Without(u, "/"), u # <<>>, ~IsDots(u), Without(u, Space), NEW args
  PROVE  Browse(Url((<<"/", w, "/">> \o t) \o (<<"/">> \o u), args))
         = Url((<<"/", w, "/">> \o FlattenSeq(Sends(t))) \o (<<"/">> \o u), args)
<1> DEFINE a == <<"/", w, "/">>
           v == <<"/">> \o u
           path == (a \o t) \o v
<1>1. IsList(a)
  BY Triple
<1>2. IsList(v) /\ Without(v, Space)
  <2>1. IsList(<<"/">>) /\ Without(<<"/">>, Space)
    BY Single, OneWithout, SlashNotBlank, BlankIs
  <2> QED
    BY <2>1, JoinedWithout
<1>21. Undotted(path)
  BY ThreeUndotted
<1> HIDE DEF v
<1>3. IsList(t \o v) /\ path = a \o (t \o v) /\ IsList(path)
  <2>1. IsList(t) /\ IsList(v)
    BY <1>2
  <2>2. IsList(t \o v)
    BY <2>1, JoinedLists
  <2> HIDE DEF a
  <2>3. (a \o t) \o v = a \o (t \o v) /\ IsList((a \o t) \o v)
    BY <1>1, <2>1, JoinedThree
  <2> QED
    BY <2>2, <2>3
<1>4. FlattenSeq(Sends(t \o v)) = FlattenSeq(Sends(t)) \o v
  <2>1. FlattenSeq(Sends(v)) = v
    BY <1>2, SentPlain
  <2> QED
    BY <1>2, <2>1, SentJoined
<1>5. FlattenSeq(Sends(path)) = a \o FlattenSeq(Sends(t \o v))
  <2> HIDE DEF path
  <2> QED
    BY <1>3, WordSent
<1>6. IsList(FlattenSeq(Sends(t)))
  BY SendsList, FlattenedList
<1>7. a \o (FlattenSeq(Sends(t)) \o v) = (a \o FlattenSeq(Sends(t))) \o v
  <2> HIDE DEF a
  <2> DEFINE x == FlattenSeq(Sends(t))
  <2>1. IsList(x)
    BY <1>6
  <2> HIDE DEF x
  <2> QED
    BY <1>1, <1>2, <2>1, JoinedThree DEF x
<1> HIDE DEF path
<1>8. Browse(Url(path, args)) = Url(FlattenSeq(Sends(path)), args)
  BY <1>3, <1>21, BrowsedIs
<1> QED
  BY <1>4, <1>5, <1>7, <1>8 DEF v, path

\* An extension is the last two symbols.
LEMMA ExtensionIs ==
  ASSUME NEW t, IsList(t), NEW x, x # "."
  PROVE  HasExtension(t, <<".", x>>) <=> Len(t) >= 2 /\ t[Len(t) - 1] = "." /\ t[Len(t)] = x
<1> DEFINE ext == <<".", x>>
           n == Len(t)
           dots == {i \in DOMAIN t : t[i] = "."}
           m == Max(dots)
<1>1. n \in Nat /\ DOMAIN t = 1..n
  BY ListIs
<1>2. IsList(ext) /\ Len(ext) = 2 /\ ext[1] = "." /\ ext[2] = x
  BY Pair
<1>3. ext # <<>>
  BY <1>2, EmptyList
<1>4. HasExtension(t, ext) <=> dots # {} /\ SubSeq(t, m, n) = ext
  BY <1>3 DEF HasExtension
<1>5. dots \in SUBSET (1..n) /\ \A i : i \in dots <=> i \in 1..n /\ t[i] = "."
  BY <1>1
<1> HIDE DEF dots, ext, n
<1>6. dots # {} => m \in dots /\ \A k \in dots : k <= m
  BY <1>1, <1>5, GreatestIndex
<1> HIDE DEF m
<1>7. ASSUME dots # {} PROVE /\ m \in 1..n /\ Len(SubSeq(t, m, n)) = n - m + 1 /\ IsList(SubSeq(t, m, n))
                             /\ \A i \in 1..(n - m + 1) : SubSeq(t, m, n)[i] = t[m + i - 1]
  <2>1. m \in 1..n /\ m \in Nat \ {0} /\ n <= Len(t) /\ m <= n + 1
    BY <1>1, <1>5, <1>6, <1>7 DEF n
  <2> QED
    BY <1>1, <2>1, PartOfList
<1>8. ASSUME dots # {}, SubSeq(t, m, n) = ext
      PROVE  n >= 2 /\ t[n - 1] = "." /\ t[n] = x
  <2>1. n - m + 1 = 2 /\ m \in 1..n
    BY <1>2, <1>7, <1>8
  <2>2. m = n - 1 /\ 2 \in 1..(n - m + 1) /\ m + 2 - 1 = n
    BY <1>1, <2>1
  <2>3. t[n] = ext[2]
    BY <1>7, <1>8, <2>2
  <2>4. t[m] = "."
    BY <1>5, <1>6, <1>8
  <2>5. m >= 1
    BY <1>1, <2>1
  <2> QED
    BY <1>1, <1>2, <2>2, <2>3, <2>4, <2>5
<1>9. ASSUME n >= 2, t[n - 1] = ".", t[n] = x
      PROVE  dots # {} /\ SubSeq(t, m, n) = ext
  <2>1. n - 1 \in dots /\ n \notin dots
    BY <1>1, <1>5, <1>9
  <2>2. m \in dots /\ n - 1 <= m
    BY <1>6, <2>1
  <2>3. m \in 1..n /\ m # n
    BY <1>5, <2>1, <2>2
  <2>4. m = n - 1
    BY <1>1, <2>2, <2>3
  <2>5. /\ n - m + 1 = 2 /\ 1 \in 1..(n - m + 1) /\ 2 \in 1..(n - m + 1)
        /\ m + 1 - 1 = n - 1 /\ m + 2 - 1 = n
    BY <1>1, <2>4
  <2>6. Len(SubSeq(t, m, n)) = 2 /\ IsList(SubSeq(t, m, n))
    BY <1>7, <2>1, <2>5
  <2>7. SubSeq(t, m, n)[1] = "." /\ SubSeq(t, m, n)[2] = x
    BY <1>7, <1>9, <2>1, <2>5
  <2> DEFINE s == SubSeq(t, m, n)
  <2> HIDE DEF s
  <2>8. \A i \in 1..Len(s) : s[i] = ext[i]
    <3>1. Len(s) = 2 /\ s[1] = "." /\ s[2] = x
      BY <2>6, <2>7 DEF s
    <3>2. ASSUME NEW i \in 1..2 PROVE s[i] = ext[i]
      <4>1. i = 1 \/ i = 2
        OBVIOUS
      <4> QED
        BY <1>2, <3>1, <4>1
    <3> QED
      BY <3>1, <3>2
  <2>9. s = ext
    BY <1>2, <2>6, <2>8, ListsSame DEF s
  <2> QED
    BY <2>1, <2>9 DEF s
<1> QED
  BY <1>4, <1>8, <1>9 DEF ext, n

\* A name with an extension loses it.
LEMMA ExtensionCut ==
  ASSUME NEW t, IsList(t), NEW ext, IsList(ext)
  PROVE  IsList(t \o ext) /\ Cut(t \o ext, ext) = t
<1> DEFINE s == t \o ext
           n == Len(t)
<1>1. /\ IsList(s) /\ n \in Nat /\ Len(ext) \in Nat /\ Len(s) = n + Len(ext)
      /\ \A i \in 1..(n + Len(ext)) : s[i] = IF i <= n THEN t[i] ELSE ext[i - n]
  BY JoinedLists
<1> HIDE DEF s
<1>2. Len(s) - Len(ext) = n /\ n <= Len(s)
  BY <1>1
<1>3. IsList(SubSeq(s, 1, n)) /\ Len(SubSeq(s, 1, n)) = n /\ \A i \in 1..n : SubSeq(s, 1, n)[i] = s[i]
  BY <1>1, <1>2, FirstPart
<1>4. \A i \in 1..n : SubSeq(s, 1, n)[i] = t[i]
  BY <1>1, <1>3
<1>5. SubSeq(s, 1, n) = t
  BY <1>3, <1>4, ListsSame
<1> QED
  BY <1>1, <1>2, <1>5 DEF Cut, s

LEMMA ExtensionPut ==
  ASSUME NEW t, IsList(t), NEW x, x # "."
  PROVE  LET s == t \o <<".", x>>
         IN  IsList(s) /\ Len(s) = Len(t) + 2 /\ HasExtension(s, <<".", x>>) /\ s[Len(s)] = x
<1> DEFINE ext == <<".", x>>
           s == t \o ext
           n == Len(t)
<1>1. IsList(ext) /\ Len(ext) = 2 /\ ext[1] = "." /\ ext[2] = x
  BY Pair
<1> HIDE DEF ext
<1>2. /\ IsList(s) /\ n \in Nat /\ Len(s) = n + Len(ext)
      /\ \A i \in 1..(n + Len(ext)) : s[i] = IF i <= n THEN t[i] ELSE ext[i - n]
  BY <1>1, JoinedLists
<1> HIDE DEF s
<1>3. Len(s) = n + 2
  BY <1>1, <1>2
<1>4. s[n + 1] = "."
  <2>1. n + 1 \in 1..(n + Len(ext)) /\ ~(n + 1 <= n) /\ (n + 1) - n = 1
    BY <1>1, <1>2
  <2> QED
    BY <1>1, <1>2, <2>1
<1>5. s[n + 2] = x
  <2>1. n + 2 \in 1..(n + Len(ext)) /\ ~(n + 2 <= n) /\ (n + 2) - n = 2
    BY <1>1, <1>2
  <2> QED
    BY <1>1, <1>2, <2>1
<1>6. Len(s) >= 2 /\ Len(s) - 1 = n + 1
  BY <1>2, <1>3
<1>7. HasExtension(s, <<".", x>>)
  BY <1>2, <1>3, <1>4, <1>5, <1>6, ExtensionIs
<1> QED
  BY <1>2, <1>3, <1>5, <1>7 DEF s, ext

-----------------------------------------------------------------------------
\* Routes one after the other: those that do not match are skipped.
Skips(s, t, onlyleaf) == IsList(s) /\ \A q \in ToSet(s) : ~Matches(q, t, onlyleaf)

Gives(s, t, onlyleaf, r) == IsList(s) /\ Finds(s, t, onlyleaf, r)

LEMMA SkipsJoined ==
  ASSUME NEW t, NEW onlyleaf, NEW a, Skips(a, t, onlyleaf), NEW b, Skips(b, t, onlyleaf)
  PROVE  Skips(a \o b, t, onlyleaf)
<1>1. IsList(a) /\ IsList(b)
  BY DEF Skips
<1> DEFINE s == a \o b
<1>2. IsList(s) /\ ToSet(s) = ToSet(a) \cup ToSet(b)
  BY <1>1, JoinedLists
<1> HIDE DEF s
<1>3. Skips(s, t, onlyleaf)
  BY <1>2 DEF Skips
<1> QED
  BY <1>3 DEF s

LEMMA GivesFirst ==
  ASSUME NEW t, NEW onlyleaf, NEW r, NEW a, Gives(a, t, onlyleaf, r), NEW b, IsList(b)
  PROVE  Gives(a \o b, t, onlyleaf, r)
BY FindsFirst DEF Gives

LEMMA GivesNext ==
  ASSUME NEW t, NEW onlyleaf, NEW r, NEW a, Skips(a, t, onlyleaf), NEW b, Gives(b, t, onlyleaf, r)
  PROVE  Gives(a \o b, t, onlyleaf, r)
<1> DEFINE s == a \o b
           c == FindChildRoute(b, t, onlyleaf)
           d == FindChildRoute(s, t, onlyleaf)
           n == Len(a)
<1>1. IsList(a) /\ IsList(b) /\ \A q \in ToSet(a) : ~Matches(q, t, onlyleaf)
  BY DEF Skips, Gives
<1>2. /\ IsList(s) /\ n \in Nat /\ Len(b) \in Nat /\ Len(s) = n + Len(b)
      /\ \A i \in 1..(n + Len(b)) : s[i] = IF i <= n THEN a[i] ELSE b[i - n]
  BY <1>1, JoinedLists
<1>3. c \in 1..Len(b) /\ b[c] = r
  BY DEF Gives, Finds
<1> HIDE DEF s, n
<1>4. c \in Candidates(b, t, onlyleaf) /\ \A i \in Candidates(b, t, onlyleaf) : c <= i
  <2>1. Candidates(b, t, onlyleaf) # {}
    <3>1. c # 0
      BY <1>2, <1>3
    <3> HIDE DEF c
    <3> QED
      BY <1>1, <3>1, ChildFound DEF c
  <2> QED
    BY <1>1, <2>1, ChildFound
<1> HIDE DEF c
<1>5. \A i \in 1..n : s[i] = a[i] /\ a[i] \in ToSet(a)
  <2>1. ToSet(a) = {a[i] : i \in 1..n}
    BY <1>1, ListIs DEF n
  <2>2. ASSUME NEW i \in 1..n PROVE s[i] = a[i] /\ a[i] \in ToSet(a)
    <3>1. i \in 1..(n + Len(b)) /\ i <= n
      BY <1>2
    <3> QED
      BY <1>2, <2>1, <3>1
  <2> QED
    BY <2>2
<1>6. \A i \in Candidates(s, t, onlyleaf) : ~(i \in 1..n)
  <2> SUFFICES ASSUME NEW i \in Candidates(s, t, onlyleaf), i \in 1..n PROVE FALSE
    OBVIOUS
  <2>1. Matches(s[i], t, onlyleaf)
    BY DEF Candidates, Matches
  <2> QED
    BY <1>1, <1>5, <2>1
<1>7. \A i \in 1..Len(b) : s[n + i] = b[i] /\ n + i \in 1..Len(s)
  <2> SUFFICES ASSUME NEW i \in 1..Len(b) PROVE s[n + i] = b[i] /\ n + i \in 1..Len(s)
    OBVIOUS
  <2>1. n + i \in 1..(n + Len(b)) /\ ~(n + i <= n) /\ (n + i) - n = i
    BY <1>2
  <2> QED
    BY <1>2, <2>1
<1>8. n + c \in Candidates(s, t, onlyleaf)
  <2>1. Matches(b[c], t, onlyleaf)
    BY <1>4 DEF Candidates, Matches
  <2>2. Matches(s[n + c], t, onlyleaf) /\ n + c \in 1..Len(s)
    BY <1>3, <1>7, <2>1
  <2> QED
    BY <2>2 DEF Candidates, Matches
<1>9. d \in Candidates(s, t, onlyleaf) /\ d \in 1..Len(s) /\ d <= n + c
  BY <1>2, <1>8, ChildFound
<1> HIDE DEF d
<1>10. d - n \in 1..Len(b)
  <2>1. ~(d \in 1..n)
    BY <1>6, <1>9
  <2> QED
    BY <1>2, <1>9, <2>1
<1>11. n + (d - n) = d
  BY <1>2, <1>9
<1>12. d - n \in Candidates(b, t, onlyleaf)
  <2>1. Matches(s[d], t, onlyleaf)
    BY <1>9 DEF Candidates, Matches
  <2>2. s[d] = b[d - n]
    BY <1>7, <1>10, <1>11
  <2> QED
    BY <1>10, <2>1, <2>2 DEF Candidates, Matches
<1>13. d = n + c
  <2>1. c <= d - n
    BY <1>4, <1>12
  <2> QED
    BY <1>2, <1>3, <1>9, <2>1
<1>14. s[d] = r
  BY <1>3, <1>7, <1>13
<1> QED
  BY <1>2, <1>9, <1>14 DEF Gives, Finds, d, s

\* Whether the directory is the last one.
AtEnd == TRUE

Inside == FALSE

\* Whether a name and an extension match the directory.
Fits(t, name, ext) == HasExtension(t, ext) /\ name \in {Star, Cut(t, ext)}

\* It has no extension a route has.
Bare(t) == IsList(t) /\ ~HasExtension(t, HtmlExt) /\ ~HasExtension(t, JsonExt) /\ ~HasExtension(t, SvgExt)

LEMMA RouteFits ==
  ASSUME NEW name, NEW ext, NEW page, NEW routes, NEW t, NEW onlyleaf
  PROVE  Matches(Route(name, ext, page, routes), t, onlyleaf)
           <=> ~(onlyleaf /\ routes # <<>>) /\ Fits(t, name, ext)
<1> DEFINE r == Route(name, ext, page, routes)
<1>1. r.name = name /\ r.ext = ext /\ r.routes = routes
  BY DEF Route
<1> HIDE DEF r
<1>2. RouteMatch(r, t) <=> Fits(t, name, ext)
  BY <1>1 DEF RouteMatch, Fits
<1>3. Matches(r, t, onlyleaf) <=> ~(onlyleaf /\ routes # <<>>) /\ RouteMatch(r, t)
  BY <1>1 DEF Matches
<1> QED
  BY <1>2, <1>3 DEF r

LEMMA WholeFits ==
  ASSUME NEW t, IsList(t), NEW name
  PROVE  Fits(t, name, <<>>) <=> name \in {Star, t}
<1>1. Cut(t, <<>>) = t
  BY WholeCut
<1>2. HasExtension(t, <<>>)
  BY DEF HasExtension
<1> QED
  BY <1>1, <1>2 DEF Fits

LEMMA LeafGives ==
  ASSUME NEW name, NEW ext, NEW page, NEW t, NEW onlyleaf, Fits(t, name, ext)
  PROVE  Gives(Leaf(name, ext, page), t, onlyleaf, Route(name, ext, page, <<>>))
<1> DEFINE s == Leaf(name, ext, page)
           r == Route(name, ext, page, <<>>)
<1>1. IsList(s) /\ ToSet(s) = {r}
  BY LeafSet
<1>2. Matches(r, t, onlyleaf)
  BY RouteFits
<1> HIDE DEF s, r
<1>3. r \in ToSet(s) /\ \A q \in ToSet(s) : Matches(q, t, onlyleaf) => q = r
  BY <1>1
<1>4. Finds(s, t, onlyleaf, r)
  BY <1>1, <1>2, <1>3, FindsOnly
<1> QED
  BY <1>1, <1>4 DEF Gives, s, r

LEMMA LeafSkips ==
  ASSUME NEW name, NEW ext, NEW page, NEW t, NEW onlyleaf, ~Fits(t, name, ext)
  PROVE  Skips(Leaf(name, ext, page), t, onlyleaf)
<1> DEFINE s == Leaf(name, ext, page)
           r == Route(name, ext, page, <<>>)
<1>1. IsList(s) /\ ToSet(s) = {r}
  BY LeafSet
<1>2. ~Matches(r, t, onlyleaf)
  BY RouteFits
<1> HIDE DEF s, r
<1> QED
  BY <1>1, <1>2 DEF Skips, s

LEMMA DirGives ==
  ASSUME NEW name, NEW routes, NEW t, Fits(t, name, <<>>)
  PROVE  Gives(Dir(name, routes), t, Inside, Route(name, <<>>, "", routes))
<1> DEFINE s == Dir(name, routes)
           r == Route(name, <<>>, "", routes)
<1>1. IsList(s) /\ ToSet(s) = {r}
  BY DirSet
<1>2. Matches(r, t, Inside)
  BY RouteFits DEF Inside
<1> HIDE DEF s, r
<1>3. r \in ToSet(s) /\ \A q \in ToSet(s) : Matches(q, t, Inside) => q = r
  BY <1>1
<1>4. Finds(s, t, Inside, r)
  BY <1>1, <1>2, <1>3, FindsOnly
<1> QED
  BY <1>1, <1>4 DEF Gives, s, r

LEMMA DirSkips ==
  ASSUME NEW name, NEW routes, NEW t, NEW onlyleaf, ~Fits(t, name, <<>>)
  PROVE  Skips(Dir(name, routes), t, onlyleaf)
<1> DEFINE s == Dir(name, routes)
           r == Route(name, <<>>, "", routes)
<1>1. IsList(s) /\ ToSet(s) = {r}
  BY DirSet
<1>2. ~Matches(r, t, onlyleaf)
  BY RouteFits
<1> HIDE DEF s, r
<1> QED
  BY <1>1, <1>2 DEF Skips, s

LEMMA DirLast ==
  ASSUME NEW name, NEW routes, routes # <<>>, NEW t
  PROVE  Skips(Dir(name, routes), t, AtEnd)
<1> DEFINE s == Dir(name, routes)
           r == Route(name, <<>>, "", routes)
<1>1. IsList(s) /\ ToSet(s) = {r}
  BY DirSet
<1>2. ~Matches(r, t, AtEnd)
  <2>1. r.routes = routes
    BY DEF Route
  <2> HIDE DEF r
  <2> QED
    BY <2>1 DEF Matches, AtEnd
<1> HIDE DEF s, r
<1> QED
  BY <1>1, <1>2 DEF Skips, s

LEMMA HtmlIs ==
  ASSUME NEW name, NEW page
  PROVE  Html(name, page) = Leaf(name, HtmlExt, page) \o Leaf(name, <<>>, page)
BY DEF Html, HtmlExt

LEMMA HtmlSkips ==
  ASSUME NEW name, NEW page, NEW t, NEW onlyleaf, ~Fits(t, name, HtmlExt), ~Fits(t, name, <<>>)
  PROVE  Skips(Html(name, page), t, onlyleaf)
<1> DEFINE e == <<>>
           a == Leaf(name, HtmlExt, page)
           b == Leaf(name, e, page)
<1>1. Skips(a, t, onlyleaf)
  BY LeafSkips
<1>2. Skips(b, t, onlyleaf)
  <2>1. ~Fits(t, name, e)
    OBVIOUS
  <2> HIDE DEF e
  <2> QED
    BY <2>1, LeafSkips
<1>3. Html(name, page) = a \o b
  BY HtmlIs
<1> HIDE DEF a, b
<1> QED
  BY <1>1, <1>2, <1>3, SkipsJoined

LEMMA HtmlGives ==
  ASSUME NEW name, NEW page, NEW t, NEW onlyleaf, ~Fits(t, name, HtmlExt), Fits(t, name, <<>>)
  PROVE  Gives(Html(name, page), t, onlyleaf, Route(name, <<>>, page, <<>>))
<1> DEFINE e == <<>>
           a == Leaf(name, HtmlExt, page)
           b == Leaf(name, e, page)
           r == Route(name, e, page, <<>>)
<1>1. Skips(a, t, onlyleaf)
  BY LeafSkips
<1>2. Gives(b, t, onlyleaf, r)
  <2>1. Fits(t, name, e)
    OBVIOUS
  <2> HIDE DEF e
  <2> QED
    BY <2>1, LeafGives
<1>3. Html(name, page) = a \o b
  BY HtmlIs
<1> HIDE DEF a, b, r
<1>4. Gives(Html(name, page), t, onlyleaf, r)
  BY <1>1, <1>2, <1>3, GivesNext
<1> QED
  BY <1>4 DEF r

LEMMA HtmlGivesCut ==
  ASSUME NEW name, NEW page, NEW t, NEW onlyleaf, Fits(t, name, HtmlExt)
  PROVE  Gives(Html(name, page), t, onlyleaf, Route(name, HtmlExt, page, <<>>))
<1> DEFINE a == Leaf(name, HtmlExt, page)
           b == Leaf(name, <<>>, page)
           r == Route(name, HtmlExt, page, <<>>)
<1>1. Gives(a, t, onlyleaf, r)
  BY LeafGives
<1>2. IsList(b)
  BY LeafSet
<1>3. Html(name, page) = a \o b
  BY HtmlIs
<1> HIDE DEF a, b, r
<1>4. Gives(Html(name, page), t, onlyleaf, r)
  BY <1>1, <1>2, <1>3, GivesFirst
<1> QED
  BY <1>4 DEF r

LEMMA GivenList ==
  ASSUME NEW s, NEW t, NEW onlyleaf, NEW r, Gives(s, t, onlyleaf, r)
  PROVE  IsList(s)
BY DEF Gives

LEMMA SkippedList == ASSUME NEW s, NEW t, NEW onlyleaf, Skips(s, t, onlyleaf) PROVE IsList(s)
BY DEF Skips

-----------------------------------------------------------------------------
\* The first directory, when there is another.
Enters(w, routes) ==
    \/ w = "pages" /\ routes = Html(Star, "old_player_list")
    \/ w = "players" /\ routes = PlayersRoutes
    \/ w = "player" /\ routes = PlayerRoutes
    \/ w = "clans" /\ routes = ClansRoutes
    \/ w = "clan" /\ routes = Html(Star, "clan")
    \/ w = "servers" /\ routes = ServersRoutes
    \/ w = "server" /\ routes = Html(Star, "server")

LEMMA EntersWord ==
  ASSUME NEW w, NEW routes, Enters(w, routes)
  PROVE  Word(w)
<1>1. Word("pages") /\ Word("players") /\ Word("player") /\ Word("clans") /\ Word("clan") /\ Word("servers") /\ Word("server")
  BY DEF Word, IsBlank
<1> QED
  BY <1>1 DEF Enters

Reached(a, w, routes, S) ==
    IF w \in S THEN Gives(a, <<w>>, Inside, Route(<<w>>, <<>>, "", routes)) ELSE Skips(a, <<w>>, Inside)

LEMMA ReachedNext ==
  ASSUME NEW w, NEW routes, NEW S, NEW a, Reached(a, w, routes, S), NEW b, IsList(b), NEW T,
         w \notin S => Reached(b, w, routes, T)
  PROVE  Reached(a \o b, w, routes, S \cup T)
<1> DEFINE r == Route(<<w>>, <<>>, "", routes)
           t == <<w>>
<1> HIDE DEF r, t
<1>1. CASE w \in S
  <2>1. Gives(a, t, Inside, r)
    BY <1>1 DEF Reached, r, t
  <2>2. Gives(a \o b, t, Inside, r)
    BY <2>1, GivesFirst
  <2> QED
    BY <1>1, <2>2 DEF Reached, r, t
<1>2. CASE w \notin S /\ w \in T
  <2>1. Skips(a, t, Inside) /\ Gives(b, t, Inside, r)
    BY <1>2 DEF Reached, r, t
  <2>2. Gives(a \o b, t, Inside, r)
    BY <2>1, GivesNext
  <2> QED
    BY <1>2, <2>2 DEF Reached, r, t
<1>3. CASE w \notin S /\ w \notin T
  <2>1. Skips(a, t, Inside) /\ Skips(b, t, Inside)
    BY <1>3 DEF Reached, r, t
  <2>2. Skips(a \o b, t, Inside)
    BY <2>1, SkipsJoined
  <2> QED
    BY <1>3, <2>2 DEF Reached, r, t
<1> QED
  BY <1>1, <1>2, <1>3

LEMMA WordFits ==
  ASSUME NEW w, Word(w), NEW ext \in ListExtensions, NEW name
  PROVE  Fits(<<w>>, name, ext) <=> ext = <<>> /\ name \in {Star, <<w>>}
<1> DEFINE t == <<w>>
           r == Route(name, ext, "", <<>>)
<1>1. Matches(r, t, FALSE) <=> ext = <<>> /\ name \in {Star, t}
  BY WordMatches DEF ListExtensions
<1>2. Matches(r, t, FALSE) <=> Fits(t, name, ext)
  BY RouteFits
<1> QED
  BY <1>1, <1>2

LEMMA WordHtml ==
  ASSUME NEW w, Word(w), NEW name
  PROVE  ~Fits(<<w>>, name, HtmlExt) /\ (Fits(<<w>>, name, <<>>) <=> name \in {Star, <<w>>})
<1>1. HtmlExt # <<>>
  <2>1. Len(HtmlExt) = 2 /\ Len(<<>>) = 0
    BY Pair, EmptyList DEF HtmlExt
  <2> HIDE DEF HtmlExt
  <2> QED
    BY <2>1
<1>2. HtmlExt \in ListExtensions /\ <<>> \in ListExtensions
  BY DEF ListExtensions
<1> HIDE DEF HtmlExt
<1> QED
  BY <1>1, <1>2, WordFits

\* A section that is not w is skipped, as a page and as a directory.
LEMMA OtherReached ==
  ASSUME NEW w, Word(w), NEW v, v # w, v # "*", NEW page, NEW inner, NEW routes
  PROVE  /\ Reached(Html(<<v>>, page), w, routes, {}) /\ IsList(Html(<<v>>, page))
         /\ Reached(Dir(<<v>>, inner), w, routes, {}) /\ IsList(Dir(<<v>>, inner))
<1> DEFINE t == <<w>>
           name == <<v>>
<1>1. name \notin {Star, t}
  BY DEF Star
<1>2. ~Fits(t, name, HtmlExt) /\ ~Fits(t, name, <<>>)
  BY <1>1, WordHtml
<1> HIDE DEF t, name
<1>3. Skips(Html(name, page), t, Inside) /\ Skips(Dir(name, inner), t, Inside)
  BY <1>2, HtmlSkips, DirSkips
<1>4. IsList(Html(name, page)) /\ IsList(Dir(name, inner))
  BY <1>3, SkippedList
<1> QED
  BY <1>3, <1>4 DEF Reached, t, name

LEMMA DirReached ==
  ASSUME NEW w, Word(w), NEW v, v # "*", NEW inner, NEW routes, v = w => inner = routes
  PROVE  Reached(Dir(<<v>>, inner), w, routes, {v}) /\ IsList(Dir(<<v>>, inner))
<1>1. CASE v # w
  BY <1>1, OtherReached DEF Reached
<1>2. CASE v = w
  <2> DEFINE t == <<w>>
  <2>1. Fits(t, t, <<>>)
    BY WordHtml
  <2> HIDE DEF t
  <2>2. Gives(Dir(t, inner), t, Inside, Route(t, <<>>, "", inner))
    BY <2>1, DirGives
  <2>3. IsList(Dir(t, inner))
    BY <2>2, GivenList
  <2> QED
    BY <1>2, <2>2, <2>3 DEF Reached, t
<1> QED
  BY <1>1, <1>2

LEMMA RootInside ==
  ASSUME NEW w, NEW routes, Enters(w, routes)
  PROVE  Gives(Root, <<w>>, Inside, Route(<<w>>, <<>>, "", routes))
<1>1. Word(w) /\ w # "search"
  BY EntersWord DEF Enters
<1> DEFINE h1 == Html(<<"search">>, "search")
           h2 == Dir(<<"pages">>, Html(Star, "old_player_list"))
           h3 == Dir(<<"players">>, PlayersRoutes)
           h4 == Html(<<"players">>, "player_list")
           h5 == Dir(<<"player">>, PlayerRoutes)
           h6 == Dir(<<"clans">>, ClansRoutes)
           h7 == Html(<<"clans">>, "clan_list")
           h8 == Dir(<<"clan">>, Html(Star, "clan"))
           h9 == Dir(<<"servers">>, ServersRoutes)
           h10 == Html(<<"servers">>, "server_list")
           h11 == Dir(<<"server">>, Html(Star, "server"))
           h12 == Html(<<>>, "player_list")
           a1 == h1
           a2 == a1 \o h2
           a3 == a2 \o h3
           a4 == a3 \o h4
           a5 == a4 \o h5
           a6 == a5 \o h6
           a7 == a6 \o h7
           a8 == a7 \o h8
           a9 == a8 \o h9
           a10 == a9 \o h10
           a11 == a10 \o h11
           a12 == a11 \o h12
<1>2. Root = a12
  BY DEF Root
<1>3. Reached(h1, w, routes, {}) /\ IsList(h1)
  BY <1>1, OtherReached
<1>4. Reached(h2, w, routes, {"pages"}) /\ IsList(h2)
  <2>1. "pages" = w => Html(Star, "old_player_list") = routes
    BY DEF Enters
  <2> QED
    BY <1>1, <2>1, DirReached
<1>5. Reached(h3, w, routes, {"players"}) /\ IsList(h3)
  <2>1. "players" = w => PlayersRoutes = routes
    BY DEF Enters
  <2> QED
    BY <1>1, <2>1, DirReached
<1>6. (w # "players" => Reached(h4, w, routes, {})) /\ IsList(h4)
  <2>1. IsList(h4)
    BY HtmlSet
  <2>2. w # "players" => Reached(h4, w, routes, {})
    BY <1>1, OtherReached
  <2> QED
    BY <2>1, <2>2
<1>7. Reached(h5, w, routes, {"player"}) /\ IsList(h5)
  <2>1. "player" = w => PlayerRoutes = routes
    BY DEF Enters
  <2> QED
    BY <1>1, <2>1, DirReached
<1>8. Reached(h6, w, routes, {"clans"}) /\ IsList(h6)
  <2>1. "clans" = w => ClansRoutes = routes
    BY DEF Enters
  <2> QED
    BY <1>1, <2>1, DirReached
<1>9. (w # "clans" => Reached(h7, w, routes, {})) /\ IsList(h7)
  <2>1. IsList(h7)
    BY HtmlSet
  <2>2. w # "clans" => Reached(h7, w, routes, {})
    BY <1>1, OtherReached
  <2> QED
    BY <2>1, <2>2
<1>10. Reached(h8, w, routes, {"clan"}) /\ IsList(h8)
  <2>1. "clan" = w => Html(Star, "clan") = routes
    BY DEF Enters
  <2> QED
    BY <1>1, <2>1, DirReached
<1>11. Reached(h9, w, routes, {"servers"}) /\ IsList(h9)
  <2>1. "servers" = w => ServersRoutes = routes
    BY DEF Enters
  <2> QED
    BY <1>1, <2>1, DirReached
<1>12. (w # "servers" => Reached(h10, w, routes, {})) /\ IsList(h10)
  <2>1. IsList(h10)
    BY HtmlSet
  <2>2. w # "servers" => Reached(h10, w, routes, {})
    BY <1>1, OtherReached
  <2> QED
    BY <2>1, <2>2
<1>13. Reached(h11, w, routes, {"server"}) /\ IsList(h11)
  <2>1. "server" = w => Html(Star, "server") = routes
    BY DEF Enters
  <2> QED
    BY <1>1, <2>1, DirReached
<1>14. IsList(h12)
  BY HtmlSet
<1> HIDE DEF h1, h2, h3, h4, h5, h6, h7, h8, h9, h10, h11, h12
<1>15. Reached(a1, w, routes, {}) /\ IsList(a1)
  BY <1>3
<1>16. Reached(a2, w, routes, {"pages"})
  <2> DEFINE S == {}
             T == {"pages"}
  <2>1. S \cup T = {"pages"}
    OBVIOUS
  <2>2. w \notin S => Reached(h2, w, routes, T)
    BY <1>4
  <2>3. Reached(a1, w, routes, S)
    BY <1>15
  <2> HIDE DEF S, T, a1
  <2>4. IsList(h2)
    BY <1>4
  <2>5. Reached(a1 \o h2, w, routes, S \cup T)
    BY <2>2, <2>3, <2>4, ReachedNext
  <2> QED
    BY <2>1, <2>5
<1>17. Reached(a3, w, routes, {"pages", "players"})
  <2> DEFINE S == {"pages"}
             T == {"players"}
  <2>1. S \cup T = {"pages", "players"}
    OBVIOUS
  <2>2. w \notin S => Reached(h3, w, routes, T)
    BY <1>5
  <2>3. Reached(a2, w, routes, S)
    BY <1>16
  <2> HIDE DEF S, T, a2
  <2>4. IsList(h3)
    BY <1>5
  <2>5. Reached(a2 \o h3, w, routes, S \cup T)
    BY <2>2, <2>3, <2>4, ReachedNext
  <2> QED
    BY <2>1, <2>5
<1>18. Reached(a4, w, routes, {"pages", "players"})
  <2> DEFINE S == {"pages", "players"}
             T == {}
  <2>1. S \cup T = {"pages", "players"}
    OBVIOUS
  <2>2. w \notin S => Reached(h4, w, routes, T)
    <3>1. "players" \in S
      OBVIOUS
    <3> QED
      BY <1>6, <3>1
  <2>3. Reached(a3, w, routes, S)
    BY <1>17
  <2> HIDE DEF S, T, a3
  <2>4. IsList(h4)
    BY <1>6
  <2>5. Reached(a3 \o h4, w, routes, S \cup T)
    BY <2>2, <2>3, <2>4, ReachedNext
  <2> QED
    BY <2>1, <2>5
<1>19. Reached(a5, w, routes, {"pages", "players", "player"})
  <2> DEFINE S == {"pages", "players"}
             T == {"player"}
  <2>1. S \cup T = {"pages", "players", "player"}
    OBVIOUS
  <2>2. w \notin S => Reached(h5, w, routes, T)
    BY <1>7
  <2>3. Reached(a4, w, routes, S)
    BY <1>18
  <2> HIDE DEF S, T, a4
  <2>4. IsList(h5)
    BY <1>7
  <2>5. Reached(a4 \o h5, w, routes, S \cup T)
    BY <2>2, <2>3, <2>4, ReachedNext
  <2> QED
    BY <2>1, <2>5
<1>20. Reached(a6, w, routes, {"pages", "players", "player", "clans"})
  <2> DEFINE S == {"pages", "players", "player"}
             T == {"clans"}
  <2>1. S \cup T = {"pages", "players", "player", "clans"}
    OBVIOUS
  <2>2. w \notin S => Reached(h6, w, routes, T)
    BY <1>8
  <2>3. Reached(a5, w, routes, S)
    BY <1>19
  <2> HIDE DEF S, T, a5
  <2>4. IsList(h6)
    BY <1>8
  <2>5. Reached(a5 \o h6, w, routes, S \cup T)
    BY <2>2, <2>3, <2>4, ReachedNext
  <2> QED
    BY <2>1, <2>5
<1>21. Reached(a7, w, routes, {"pages", "players", "player", "clans"})
  <2> DEFINE S == {"pages", "players", "player", "clans"}
             T == {}
  <2>1. S \cup T = {"pages", "players", "player", "clans"}
    OBVIOUS
  <2>2. w \notin S => Reached(h7, w, routes, T)
    <3>1. "clans" \in S
      OBVIOUS
    <3> QED
      BY <1>9, <3>1
  <2>3. Reached(a6, w, routes, S)
    BY <1>20
  <2> HIDE DEF S, T, a6
  <2>4. IsList(h7)
    BY <1>9
  <2>5. Reached(a6 \o h7, w, routes, S \cup T)
    BY <2>2, <2>3, <2>4, ReachedNext
  <2> QED
    BY <2>1, <2>5
<1>22. Reached(a8, w, routes, {"pages", "players", "player", "clans", "clan"})
  <2> DEFINE S == {"pages", "players", "player", "clans"}
             T == {"clan"}
  <2>1. S \cup T = {"pages", "players", "player", "clans", "clan"}
    OBVIOUS
  <2>2. w \notin S => Reached(h8, w, routes, T)
    BY <1>10
  <2>3. Reached(a7, w, routes, S)
    BY <1>21
  <2> HIDE DEF S, T, a7
  <2>4. IsList(h8)
    BY <1>10
  <2>5. Reached(a7 \o h8, w, routes, S \cup T)
    BY <2>2, <2>3, <2>4, ReachedNext
  <2> QED
    BY <2>1, <2>5
<1>23. Reached(a9, w, routes, {"pages", "players", "player", "clans", "clan", "servers"})
  <2> DEFINE S == {"pages", "players", "player", "clans", "clan"}
             T == {"servers"}
  <2>1. S \cup T = {"pages", "players", "player", "clans", "clan", "servers"}
    OBVIOUS
  <2>2. w \notin S => Reached(h9, w, routes, T)
    BY <1>11
  <2>3. Reached(a8, w, routes, S)
    BY <1>22
  <2> HIDE DEF S, T, a8
  <2>4. IsList(h9)
    BY <1>11
  <2>5. Reached(a8 \o h9, w, routes, S \cup T)
    BY <2>2, <2>3, <2>4, ReachedNext
  <2> QED
    BY <2>1, <2>5
<1>24. Reached(a10, w, routes, {"pages", "players", "player", "clans", "clan", "servers"})
  <2> DEFINE S == {"pages", "players", "player", "clans", "clan", "servers"}
             T == {}
  <2>1. S \cup T = {"pages", "players", "player", "clans", "clan", "servers"}
    OBVIOUS
  <2>2. w \notin S => Reached(h10, w, routes, T)
    <3>1. "servers" \in S
      OBVIOUS
    <3> QED
      BY <1>12, <3>1
  <2>3. Reached(a9, w, routes, S)
    BY <1>23
  <2> HIDE DEF S, T, a9
  <2>4. IsList(h10)
    BY <1>12
  <2>5. Reached(a9 \o h10, w, routes, S \cup T)
    BY <2>2, <2>3, <2>4, ReachedNext
  <2> QED
    BY <2>1, <2>5
<1>25. Reached(a11, w, routes, {"pages", "players", "player", "clans", "clan", "servers", "server"})
  <2> DEFINE S == {"pages", "players", "player", "clans", "clan", "servers"}
             T == {"server"}
  <2>1. S \cup T = {"pages", "players", "player", "clans", "clan", "servers", "server"}
    OBVIOUS
  <2>2. w \notin S => Reached(h11, w, routes, T)
    BY <1>13
  <2>3. Reached(a10, w, routes, S)
    BY <1>24
  <2> HIDE DEF S, T, a10
  <2>4. IsList(h11)
    BY <1>13
  <2>5. Reached(a10 \o h11, w, routes, S \cup T)
    BY <2>2, <2>3, <2>4, ReachedNext
  <2> QED
    BY <2>1, <2>5
<1> DEFINE r == Route(<<w>>, <<>>, "", routes)
           t == <<w>>
<1>26. w \in {"pages", "players", "player", "clans", "clan", "servers", "server"}
  BY DEF Enters
<1>27. Gives(a11, t, Inside, r)
  <2> HIDE DEF a11
  <2> QED
    BY <1>25, <1>26 DEF Reached
<1> HIDE DEF r, t, a11
<1>28. Gives(a11 \o h12, t, Inside, r)
  BY <1>27, <1>14, GivesFirst
<1> QED
  BY <1>2, <1>28 DEF r, t

LEMMA StarFits == ASSUME NEW t, NEW ext PROVE Fits(t, Star, ext) <=> HasExtension(t, ext)
BY DEF Fits

LEMMA ExtensionsAre == HtmlExt # <<>> /\ JsonExt # <<>> /\ SvgExt # <<>>
<1>1. Len(HtmlExt) = 2 /\ Len(JsonExt) = 2 /\ Len(SvgExt) = 2 /\ Len(<<>>) = 0
  BY Pair, EmptyList DEF HtmlExt, JsonExt, SvgExt
<1> HIDE DEF HtmlExt, JsonExt, SvgExt
<1> QED
  BY <1>1

\* Any name matches a star.
LEMMA StarHtml ==
  ASSUME NEW t, IsList(t), NEW page, NEW onlyleaf
  PROVE  Gives(Html(Star, page), t, onlyleaf,
               Route(Star, IF HasExtension(t, HtmlExt) THEN HtmlExt ELSE <<>>, page, <<>>))
<1>1. CASE HasExtension(t, HtmlExt)
  <2>1. Fits(t, Star, HtmlExt)
    BY <1>1, StarFits
  <2>2. Gives(Html(Star, page), t, onlyleaf, Route(Star, HtmlExt, page, <<>>))
    BY <2>1, HtmlGivesCut
  <2> QED
    BY <1>1, <2>2
<1>2. CASE ~HasExtension(t, HtmlExt)
  <2>1. ~Fits(t, Star, HtmlExt)
    BY <1>2, StarFits
  <2>2. Fits(t, Star, <<>>)
    BY WholeFits
  <2>3. Gives(Html(Star, page), t, onlyleaf, Route(Star, <<>>, page, <<>>))
    BY <2>1, <2>2, HtmlGives
  <2> QED
    BY <1>2, <2>3
<1> QED
  BY <1>1, <1>2

LEMMA StarDir ==
  ASSUME NEW t, IsList(t), NEW routes
  PROVE  Gives(Dir(Star, routes), t, Inside, Route(Star, <<>>, "", routes))
<1>1. Fits(t, Star, <<>>)
  BY WholeFits
<1> QED
  BY <1>1, DirGives

\* A page of another name.
LEMMA OtherPage ==
  ASSUME NEW t, IsList(t), ~HasExtension(t, HtmlExt), NEW v, v # "*", t # <<v>>, NEW page, NEW onlyleaf
  PROVE  Skips(Html(<<v>>, page), t, onlyleaf)
<1>1. ~Fits(t, <<v>>, HtmlExt)
  BY DEF Fits
<1>2. <<v>> \notin {Star, t}
  BY DEF Star
<1>3. ~Fits(t, <<v>>, <<>>)
  BY <1>2, WholeFits
<1> QED
  BY <1>1, <1>3, HtmlSkips

LEMMA OtherJson ==
  ASSUME NEW t, IsList(t), NEW v, v # "*", ~HasExtension(t, JsonExt) \/ Cut(t, JsonExt) # <<v>>,
             NEW page, NEW onlyleaf
  PROVE  Skips(Json(<<v>>, page), t, onlyleaf)
<1>1. <<v>> # Star
  BY DEF Star
<1>2. ~Fits(t, <<v>>, JsonExt)
  BY <1>1 DEF Fits
<1>3. Json(<<v>>, page) = Leaf(<<v>>, JsonExt, page)
  BY DEF Json, JsonExt
<1> QED
  BY <1>2, <1>3, LeafSkips

LEMMA NoJson ==
  ASSUME NEW t, IsList(t), ~HasExtension(t, JsonExt), NEW page, NEW onlyleaf
  PROVE  Skips(Json(Star, page), t, onlyleaf)
<1>2. ~Fits(t, Star, JsonExt)
  BY DEF Fits
<1>3. Json(Star, page) = Leaf(Star, JsonExt, page)
  BY DEF Json, JsonExt
<1> QED
  BY <1>2, <1>3, LeafSkips

LEMMA StarJson ==
  ASSUME NEW t, IsList(t), HasExtension(t, JsonExt), NEW page, NEW onlyleaf
  PROVE  Gives(Json(Star, page), t, onlyleaf, Route(Star, JsonExt, page, <<>>))
<1>2. Fits(t, Star, JsonExt)
  BY StarFits
<1>3. Json(Star, page) = Leaf(Star, JsonExt, page)
  BY DEF Json, JsonExt
<1> QED
  BY <1>2, <1>3, LeafGives

LEMMA NamedJson ==
  ASSUME NEW name, NEW t, HasExtension(t, JsonExt), Cut(t, JsonExt) = name, NEW page, NEW onlyleaf
  PROVE  Gives(Json(name, page), t, onlyleaf, Route(name, JsonExt, page, <<>>))
<1>2. Fits(t, name, JsonExt)
  BY DEF Fits
<1>3. Json(name, page) = Leaf(name, JsonExt, page)
  BY DEF Json, JsonExt
<1> QED
  BY <1>2, <1>3, LeafGives

LEMMA NamedSvg ==
  ASSUME NEW name, NEW t, HasExtension(t, SvgExt), Cut(t, SvgExt) = name, NEW page, NEW onlyleaf
  PROVE  Gives(Svg(name, page), t, onlyleaf, Route(name, SvgExt, page, <<>>))
<1>2. Fits(t, name, SvgExt)
  BY DEF Fits
<1>3. Svg(name, page) = Leaf(name, SvgExt, page)
  BY DEF Svg, SvgExt
<1> QED
  BY <1>2, <1>3, LeafGives

LEMMA NamedPage ==
  ASSUME NEW w, Word(w), NEW t, t = <<w>>, NEW page, NEW onlyleaf
  PROVE  Gives(Html(t, page), t, onlyleaf, Route(t, <<>>, page, <<>>))
<1>1. ~Fits(t, t, HtmlExt) /\ Fits(t, t, <<>>)
  BY WordHtml
<1> QED
  BY <1>1, HtmlGives

LEMMA SvgNotEmpty == ASSUME NEW name, NEW page PROVE Svg(name, page) # <<>>
<1>1. ToSet(Svg(name, page)) # {}
  BY SvgSet
<1>2. ToSet(<<>>) = {}
  BY EmptyList
<1> DEFINE s == Svg(name, page)
<1> HIDE DEF s
<1>3. ToSet(s) # {} => s # <<>>
  BY <1>2
<1> QED
  BY <1>1, <1>3 DEF s

-----------------------------------------------------------------------------
\* What follows "player", "players", "clans" and "servers".
ExtOf(t) == IF HasExtension(t, HtmlExt) THEN HtmlExt ELSE <<>>

LEMMA PlayerLeaf ==
  ASSUME NEW t, IsList(t)
  PROVE  Gives(PlayerRoutes, t, AtEnd, Route(Star, ExtOf(t), "player", <<>>))
<1> DEFINE a == Dir(Star, Svg(<<"historic">>, "graph"))
           b == Html(Star, "player")
           r == Route(Star, ExtOf(t), "player", <<>>)
<1>1. Skips(a, t, AtEnd)
  BY DirLast, SvgNotEmpty
<1>2. Gives(b, t, AtEnd, r)
  BY StarHtml DEF ExtOf
<1>3. PlayerRoutes = a \o b
  BY DEF PlayerRoutes
<1> HIDE DEF a, b, r
<1>4. Gives(PlayerRoutes, t, AtEnd, r)
  BY <1>1, <1>2, <1>3, GivesNext
<1> QED
  BY <1>4 DEF r

LEMMA PlayerInside ==
  ASSUME NEW t, IsList(t)
  PROVE  Gives(PlayerRoutes, t, Inside, Route(Star, <<>>, "", Svg(<<"historic">>, "graph")))
<1> DEFINE s == Svg(<<"historic">>, "graph")
           a == Dir(Star, s)
           b == Html(Star, "player")
           r == Route(Star, <<>>, "", s)
<1>1. Gives(a, t, Inside, r)
  BY StarDir
<1>2. IsList(b)
  BY HtmlSet
<1>3. PlayerRoutes = a \o b
  BY DEF PlayerRoutes
<1> HIDE DEF a, b, r, s
<1>4. Gives(PlayerRoutes, t, Inside, r)
  BY <1>1, <1>2, <1>3, GivesFirst
<1> QED
  BY <1>4 DEF r, s

LEMMA SvgExtended ==
  ASSUME NEW name, IsList(name), NEW page, NEW onlyleaf
  PROVE  /\ Gives(Svg(name, page), name \o SvgExt, onlyleaf, Route(name, SvgExt, page, <<>>))
         /\ IsList(name \o SvgExt) /\ Cut(name \o SvgExt, SvgExt) = name
<1>1. IsList(SvgExt) /\ SvgExt = <<".", "svg">>
  BY Extensions DEF SvgExt
<1>2. IsList(name \o SvgExt) /\ Cut(name \o SvgExt, SvgExt) = name
  BY <1>1, ExtensionCut
<1>3. HasExtension(name \o SvgExt, SvgExt)
  <2>1. "svg" # "."
    OBVIOUS
  <2>2. HasExtension(name \o <<".", "svg">>, <<".", "svg">>)
    BY <2>1, ExtensionPut
  <2> QED
    BY <1>1, <2>2
<1> QED
  BY <1>2, <1>3, NamedSvg

LEMMA LongName == ASSUME NEW t, Len(t) # 1, NEW v PROVE t # <<v>>
<1>1. Len(<<v>>) = 1
  BY Single
<1> QED
  BY <1>1

LEMMA OldPlayerLeaf ==
  ASSUME NEW t, IsList(t), Len(t) # 1, ~HasExtension(t, HtmlExt), ~HasExtension(t, JsonExt)
  PROVE  Gives(PlayersRoutes, t, AtEnd, Route(Star, <<>>, "old_player", <<>>))
<1> DEFINE h1 == Html(<<"search">>, "search")
           h2 == Html(<<"by-rank">>, "player_list")
           h3 == Json(<<"by-rank">>, "json_player_list")
           h4 == Html(<<"by-lastseen">>, "player_list")
           h5 == Json(<<"by-lastseen">>, "json_player_list")
           h6 == Json(Star, "json_player")
           h7 == Dir(Star, Svg(<<"elo", " ", "rank">>, "old_graph"))
           h8 == Html(Star, "old_player")
           a2 == h1 \o h2
           a3 == a2 \o h3
           a4 == a3 \o h4
           a5 == a4 \o h5
           a6 == a5 \o h6
           a7 == a6 \o h7
           a8 == a7 \o h8
           r == Route(Star, <<>>, "old_player", <<>>)
<1>1. PlayersRoutes = a8
  BY DEF PlayersRoutes
<1>2. Skips(h1, t, AtEnd)
  <2>1. t # <<"search">> /\ "search" # "*"
    BY LongName
  <2> QED
    BY <2>1, OtherPage
<1>3. Skips(h2, t, AtEnd)
  <2>1. t # <<"by-rank">> /\ "by-rank" # "*"
    BY LongName
  <2> QED
    BY <2>1, OtherPage
<1>4. Skips(h3, t, AtEnd)
  <2>1. "by-rank" # "*"
    OBVIOUS
  <2> QED
    BY <2>1, OtherJson
<1>5. Skips(h4, t, AtEnd)
  <2>1. t # <<"by-lastseen">> /\ "by-lastseen" # "*"
    BY LongName
  <2> QED
    BY <2>1, OtherPage
<1>6. Skips(h5, t, AtEnd)
  <2>1. "by-lastseen" # "*"
    OBVIOUS
  <2> QED
    BY <2>1, OtherJson
<1>7. Skips(h6, t, AtEnd)
  BY NoJson
<1>8. Skips(h7, t, AtEnd)
  BY SvgNotEmpty, DirLast
<1>9. Gives(h8, t, AtEnd, r)
  BY StarHtml
<1> HIDE DEF h1, h2, h3, h4, h5, h6, h7, h8, r
<1>10. Skips(a2, t, AtEnd)
  BY <1>2, <1>3, SkipsJoined
<1>11. Skips(a3, t, AtEnd)
  <2> HIDE DEF a2
  <2> QED
    BY <1>10, <1>4, SkipsJoined
<1>12. Skips(a4, t, AtEnd)
  <2> HIDE DEF a3
  <2> QED
    BY <1>11, <1>5, SkipsJoined
<1>13. Skips(a5, t, AtEnd)
  <2> HIDE DEF a4
  <2> QED
    BY <1>12, <1>6, SkipsJoined
<1>14. Skips(a6, t, AtEnd)
  <2> HIDE DEF a5
  <2> QED
    BY <1>13, <1>7, SkipsJoined
<1>15. Skips(a7, t, AtEnd)
  <2> HIDE DEF a6
  <2> QED
    BY <1>14, <1>8, SkipsJoined
<1>16. Gives(a8, t, AtEnd, r)
  <2> HIDE DEF a7
  <2> QED
    BY <1>15, <1>9, GivesNext
<1> HIDE DEF a8
<1> QED
  BY <1>1, <1>16 DEF r

LEMMA JsonPlayerLeaf ==
  ASSUME NEW t, IsList(t), Len(t) # 1, ~HasExtension(t, HtmlExt), HasExtension(t, JsonExt),
             Len(Cut(t, JsonExt)) # 1
  PROVE  Gives(PlayersRoutes, t, AtEnd, Route(Star, JsonExt, "json_player", <<>>))
<1> DEFINE h1 == Html(<<"search">>, "search")
           h2 == Html(<<"by-rank">>, "player_list")
           h3 == Json(<<"by-rank">>, "json_player_list")
           h4 == Html(<<"by-lastseen">>, "player_list")
           h5 == Json(<<"by-lastseen">>, "json_player_list")
           h6 == Json(Star, "json_player")
           h7 == Dir(Star, Svg(<<"elo", " ", "rank">>, "old_graph"))
           h8 == Html(Star, "old_player")
           a2 == h1 \o h2
           a3 == a2 \o h3
           a4 == a3 \o h4
           a5 == a4 \o h5
           a6 == a5 \o h6
           a7 == a6 \o h7
           a8 == a7 \o h8
           r == Route(Star, JsonExt, "json_player", <<>>)
<1>1. PlayersRoutes = a8
  BY DEF PlayersRoutes
<1>2. Skips(h1, t, AtEnd)
  <2>1. t # <<"search">> /\ "search" # "*"
    BY LongName
  <2> QED
    BY <2>1, OtherPage
<1>3. Skips(h2, t, AtEnd)
  <2>1. t # <<"by-rank">> /\ "by-rank" # "*"
    BY LongName
  <2> QED
    BY <2>1, OtherPage
<1>4. Skips(h3, t, AtEnd)
  <2>1. Cut(t, JsonExt) # <<"by-rank">> /\ "by-rank" # "*"
    BY LongName
  <2> QED
    BY <2>1, OtherJson
<1>5. Skips(h4, t, AtEnd)
  <2>1. t # <<"by-lastseen">> /\ "by-lastseen" # "*"
    BY LongName
  <2> QED
    BY <2>1, OtherPage
<1>6. Skips(h5, t, AtEnd)
  <2>1. Cut(t, JsonExt) # <<"by-lastseen">> /\ "by-lastseen" # "*"
    BY LongName
  <2> QED
    BY <2>1, OtherJson
<1>7. Gives(h6, t, AtEnd, r)
  BY StarJson
<1>8. IsList(h7)
  BY HtmlSet, JsonSet, DirSet
<1>9. IsList(h8)
  BY HtmlSet, JsonSet, DirSet
<1> HIDE DEF h1, h2, h3, h4, h5, h6, h7, h8, r
<1>10. Skips(a2, t, AtEnd)
  BY <1>2, <1>3, SkipsJoined
<1>11. Skips(a3, t, AtEnd)
  <2> HIDE DEF a2
  <2> QED
    BY <1>10, <1>4, SkipsJoined
<1>12. Skips(a4, t, AtEnd)
  <2> HIDE DEF a3
  <2> QED
    BY <1>11, <1>5, SkipsJoined
<1>13. Skips(a5, t, AtEnd)
  <2> HIDE DEF a4
  <2> QED
    BY <1>12, <1>6, SkipsJoined
<1>14. Gives(a6, t, AtEnd, r)
  <2> HIDE DEF a5
  <2> QED
    BY <1>13, <1>7, GivesNext
<1>15. Gives(a7, t, AtEnd, r)
  <2> HIDE DEF a6
  <2> QED
    BY <1>14, <1>8, GivesFirst
<1>16. Gives(a8, t, AtEnd, r)
  <2> HIDE DEF a7
  <2> QED
    BY <1>15, <1>9, GivesFirst
<1> HIDE DEF a8
<1> QED
  BY <1>1, <1>16 DEF r

LEMMA JsonByRank ==
  ASSUME NEW t, IsList(t), Len(t) # 1, ~HasExtension(t, HtmlExt), HasExtension(t, JsonExt),
             Cut(t, JsonExt) = <<"by-rank">>
  PROVE  Gives(PlayersRoutes, t, AtEnd, Route(<<"by-rank">>, JsonExt, "json_player_list", <<>>))
<1> DEFINE h1 == Html(<<"search">>, "search")
           h2 == Html(<<"by-rank">>, "player_list")
           h3 == Json(<<"by-rank">>, "json_player_list")
           h4 == Html(<<"by-lastseen">>, "player_list")
           h5 == Json(<<"by-lastseen">>, "json_player_list")
           h6 == Json(Star, "json_player")
           h7 == Dir(Star, Svg(<<"elo", " ", "rank">>, "old_graph"))
           h8 == Html(Star, "old_player")
           a2 == h1 \o h2
           a3 == a2 \o h3
           a4 == a3 \o h4
           a5 == a4 \o h5
           a6 == a5 \o h6
           a7 == a6 \o h7
           a8 == a7 \o h8
           r == Route(<<"by-rank">>, JsonExt, "json_player_list", <<>>)
<1>1. PlayersRoutes = a8
  BY DEF PlayersRoutes
<1>2. Skips(h1, t, AtEnd)
  <2>1. t # <<"search">> /\ "search" # "*"
    BY LongName
  <2> QED
    BY <2>1, OtherPage
<1>3. Skips(h2, t, AtEnd)
  <2>1. t # <<"by-rank">> /\ "by-rank" # "*"
    BY LongName
  <2> QED
    BY <2>1, OtherPage
<1>4. Gives(h3, t, AtEnd, r)
  BY NamedJson
<1>5. IsList(h4)
  BY HtmlSet, JsonSet, DirSet
<1>6. IsList(h5)
  BY HtmlSet, JsonSet, DirSet
<1>7. IsList(h6)
  BY HtmlSet, JsonSet, DirSet
<1>8. IsList(h7)
  BY HtmlSet, JsonSet, DirSet
<1>9. IsList(h8)
  BY HtmlSet, JsonSet, DirSet
<1> HIDE DEF h1, h2, h3, h4, h5, h6, h7, h8, r
<1>10. Skips(a2, t, AtEnd)
  BY <1>2, <1>3, SkipsJoined
<1>11. Gives(a3, t, AtEnd, r)
  <2> HIDE DEF a2
  <2> QED
    BY <1>10, <1>4, GivesNext
<1>12. Gives(a4, t, AtEnd, r)
  <2> HIDE DEF a3
  <2> QED
    BY <1>11, <1>5, GivesFirst
<1>13. Gives(a5, t, AtEnd, r)
  <2> HIDE DEF a4
  <2> QED
    BY <1>12, <1>6, GivesFirst
<1>14. Gives(a6, t, AtEnd, r)
  <2> HIDE DEF a5
  <2> QED
    BY <1>13, <1>7, GivesFirst
<1>15. Gives(a7, t, AtEnd, r)
  <2> HIDE DEF a6
  <2> QED
    BY <1>14, <1>8, GivesFirst
<1>16. Gives(a8, t, AtEnd, r)
  <2> HIDE DEF a7
  <2> QED
    BY <1>15, <1>9, GivesFirst
<1> HIDE DEF a8
<1> QED
  BY <1>1, <1>16 DEF r

LEMMA JsonByLastseen ==
  ASSUME NEW t, IsList(t), Len(t) # 1, ~HasExtension(t, HtmlExt), HasExtension(t, JsonExt),
             Cut(t, JsonExt) = <<"by-lastseen">>
  PROVE  Gives(PlayersRoutes, t, AtEnd, Route(<<"by-lastseen">>, JsonExt, "json_player_list", <<>>))
<1> DEFINE h1 == Html(<<"search">>, "search")
           h2 == Html(<<"by-rank">>, "player_list")
           h3 == Json(<<"by-rank">>, "json_player_list")
           h4 == Html(<<"by-lastseen">>, "player_list")
           h5 == Json(<<"by-lastseen">>, "json_player_list")
           h6 == Json(Star, "json_player")
           h7 == Dir(Star, Svg(<<"elo", " ", "rank">>, "old_graph"))
           h8 == Html(Star, "old_player")
           a2 == h1 \o h2
           a3 == a2 \o h3
           a4 == a3 \o h4
           a5 == a4 \o h5
           a6 == a5 \o h6
           a7 == a6 \o h7
           a8 == a7 \o h8
           r == Route(<<"by-lastseen">>, JsonExt, "json_player_list", <<>>)
<1>1. PlayersRoutes = a8
  BY DEF PlayersRoutes
<1>2. Skips(h1, t, AtEnd)
  <2>1. t # <<"search">> /\ "search" # "*"
    BY LongName
  <2> QED
    BY <2>1, OtherPage
<1>3. Skips(h2, t, AtEnd)
  <2>1. t # <<"by-rank">> /\ "by-rank" # "*"
    BY LongName
  <2> QED
    BY <2>1, OtherPage
<1>4. Skips(h3, t, AtEnd)
  <2>1. Cut(t, JsonExt) # <<"by-rank">> /\ "by-rank" # "*"
    OBVIOUS
  <2> QED
    BY <2>1, OtherJson
<1>5. Skips(h4, t, AtEnd)
  <2>1. t # <<"by-lastseen">> /\ "by-lastseen" # "*"
    BY LongName
  <2> QED
    BY <2>1, OtherPage
<1>6. Gives(h5, t, AtEnd, r)
  BY NamedJson
<1>7. IsList(h6)
  BY HtmlSet, JsonSet, DirSet
<1>8. IsList(h7)
  BY HtmlSet, JsonSet, DirSet
<1>9. IsList(h8)
  BY HtmlSet, JsonSet, DirSet
<1> HIDE DEF h1, h2, h3, h4, h5, h6, h7, h8, r
<1>10. Skips(a2, t, AtEnd)
  BY <1>2, <1>3, SkipsJoined
<1>11. Skips(a3, t, AtEnd)
  <2> HIDE DEF a2
  <2> QED
    BY <1>10, <1>4, SkipsJoined
<1>12. Skips(a4, t, AtEnd)
  <2> HIDE DEF a3
  <2> QED
    BY <1>11, <1>5, SkipsJoined
<1>13. Gives(a5, t, AtEnd, r)
  <2> HIDE DEF a4
  <2> QED
    BY <1>12, <1>6, GivesNext
<1>14. Gives(a6, t, AtEnd, r)
  <2> HIDE DEF a5
  <2> QED
    BY <1>13, <1>7, GivesFirst
<1>15. Gives(a7, t, AtEnd, r)
  <2> HIDE DEF a6
  <2> QED
    BY <1>14, <1>8, GivesFirst
<1>16. Gives(a8, t, AtEnd, r)
  <2> HIDE DEF a7
  <2> QED
    BY <1>15, <1>9, GivesFirst
<1> HIDE DEF a8
<1> QED
  BY <1>1, <1>16 DEF r

LEMMA SearchPlayers ==
  ASSUME NEW t, IsList(t), t = <<"search">>
  PROVE  Gives(PlayersRoutes, t, AtEnd, Route(<<"search">>, <<>>, "search", <<>>))
<1> DEFINE h1 == Html(<<"search">>, "search")
           h2 == Html(<<"by-rank">>, "player_list")
           h3 == Json(<<"by-rank">>, "json_player_list")
           h4 == Html(<<"by-lastseen">>, "player_list")
           h5 == Json(<<"by-lastseen">>, "json_player_list")
           h6 == Json(Star, "json_player")
           h7 == Dir(Star, Svg(<<"elo", " ", "rank">>, "old_graph"))
           h8 == Html(Star, "old_player")
           a2 == h1 \o h2
           a3 == a2 \o h3
           a4 == a3 \o h4
           a5 == a4 \o h5
           a6 == a5 \o h6
           a7 == a6 \o h7
           a8 == a7 \o h8
           r == Route(<<"search">>, <<>>, "search", <<>>)
<1>1. PlayersRoutes = a8
  BY DEF PlayersRoutes
<1>2. Gives(h1, t, AtEnd, r)
  <2>1. Word("search")
    BY DEF Word, IsBlank
  <2> QED
    BY <2>1, NamedPage
<1>3. IsList(h2)
  BY HtmlSet, JsonSet, DirSet
<1>4. IsList(h3)
  BY HtmlSet, JsonSet, DirSet
<1>5. IsList(h4)
  BY HtmlSet, JsonSet, DirSet
<1>6. IsList(h5)
  BY HtmlSet, JsonSet, DirSet
<1>7. IsList(h6)
  BY HtmlSet, JsonSet, DirSet
<1>8. IsList(h7)
  BY HtmlSet, JsonSet, DirSet
<1>9. IsList(h8)
  BY HtmlSet, JsonSet, DirSet
<1> HIDE DEF h1, h2, h3, h4, h5, h6, h7, h8, r
<1>10. Gives(a2, t, AtEnd, r)
  BY <1>2, <1>3, GivesFirst
<1>11. Gives(a3, t, AtEnd, r)
  <2> HIDE DEF a2
  <2> QED
    BY <1>10, <1>4, GivesFirst
<1>12. Gives(a4, t, AtEnd, r)
  <2> HIDE DEF a3
  <2> QED
    BY <1>11, <1>5, GivesFirst
<1>13. Gives(a5, t, AtEnd, r)
  <2> HIDE DEF a4
  <2> QED
    BY <1>12, <1>6, GivesFirst
<1>14. Gives(a6, t, AtEnd, r)
  <2> HIDE DEF a5
  <2> QED
    BY <1>13, <1>7, GivesFirst
<1>15. Gives(a7, t, AtEnd, r)
  <2> HIDE DEF a6
  <2> QED
    BY <1>14, <1>8, GivesFirst
<1>16. Gives(a8, t, AtEnd, r)
  <2> HIDE DEF a7
  <2> QED
    BY <1>15, <1>9, GivesFirst
<1> HIDE DEF a8
<1> QED
  BY <1>1, <1>16 DEF r

LEMMA OldClanLeaf ==
  ASSUME NEW t, IsList(t), Len(t) # 1, ~HasExtension(t, HtmlExt), ~HasExtension(t, JsonExt)
  PROVE  Gives(ClansRoutes, t, AtEnd, Route(Star, <<>>, "old_clan", <<>>))
<1> DEFINE h1 == Html(<<"search">>, "search")
           h2 == Html(<<"by-nmembers">>, "clan_list")
           h3 == Json(<<"by-nmembers">>, "json_clan_list")
           h4 == Json(Star, "json_clan")
           h5 == Html(Star, "old_clan")
           a2 == h1 \o h2
           a3 == a2 \o h3
           a4 == a3 \o h4
           a5 == a4 \o h5
           r == Route(Star, <<>>, "old_clan", <<>>)
<1>1. ClansRoutes = a5
  BY DEF ClansRoutes
<1>2. Skips(h1, t, AtEnd)
  <2>1. t # <<"search">> /\ "search" # "*"
    BY LongName
  <2> QED
    BY <2>1, OtherPage
<1>3. Skips(h2, t, AtEnd)
  <2>1. t # <<"by-nmembers">> /\ "by-nmembers" # "*"
    BY LongName
  <2> QED
    BY <2>1, OtherPage
<1>4. Skips(h3, t, AtEnd)
  <2>1. "by-nmembers" # "*"
    OBVIOUS
  <2> QED
    BY <2>1, OtherJson
<1>5. Skips(h4, t, AtEnd)
  BY NoJson
<1>6. Gives(h5, t, AtEnd, r)
  BY StarHtml
<1> HIDE DEF h1, h2, h3, h4, h5, r
<1>7. Skips(a2, t, AtEnd)
  BY <1>2, <1>3, SkipsJoined
<1>8. Skips(a3, t, AtEnd)
  <2> HIDE DEF a2
  <2> QED
    BY <1>7, <1>4, SkipsJoined
<1>9. Skips(a4, t, AtEnd)
  <2> HIDE DEF a3
  <2> QED
    BY <1>8, <1>5, SkipsJoined
<1>10. Gives(a5, t, AtEnd, r)
  <2> HIDE DEF a4
  <2> QED
    BY <1>9, <1>6, GivesNext
<1> HIDE DEF a5
<1> QED
  BY <1>1, <1>10 DEF r

LEMMA JsonClanLeaf ==
  ASSUME NEW t, IsList(t), Len(t) # 1, ~HasExtension(t, HtmlExt), HasExtension(t, JsonExt),
             Len(Cut(t, JsonExt)) # 1
  PROVE  Gives(ClansRoutes, t, AtEnd, Route(Star, JsonExt, "json_clan", <<>>))
<1> DEFINE h1 == Html(<<"search">>, "search")
           h2 == Html(<<"by-nmembers">>, "clan_list")
           h3 == Json(<<"by-nmembers">>, "json_clan_list")
           h4 == Json(Star, "json_clan")
           h5 == Html(Star, "old_clan")
           a2 == h1 \o h2
           a3 == a2 \o h3
           a4 == a3 \o h4
           a5 == a4 \o h5
           r == Route(Star, JsonExt, "json_clan", <<>>)
<1>1. ClansRoutes = a5
  BY DEF ClansRoutes
<1>2. Skips(h1, t, AtEnd)
  <2>1. t # <<"search">> /\ "search" # "*"
    BY LongName
  <2> QED
    BY <2>1, OtherPage
<1>3. Skips(h2, t, AtEnd)
  <2>1. t # <<"by-nmembers">> /\ "by-nmembers" # "*"
    BY LongName
  <2> QED
    BY <2>1, OtherPage
<1>4. Skips(h3, t, AtEnd)
  <2>1. Cut(t, JsonExt) # <<"by-nmembers">> /\ "by-nmembers" # "*"
    BY LongName
  <2> QED
    BY <2>1, OtherJson
<1>5. Gives(h4, t, AtEnd, r)
  BY StarJson
<1>6. IsList(h5)
  BY HtmlSet, JsonSet, DirSet
<1> HIDE DEF h1, h2, h3, h4, h5, r
<1>7. Skips(a2, t, AtEnd)
  BY <1>2, <1>3, SkipsJoined
<1>8. Skips(a3, t, AtEnd)
  <2> HIDE DEF a2
  <2> QED
    BY <1>7, <1>4, SkipsJoined
<1>9. Gives(a4, t, AtEnd, r)
  <2> HIDE DEF a3
  <2> QED
    BY <1>8, <1>5, GivesNext
<1>10. Gives(a5, t, AtEnd, r)
  <2> HIDE DEF a4
  <2> QED
    BY <1>9, <1>6, GivesFirst
<1> HIDE DEF a5
<1> QED
  BY <1>1, <1>10 DEF r

LEMMA JsonByNmembers ==
  ASSUME NEW t, IsList(t), Len(t) # 1, ~HasExtension(t, HtmlExt), HasExtension(t, JsonExt),
             Cut(t, JsonExt) = <<"by-nmembers">>
  PROVE  Gives(ClansRoutes, t, AtEnd, Route(<<"by-nmembers">>, JsonExt, "json_clan_list", <<>>))
<1> DEFINE h1 == Html(<<"search">>, "search")
           h2 == Html(<<"by-nmembers">>, "clan_list")
           h3 == Json(<<"by-nmembers">>, "json_clan_list")
           h4 == Json(Star, "json_clan")
           h5 == Html(Star, "old_clan")
           a2 == h1 \o h2
           a3 == a2 \o h3
           a4 == a3 \o h4
           a5 == a4 \o h5
           r == Route(<<"by-nmembers">>, JsonExt, "json_clan_list", <<>>)
<1>1. ClansRoutes = a5
  BY DEF ClansRoutes
<1>2. Skips(h1, t, AtEnd)
  <2>1. t # <<"search">> /\ "search" # "*"
    BY LongName
  <2> QED
    BY <2>1, OtherPage
<1>3. Skips(h2, t, AtEnd)
  <2>1. t # <<"by-nmembers">> /\ "by-nmembers" # "*"
    BY LongName
  <2> QED
    BY <2>1, OtherPage
<1>4. Gives(h3, t, AtEnd, r)
  BY NamedJson
<1>5. IsList(h4)
  BY HtmlSet, JsonSet, DirSet
<1>6. IsList(h5)
  BY HtmlSet, JsonSet, DirSet
<1> HIDE DEF h1, h2, h3, h4, h5, r
<1>7. Skips(a2, t, AtEnd)
  BY <1>2, <1>3, SkipsJoined
<1>8. Gives(a3, t, AtEnd, r)
  <2> HIDE DEF a2
  <2> QED
    BY <1>7, <1>4, GivesNext
<1>9. Gives(a4, t, AtEnd, r)
  <2> HIDE DEF a3
  <2> QED
    BY <1>8, <1>5, GivesFirst
<1>10. Gives(a5, t, AtEnd, r)
  <2> HIDE DEF a4
  <2> QED
    BY <1>9, <1>6, GivesFirst
<1> HIDE DEF a5
<1> QED
  BY <1>1, <1>10 DEF r

LEMMA SearchClans ==
  ASSUME NEW t, IsList(t), t = <<"search">>
  PROVE  Gives(ClansRoutes, t, AtEnd, Route(<<"search">>, <<>>, "search", <<>>))
<1> DEFINE h1 == Html(<<"search">>, "search")
           h2 == Html(<<"by-nmembers">>, "clan_list")
           h3 == Json(<<"by-nmembers">>, "json_clan_list")
           h4 == Json(Star, "json_clan")
           h5 == Html(Star, "old_clan")
           a2 == h1 \o h2
           a3 == a2 \o h3
           a4 == a3 \o h4
           a5 == a4 \o h5
           r == Route(<<"search">>, <<>>, "search", <<>>)
<1>1. ClansRoutes = a5
  BY DEF ClansRoutes
<1>2. Gives(h1, t, AtEnd, r)
  <2>1. Word("search")
    BY DEF Word, IsBlank
  <2> QED
    BY <2>1, NamedPage
<1>3. IsList(h2)
  BY HtmlSet, JsonSet, DirSet
<1>4. IsList(h3)
  BY HtmlSet, JsonSet, DirSet
<1>5. IsList(h4)
  BY HtmlSet, JsonSet, DirSet
<1>6. IsList(h5)
  BY HtmlSet, JsonSet, DirSet
<1> HIDE DEF h1, h2, h3, h4, h5, r
<1>7. Gives(a2, t, AtEnd, r)
  BY <1>2, <1>3, GivesFirst
<1>8. Gives(a3, t, AtEnd, r)
  <2> HIDE DEF a2
  <2> QED
    BY <1>7, <1>4, GivesFirst
<1>9. Gives(a4, t, AtEnd, r)
  <2> HIDE DEF a3
  <2> QED
    BY <1>8, <1>5, GivesFirst
<1>10. Gives(a5, t, AtEnd, r)
  <2> HIDE DEF a4
  <2> QED
    BY <1>9, <1>6, GivesFirst
<1> HIDE DEF a5
<1> QED
  BY <1>1, <1>10 DEF r

LEMMA OldServerLeaf ==
  ASSUME NEW t, IsList(t), Len(t) # 1, ~HasExtension(t, HtmlExt), ~HasExtension(t, JsonExt)
  PROVE  Gives(ServersRoutes, t, AtEnd, Route(Star, <<>>, "old_server", <<>>))
<1> DEFINE h1 == Html(<<"search">>, "search")
           h2 == Html(<<"by-nplayers">>, "server_list")
           h3 == Json(<<"by-nplayers">>, "json_server_list")
           h4 == Json(Star, "json_server")
           h5 == Html(Star, "old_server")
           a2 == h1 \o h2
           a3 == a2 \o h3
           a4 == a3 \o h4
           a5 == a4 \o h5
           r == Route(Star, <<>>, "old_server", <<>>)
<1>1. ServersRoutes = a5
  BY DEF ServersRoutes
<1>2. Skips(h1, t, AtEnd)
  <2>1. t # <<"search">> /\ "search" # "*"
    BY LongName
  <2> QED
    BY <2>1, OtherPage
<1>3. Skips(h2, t, AtEnd)
  <2>1. t # <<"by-nplayers">> /\ "by-nplayers" # "*"
    BY LongName
  <2> QED
    BY <2>1, OtherPage
<1>4. Skips(h3, t, AtEnd)
  <2>1. "by-nplayers" # "*"
    OBVIOUS
  <2> QED
    BY <2>1, OtherJson
<1>5. Skips(h4, t, AtEnd)
  BY NoJson
<1>6. Gives(h5, t, AtEnd, r)
  BY StarHtml
<1> HIDE DEF h1, h2, h3, h4, h5, r
<1>7. Skips(a2, t, AtEnd)
  BY <1>2, <1>3, SkipsJoined
<1>8. Skips(a3, t, AtEnd)
  <2> HIDE DEF a2
  <2> QED
    BY <1>7, <1>4, SkipsJoined
<1>9. Skips(a4, t, AtEnd)
  <2> HIDE DEF a3
  <2> QED
    BY <1>8, <1>5, SkipsJoined
<1>10. Gives(a5, t, AtEnd, r)
  <2> HIDE DEF a4
  <2> QED
    BY <1>9, <1>6, GivesNext
<1> HIDE DEF a5
<1> QED
  BY <1>1, <1>10 DEF r

LEMMA JsonServerLeaf ==
  ASSUME NEW t, IsList(t), Len(t) # 1, ~HasExtension(t, HtmlExt), HasExtension(t, JsonExt),
             Len(Cut(t, JsonExt)) # 1
  PROVE  Gives(ServersRoutes, t, AtEnd, Route(Star, JsonExt, "json_server", <<>>))
<1> DEFINE h1 == Html(<<"search">>, "search")
           h2 == Html(<<"by-nplayers">>, "server_list")
           h3 == Json(<<"by-nplayers">>, "json_server_list")
           h4 == Json(Star, "json_server")
           h5 == Html(Star, "old_server")
           a2 == h1 \o h2
           a3 == a2 \o h3
           a4 == a3 \o h4
           a5 == a4 \o h5
           r == Route(Star, JsonExt, "json_server", <<>>)
<1>1. ServersRoutes = a5
  BY DEF ServersRoutes
<1>2. Skips(h1, t, AtEnd)
  <2>1. t # <<"search">> /\ "search" # "*"
    BY LongName
  <2> QED
    BY <2>1, OtherPage
<1>3. Skips(h2, t, AtEnd)
  <2>1. t # <<"by-nplayers">> /\ "by-nplayers" # "*"
    BY LongName
  <2> QED
    BY <2>1, OtherPage
<1>4. Skips(h3, t, AtEnd)
  <2>1. Cut(t, JsonExt) # <<"by-nplayers">> /\ "by-nplayers" # "*"
    BY LongName
  <2> QED
    BY <2>1, OtherJson
<1>5. Gives(h4, t, AtEnd, r)
  BY StarJson
<1>6. IsList(h5)
  BY HtmlSet, JsonSet, DirSet
<1> HIDE DEF h1, h2, h3, h4, h5, r
<1>7. Skips(a2, t, AtEnd)
  BY <1>2, <1>3, SkipsJoined
<1>8. Skips(a3, t, AtEnd)
  <2> HIDE DEF a2
  <2> QED
    BY <1>7, <1>4, SkipsJoined
<1>9. Gives(a4, t, AtEnd, r)
  <2> HIDE DEF a3
  <2> QED
    BY <1>8, <1>5, GivesNext
<1>10. Gives(a5, t, AtEnd, r)
  <2> HIDE DEF a4
  <2> QED
    BY <1>9, <1>6, GivesFirst
<1> HIDE DEF a5
<1> QED
  BY <1>1, <1>10 DEF r

LEMMA JsonByNplayers ==
  ASSUME NEW t, IsList(t), Len(t) # 1, ~HasExtension(t, HtmlExt), HasExtension(t, JsonExt),
             Cut(t, JsonExt) = <<"by-nplayers">>
  PROVE  Gives(ServersRoutes, t, AtEnd, Route(<<"by-nplayers">>, JsonExt, "json_server_list", <<>>))
<1> DEFINE h1 == Html(<<"search">>, "search")
           h2 == Html(<<"by-nplayers">>, "server_list")
           h3 == Json(<<"by-nplayers">>, "json_server_list")
           h4 == Json(Star, "json_server")
           h5 == Html(Star, "old_server")
           a2 == h1 \o h2
           a3 == a2 \o h3
           a4 == a3 \o h4
           a5 == a4 \o h5
           r == Route(<<"by-nplayers">>, JsonExt, "json_server_list", <<>>)
<1>1. ServersRoutes = a5
  BY DEF ServersRoutes
<1>2. Skips(h1, t, AtEnd)
  <2>1. t # <<"search">> /\ "search" # "*"
    BY LongName
  <2> QED
    BY <2>1, OtherPage
<1>3. Skips(h2, t, AtEnd)
  <2>1. t # <<"by-nplayers">> /\ "by-nplayers" # "*"
    BY LongName
  <2> QED
    BY <2>1, OtherPage
<1>4. Gives(h3, t, AtEnd, r)
  BY NamedJson
<1>5. IsList(h4)
  BY HtmlSet, JsonSet, DirSet
<1>6. IsList(h5)
  BY HtmlSet, JsonSet, DirSet
<1> HIDE DEF h1, h2, h3, h4, h5, r
<1>7. Skips(a2, t, AtEnd)
  BY <1>2, <1>3, SkipsJoined
<1>8. Gives(a3, t, AtEnd, r)
  <2> HIDE DEF a2
  <2> QED
    BY <1>7, <1>4, GivesNext
<1>9. Gives(a4, t, AtEnd, r)
  <2> HIDE DEF a3
  <2> QED
    BY <1>8, <1>5, GivesFirst
<1>10. Gives(a5, t, AtEnd, r)
  <2> HIDE DEF a4
  <2> QED
    BY <1>9, <1>6, GivesFirst
<1> HIDE DEF a5
<1> QED
  BY <1>1, <1>10 DEF r

LEMMA SearchServers ==
  ASSUME NEW t, IsList(t), t = <<"search">>
  PROVE  Gives(ServersRoutes, t, AtEnd, Route(<<"search">>, <<>>, "search", <<>>))
<1> DEFINE h1 == Html(<<"search">>, "search")
           h2 == Html(<<"by-nplayers">>, "server_list")
           h3 == Json(<<"by-nplayers">>, "json_server_list")
           h4 == Json(Star, "json_server")
           h5 == Html(Star, "old_server")
           a2 == h1 \o h2
           a3 == a2 \o h3
           a4 == a3 \o h4
           a5 == a4 \o h5
           r == Route(<<"search">>, <<>>, "search", <<>>)
<1>1. ServersRoutes = a5
  BY DEF ServersRoutes
<1>2. Gives(h1, t, AtEnd, r)
  <2>1. Word("search")
    BY DEF Word, IsBlank
  <2> QED
    BY <2>1, NamedPage
<1>3. IsList(h2)
  BY HtmlSet, JsonSet, DirSet
<1>4. IsList(h3)
  BY HtmlSet, JsonSet, DirSet
<1>5. IsList(h4)
  BY HtmlSet, JsonSet, DirSet
<1>6. IsList(h5)
  BY HtmlSet, JsonSet, DirSet
<1> HIDE DEF h1, h2, h3, h4, h5, r
<1>7. Gives(a2, t, AtEnd, r)
  BY <1>2, <1>3, GivesFirst
<1>8. Gives(a3, t, AtEnd, r)
  <2> HIDE DEF a2
  <2> QED
    BY <1>7, <1>4, GivesFirst
<1>9. Gives(a4, t, AtEnd, r)
  <2> HIDE DEF a3
  <2> QED
    BY <1>8, <1>5, GivesFirst
<1>10. Gives(a5, t, AtEnd, r)
  <2> HIDE DEF a4
  <2> QED
    BY <1>9, <1>6, GivesFirst
<1> HIDE DEF a5
<1> QED
  BY <1>1, <1>10 DEF r

LEMMA OldPlayerInside ==
  ASSUME NEW t, IsList(t), Len(t) # 1, ~HasExtension(t, HtmlExt), ~HasExtension(t, JsonExt)
  PROVE  Gives(PlayersRoutes, t, Inside, Route(Star, <<>>, "", Svg(<<"elo", " ", "rank">>, "old_graph")))
<1> DEFINE h1 == Html(<<"search">>, "search")
           h2 == Html(<<"by-rank">>, "player_list")
           h3 == Json(<<"by-rank">>, "json_player_list")
           h4 == Html(<<"by-lastseen">>, "player_list")
           h5 == Json(<<"by-lastseen">>, "json_player_list")
           h6 == Json(Star, "json_player")
           h7 == Dir(Star, Svg(<<"elo", " ", "rank">>, "old_graph"))
           h8 == Html(Star, "old_player")
           a2 == h1 \o h2
           a3 == a2 \o h3
           a4 == a3 \o h4
           a5 == a4 \o h5
           a6 == a5 \o h6
           a7 == a6 \o h7
           a8 == a7 \o h8
           r == Route(Star, <<>>, "", Svg(<<"elo", " ", "rank">>, "old_graph"))
<1>1. PlayersRoutes = a8
  BY DEF PlayersRoutes
<1>2. Skips(h1, t, Inside)
  <2>1. t # <<"search">> /\ "search" # "*"
    BY LongName
  <2> QED
    BY <2>1, OtherPage
<1>3. Skips(h2, t, Inside)
  <2>1. t # <<"by-rank">> /\ "by-rank" # "*"
    BY LongName
  <2> QED
    BY <2>1, OtherPage
<1>4. Skips(h3, t, Inside)
  <2>1. "by-rank" # "*"
    OBVIOUS
  <2> QED
    BY <2>1, OtherJson
<1>5. Skips(h4, t, Inside)
  <2>1. t # <<"by-lastseen">> /\ "by-lastseen" # "*"
    BY LongName
  <2> QED
    BY <2>1, OtherPage
<1>6. Skips(h5, t, Inside)
  <2>1. "by-lastseen" # "*"
    OBVIOUS
  <2> QED
    BY <2>1, OtherJson
<1>7. Skips(h6, t, Inside)
  BY NoJson
<1>8. Gives(h7, t, Inside, r)
  BY StarDir
<1>9. IsList(h8)
  BY HtmlSet, JsonSet, DirSet
<1> HIDE DEF h1, h2, h3, h4, h5, h6, h7, h8, r
<1>10. Skips(a2, t, Inside)
  BY <1>2, <1>3, SkipsJoined
<1>11. Skips(a3, t, Inside)
  <2> HIDE DEF a2
  <2> QED
    BY <1>10, <1>4, SkipsJoined
<1>12. Skips(a4, t, Inside)
  <2> HIDE DEF a3
  <2> QED
    BY <1>11, <1>5, SkipsJoined
<1>13. Skips(a5, t, Inside)
  <2> HIDE DEF a4
  <2> QED
    BY <1>12, <1>6, SkipsJoined
<1>14. Skips(a6, t, Inside)
  <2> HIDE DEF a5
  <2> QED
    BY <1>13, <1>7, SkipsJoined
<1>15. Gives(a7, t, Inside, r)
  <2> HIDE DEF a6
  <2> QED
    BY <1>14, <1>8, GivesNext
<1>16. Gives(a8, t, Inside, r)
  <2> HIDE DEF a7
  <2> QED
    BY <1>15, <1>9, GivesFirst
<1> HIDE DEF a8
<1> QED
  BY <1>1, <1>16 DEF r

Shortened(dirs, i, ext) == [dirs EXCEPT ![i] = Cut(@, ext)]

LEMMA EnterCut ==
  ASSUME NEW v, NEW dirs, v.dirs = dirs, NEW i,
         NEW r, NEW c \in 1..Len(v.routes), Len(v.routes) \in Nat, v.routes[c] = r
  PROVE  Enter(v, i, c) = Entry(r.page, r.routes, Shortened(dirs, i, r.ext))
<1>1. c # 0
  OBVIOUS
<1>2. Enter(v, i, c) = [page |-> v.routes[c].page, routes |-> v.routes[c].routes,
                        dirs |-> [dirs EXCEPT ![i] = Cut(dirs[i], v.routes[c].ext)]]
  BY <1>1 DEF Enter
<1> QED
  BY <1>2 DEF Entry, Shortened

LEMMA RouteParts ==
  ASSUME NEW name, NEW ext, NEW page, NEW routes, NEW r, r = Route(name, ext, page, routes)
  PROVE  r.name = name /\ r.ext = ext /\ r.page = page /\ r.routes = routes
BY DEF Route

\* The directory f has the routes "routes", in which g leads to "more", and there h to a page.
Leads(w, routes, f, g, more, h, name, ext, page) ==
    /\ Enters(w, routes) /\ f = <<w>> /\ IsList(g) /\ IsList(h)
    /\ Gives(routes, g, Inside, Route(Star, <<>>, "", more))
    /\ Gives(more, h, AtEnd, Route(name, ext, page, <<>>))

\* The texts t and u of two directories of an URL, which are read as g and v.
Asks(w, routes, t, g, more, u, v, name, ext, page) ==
    /\ Enters(w, routes)
    /\ IsList(t) /\ Without(t, "/") /\ t # <<>> /\ IsList(g) /\ UrlDecode(t) = g
    /\ Gives(routes, g, Inside, Route(Star, <<>>, "", more))
    /\ IsList(u) /\ Without(u, "/") /\ u # <<>> /\ IsList(v) /\ UrlDecode(u) = v
    /\ Gives(more, v, AtEnd, Route(name, ext, page, <<>>))

PlayerPath(n) == <<"/", "player", "/">> \o UrlEncode(n)

ClanPath(c) == <<"/", "clan", "/">> \o UrlEncode(c)

LEMMA OneJoinedFour ==
  ASSUME NEW a, NEW b, NEW c, NEW d
  PROVE  <<a, b, c, d>> = <<a>> \o <<b, c, d>>
OBVIOUS

Hex(n) == JsonHexstring(n)

\* A name in hexadecimal, as a browser sends it.
LEMMA HexSent ==
  ASSUME NEW n \in Naming, NEW t, t = FlattenSeq(Sends(JsonHexstring(n)))
  PROVE  /\ IsList(JsonHexstring(n)) /\ Len(JsonHexstring(n)) # 1 /\ JsonHexstring(n) # <<>>
         /\ ~HasExtension(JsonHexstring(n), HtmlExt) /\ ~HasExtension(JsonHexstring(n), JsonExt)
         /\ Without(JsonHexstring(n), "/") /\ ~IsDots(JsonHexstring(n))
         /\ IsList(t) /\ UrlDecode(t) = JsonHexstring(n) /\ Without(t, "/") /\ t # <<>>
<1> DEFINE hex == JsonHexstring(n)
<1>1. IsList(hex) /\ Len(hex) >= 2 /\ \A c : c \notin HexChars \cup {Space} => Without(hex, c)
  BY HexText
<1>2. \A c \in {"/", "%", "+", "NUL", "."} : c \notin HexChars \cup {Space}
  <2>1. SUFFICES ASSUME NEW c \in {"/", "%", "+", "NUL", "."}, c \in HexChars \cup {Space}
                 PROVE  FALSE
    OBVIOUS
  <2>2. \A k \in HexChars : k # Space /\ k \notin {"/", "%", "+", "NUL", ".", ":", "[", "]"}
    BY HexCharsAre
  <2>3. c # Space
    <3>0. c \in {"/", "%", "+", "NUL", "."}
      BY <2>1
    <3>1. IsBlank(Space)
      BY BlankIs
    <3>2. ~IsBlank("/") /\ ~IsBlank("%") /\ ~IsBlank("+") /\ ~IsBlank("NUL") /\ ~IsBlank(".")
      BY Zenon DEF IsBlank
    <3> QED
      BY <3>0, <3>1, <3>2
  <2>4. c \in HexChars
    BY <2>1, <2>3
  <2>5. c \notin {"/", "%", "+", "NUL", ".", ":", "[", "]"}
    BY <2>2, <2>4
  <2> QED
    BY <2>1, <2>5
<1>3. Without(hex, "/") /\ Without(hex, "%") /\ Without(hex, "+") /\ Without(hex, "NUL") /\ Without(hex, ".")
  BY <1>1, <1>2
<1> HIDE DEF hex
<1>4. Len(hex) \in Nat /\ Len(hex) # 1 /\ hex # <<>>
  BY <1>1, ListIs, EmptyList
<1>5. ASSUME NEW x, x # "." PROVE ~HasExtension(hex, <<".", x>>)
  <2>1. HasExtension(hex, <<".", x>>) <=> Len(hex) >= 2 /\ hex[Len(hex) - 1] = "." /\ hex[Len(hex)] = x
    BY <1>1, <1>5, ExtensionIs
  <2>2. Len(hex) - 1 \in 1..Len(hex)
    BY <1>1, <1>4
  <2>3. hex[Len(hex) - 1] # "."
    BY <1>3, <2>2 DEF Without
  <2> QED
    BY <2>1, <2>3
<1>6. ~HasExtension(hex, HtmlExt) /\ ~HasExtension(hex, JsonExt)
  BY <1>5 DEF HtmlExt, JsonExt
<1>7. IsList(t) /\ UrlDecode(t) = hex /\ Without(t, "/") /\ t # <<>>
  BY <1>1, <1>3, <1>4, SentDecoded DEF hex
<1>8. ~IsDots(hex)
  <2>1. hex[1] # "."
    BY <1>1, <1>3, <1>4 DEF Without
  <2> QED
    BY <1>1, <1>4, <2>1, DotsAre
<1> QED
  BY <1>1, <1>3, <1>4, <1>6, <1>7, <1>8 DEF hex

-----------------------------------------------------------------------------
\* Names that are known, and numbers.

\* The name of an old graph, "elo+rank.svg".
GraphName == <<"elo", " ", "rank">>

GraphText == <<"elo", "+", "rank", ".", "svg">>

LEMMA GraphNameIs == GraphName = <<"elo", Space, "rank">>
  BY Zenon DEF GraphName, Space

LEMMA GraphTextRead ==
  /\ IsList(GraphText) /\ Without(GraphText, "/") /\ Without(GraphText, Space) /\ GraphText # <<>>
  /\ IsList(GraphName) /\ IsList(GraphName \o SvgExt) /\ UrlDecode(GraphText) = GraphName \o SvgExt
<1> DEFINE c1 == "elo"
           c3 == "rank"
           t == Append(Append(Append(Append(Append(<<>>, c1), "+"), c3), "."), "svg")
           s == Append(Append(Append(Append(Append(<<>>, c1), Space), c3), "."), "svg")
<1>1. GraphText = t /\ GraphName \o SvgExt = s /\ IsList(GraphName)
  <2>1. GraphText = t
    BY DEF GraphText
  <2>2. GraphName \o SvgExt = s
    BY GraphNameIs DEF SvgExt
  <2>3. IsList(GraphName)
    BY GraphNameIs, Triple
  <2> QED
    BY <2>1, <2>2, <2>3
<1>2. ASSUME NEW a, IsList(a), NEW b, IsList(b), Decoded(a, b), NEW x, x \notin {"%", "+"}
      PROVE  IsList(Append(a, x)) /\ IsList(Append(b, x)) /\ Decoded(Append(a, x), Append(b, x))
  <2>1. Piece(<<x>>, x)
    BY <1>2 DEF Piece
  <2>2. Decoded(a \o <<x>>, Append(b, x))
    BY <1>2, <2>1, DecodedNext
  <2>3. a \o <<x>> = Append(a, x)
    BY <1>2, JoinedOne
  <2> QED
    BY <1>2, <2>2, <2>3, AppendedList
<1>3. ASSUME NEW a, IsList(a), NEW b, IsList(b), Decoded(a, b)
      PROVE  IsList(Append(a, "+")) /\ IsList(Append(b, Space)) /\ Decoded(Append(a, "+"), Append(b, Space))
  <2>1. Piece(<<"+">>, Space)
    BY DEF Piece
  <2>2. Decoded(a \o <<"+">>, Append(b, Space))
    BY <1>3, <2>1, DecodedNext
  <2>3. a \o <<"+">> = Append(a, "+")
    BY <1>3, JoinedOne
  <2> QED
    BY <1>3, <2>2, <2>3, AppendedList
<1>4. IsList(t) /\ IsList(s) /\ Decoded(t, s)
  <2> DEFINE a1 == Append(<<>>, c1)
             a2 == Append(a1, "+")
             a3 == Append(a2, c3)
             a4 == Append(a3, ".")
             b2 == Append(a1, Space)
             b3 == Append(b2, c3)
             b4 == Append(b3, ".")
  <2>1. IsList(a1) /\ Decoded(a1, a1)
    BY <1>2, EmptyList, NoneDecoded
  <2> HIDE DEF a1
  <2>2. IsList(a2) /\ IsList(b2) /\ Decoded(a2, b2)
    BY <1>3, <2>1
  <2> HIDE DEF a2, b2
  <2>3. IsList(a3) /\ IsList(b3) /\ Decoded(a3, b3)
    BY <1>2, <2>2
  <2> HIDE DEF a3, b3
  <2>4. IsList(a4) /\ IsList(b4) /\ Decoded(a4, b4)
    BY <1>2, <2>3
  <2> HIDE DEF a4, b4
  <2>5. IsList(Append(a4, "svg")) /\ IsList(Append(b4, "svg")) /\ Decoded(Append(a4, "svg"),
            Append(b4, "svg"))
    BY <1>2, <2>4
  <2> QED
    BY <2>5 DEF a1, a2, a3, a4, b2, b3, b4
<1>5. /\ Len(t) = 5 /\ t[1] = "elo" /\ t[2] = "+" /\ t[3] = "rank" /\ t[4] = "." /\ t[5] = "svg"
      /\ Len(s) = 5 /\ s[1] = "elo" /\ s[2] = Space /\ s[3] = "rank" /\ s[4] = "." /\ s[5] = "svg"
  OBVIOUS
<1> HIDE DEF t, s
<1>6. Space # "NUL" /\ \A c \in {"elo", "+", "rank", ".", "svg"} : c # Space
  <2>1. IsBlank(Space)
    BY BlankIs
  <2>2. ~IsBlank("elo") /\ ~IsBlank("+") /\ ~IsBlank("NUL") /\ ~IsBlank("rank") /\ ~IsBlank(".") /\ ~IsBlank("svg")
    BY Zenon DEF IsBlank
  <2> QED
    BY <2>1, <2>2
<1>7. \A k \in 1..5 : t[k] # "/" /\ t[k] # Space /\ s[k] # "NUL"
  <2>1. SUFFICES ASSUME NEW k \in 1..5 PROVE t[k] # "/" /\ t[k] # Space /\ s[k] # "NUL"
    OBVIOUS
  <2>2. k = 1 \/ k = 2 \/ k = 3 \/ k = 4 \/ k = 5
    OBVIOUS
  <2> QED
    BY <1>5, <1>6, <2>2
<1>8. UrlDecode(t) = s
  BY <1>4, <1>5, <1>7, DecodedIs DEF Without
<1>9. t # <<>>
  BY <1>4, <1>5, EmptyList
<1> QED
  BY <1>1, <1>4, <1>5, <1>7, <1>8, <1>9 DEF Without

\* The first page of players, which has the number 1.
LEMMA DecimalOne == Decimal(1) = <<"1">>
<1>1. PICK w \in 1..5 : /\ IsList(Decimal(1)) /\ Len(Decimal(1)) = w
                        /\ \A i \in 1..w : Decimal(1)[i] = Digits[((1 \div Tens[w - i + 1]) % 10) + 1]
                        /\ w = 1 \/ Tens[w] <= 1
  <2> DEFINE n == 1
  <2> HIDE DEF n
  <2>1. \E w \in 1..5 : /\ IsList(Decimal(n)) /\ Len(Decimal(n)) = w
                        /\ \A i \in 1..w : Decimal(n)[i] = Digits[((n \div Tens[w - i + 1]) % 10) + 1]
                        /\ (w < 5 => ~(Tens[w + 1] <= n)) /\ (w = 1 \/ Tens[w] <= n)
    BY DecimalDigitsOf
  <2> QED
    BY <2>1 DEF n
<1>2. w = 1
  BY <1>1, TensAre
<1>3. Decimal(1)[1] = Digits[((1 \div 1) % 10) + 1]
  <2>1. Decimal(1)[1] = Digits[((1 \div Tens[1 - 1 + 1]) % 10) + 1]
    BY <1>1, <1>2
  <2>2. Tens[1 - 1 + 1] = 1
    BY TensAre
  <2> QED
    BY <2>1, <2>2
<1>4. Digits[((1 \div 1) % 10) + 1] = "1"
  BY DEF Digits
<1> DEFINE s == <<"1">>
<1>5. IsList(s) /\ Len(s) = 1 /\ s[1] = "1"
  BY Single
<1> HIDE DEF s
<1>6. Decimal(1) = s
  BY <1>1, <1>2, <1>3, <1>4, <1>5, ListsSame
<1> QED
  BY <1>6 DEF s

\* The text of a number.
IsText(t, n) ==
    /\ IsList(t) /\ Len(t) >= 1 /\ t # <<>> /\ IsNumber(t) /\ Number(t) = n
    /\ \A i \in 1..Len(t) : t[i] \in DecimalDigits
    /\ n < 1000 => Len(t) <= 3

LEMMA NumberText ==
  ASSUME NEW n \in Nat, n <= 99999
  PROVE  IsText(Decimal(n), n)
<1> DEFINE t == Decimal(n)
<1>1. IsList(t) /\ Len(t) >= 1 /\ (\A i \in 1..Len(t) : t[i] \in DecimalDigits) /\ Number(t) = n
  BY DecimalRead
<1>2. t # <<>>
  BY <1>1, EmptyList
<1>3. DOMAIN t = 1..Len(t)
  BY <1>1, ListIs
<1>4. IsNumber(t)
  BY <1>1, <1>2, <1>3 DEF IsNumber
<1>5. ASSUME n < 1000 PROVE Len(t) <= 3
  <2>1. PICK w \in 1..5 : Len(t) = w /\ (w = 1 \/ Tens[w] <= n)
    BY DecimalDigitsOf
  <2>2. ~(w = 4) /\ ~(w = 5)
    BY <1>5, <2>1, TensAre
  <2> QED
    BY <2>1, <2>2
<1> HIDE DEF t
<1>6. IsText(t, n)
  BY <1>1, <1>2, <1>4, <1>5 DEF IsText
<1> QED
  BY <1>6 DEF t

LEMMA DecimalsAre == ASSUME NEW c \in DecimalDigits PROVE c \in HexChars
<1>1. PICK i \in 1..10 : c = Digits[i]
  BY DEF DecimalDigits
<1>2. i \in 1..16
  OBVIOUS
<1> QED
  BY <1>1, <1>2, HexCharsAre

LEMMA NumberWithout ==
  ASSUME NEW n \in Nat, n <= 99999, NEW c, c \notin HexChars
  PROVE  Without(Decimal(n), c)
<1> DEFINE t == Decimal(n)
<1>1. \A i \in 1..Len(t) : t[i] \in DecimalDigits
  BY NumberText DEF IsText
<1> HIDE DEF t
<1>2. \A i \in 1..Len(t) : t[i] # c
  BY <1>1, DecimalsAre
<1> QED
  BY <1>2 DEF Without, t

LEMMA Marks == "." \notin HexChars /\ ":" \notin HexChars /\ "[" \notin HexChars /\ "]" \notin HexChars
<1>1. \A c \in HexChars : c \notin {".", ":", "[", "]"}
  BY HexCharsAre
<1> QED
  BY <1>1

LEMMA AppendedThree ==
  ASSUME NEW a, NEW b, NEW c, NEW x
  PROVE  Append(<<a, b, c>>, x) = <<a, b, c, x>>
<1> DEFINE s == <<a, b, c>>
           t == <<a, b, c, x>>
<1>1. IsList(s) /\ Len(s) = 3 /\ s[1] = a /\ s[2] = b /\ s[3] = c
  BY Triple
<1>2. IsList(t)
  BY Fourth
<1>3. Len(t) = 4 /\ t[1] = a /\ t[2] = b /\ t[3] = c /\ t[4] = x
  OBVIOUS
<1> HIDE DEF s, t
<1>40. \A r : IsList(r) => /\ IsList(Append(r, x)) /\ Len(Append(r, x)) = Len(r) + 1
                           /\ Append(r, x)[Len(r) + 1] = x
                           /\ \A i \in 1..Len(r) : Append(r, x)[i] = r[i]
  BY ONLY AppendedList
<1>41. /\ IsList(Append(s, x)) /\ Len(Append(s, x)) = Len(s) + 1 /\ Append(s, x)[Len(s) + 1] = x
       /\ \A i \in 1..Len(s) : Append(s, x)[i] = s[i]
  BY <1>1, <1>40, Zenon
<1> DEFINE u == Append(s, x)
           n == Len(s)
<1>42. n = 3 /\ IsList(u) /\ Len(u) = n + 1 /\ u[n + 1] = x /\ \A i \in 1..n : u[i] = s[i]
  BY <1>1, <1>41, Zenon
<1> HIDE DEF u, n
<1>4. IsList(u) /\ Len(u) = 4 /\ u[4] = x /\ \A i \in 1..3 : u[i] = s[i]
  BY <1>42
<1>5. \A i \in 1..4 : u[i] = t[i]
  <2>1. \A i \in 1..4 : i = 1 \/ i = 2 \/ i = 3 \/ i = 4
    OBVIOUS
  <2> QED
    BY <1>1, <1>3, <1>4, <2>1
<1>6. u = t
  BY <1>2, <1>3, <1>4, <1>5, ListsSame
<1> QED
  BY <1>6 DEF s, t, u

-----------------------------------------------------------------------------
\* Addresses are printed, put in a link, and parsed.

\* An IPv4 address, of four numbers.
Dotted(a, b, c, d) == ((((((a \o <<".">>) \o b) \o <<".">>) \o c) \o <<".">>) \o d)

IsByteText(t) == /\ IsList(t) /\ Len(t) >= 1 /\ Len(t) <= 3 /\ IsNumber(t) /\ Number(t) < 256
                 /\ \A i \in 1..Len(t) : t[i] \in HexChars

LEMMA ByteText == ASSUME NEW b \in 0..255 PROVE IsByteText(Decimal(b))
<1>1. b \in Nat /\ b <= 99999 /\ b < 1000 /\ b < 256
  OBVIOUS
<1>2. /\ IsList(Decimal(b)) /\ Len(Decimal(b)) >= 1 /\ IsNumber(Decimal(b)) /\ Number(Decimal(b)) = b
      /\ \A i \in 1..Len(Decimal(b)) : Decimal(b)[i] \in DecimalDigits
      /\ b < 1000 => Len(Decimal(b)) <= 3
  <2>1. IsText(Decimal(b), b)
    BY <1>1, NumberText
  <2> QED
    BY <2>1 DEF IsText
<1>21. Len(Decimal(b)) <= 3
  BY ONLY <1>1, <1>2
<1>3. \A i \in 1..Len(Decimal(b)) : Decimal(b)[i] \in HexChars
  BY ONLY <1>2, DecimalsAre
<1> QED
  BY <1>1, <1>2, <1>21, <1>3 DEF IsByteText

LEMMA MappedText ==
  ASSUME NEW ip \in [1..16 -> 0..255], IsMapped(ip)
  PROVE  \E a, b, c, d : /\ IpText(ip) = Dotted(a, b, c, d)
                         /\ IsByteText(a) /\ IsByteText(b) /\ IsByteText(c) /\ IsByteText(d)
<1> DEFINE a == Decimal(ip[13])
           b == Decimal(ip[14])
           c == Decimal(ip[15])
           d == Decimal(ip[16])
<1>1. IsByteText(a) /\ IsByteText(b) /\ IsByteText(c) /\ IsByteText(d)
  <2>1. ip[13] \in 0..255 /\ ip[14] \in 0..255 /\ ip[15] \in 0..255 /\ ip[16] \in 0..255
    OBVIOUS
  <2> QED
    BY <2>1, ByteText
<1>2. IpText(ip) = Dotted(a, b, c, d)
  BY DEF IpText, Dotted
<1> HIDE DEF a, b, c, d
<1> QED
  BY <1>1, <1>2

LEMMA ByteWithout ==
  ASSUME NEW t, IsByteText(t), NEW c, c \notin HexChars
  PROVE  IsList(t) /\ Without(t, c)
BY DEF IsByteText, Without

LEMMA DottedRead ==
  ASSUME NEW a, NEW b, NEW c, NEW d, IsByteText(a), IsByteText(b), IsByteText(c), IsByteText(d),
         NEW ip, ip = Dotted(a, b, c, d)
  PROVE  /\ IsList(ip) /\ Len(ip) >= 1 /\ ip[1] \in HexChars /\ IsIpv4(ip) /\ IsValidIp(ip)
         /\ \A x : x \notin HexChars \cup {"."} => Without(ip, x)
<1> DEFINE dot == <<".">>
           a1 == a \o dot
           a2 == a1 \o b
           a3 == a2 \o dot
           a4 == a3 \o c
           a5 == a4 \o dot
           a6 == a5 \o d
<1>0. ip = a6
  BY DEF Dotted
<1>1. IsList(a) /\ IsList(b) /\ IsList(c) /\ IsList(d) /\ IsList(dot) /\ Len(dot) = 1 /\ dot[1] = "."
  BY Single DEF IsByteText
<1> HIDE DEF dot
<1>2. IsList(a1) /\ IsList(a2) /\ IsList(a3) /\ IsList(a4) /\ IsList(a5) /\ IsList(a6)
  <2>1. IsList(a1)
    BY <1>1, JoinedLists
  <2> HIDE DEF a1
  <2>2. IsList(a2)
    BY <1>1, <2>1, JoinedLists
  <2> HIDE DEF a2
  <2>3. IsList(a3)
    BY <1>1, <2>2, JoinedLists
  <2> HIDE DEF a3
  <2>4. IsList(a4)
    BY <1>1, <2>3, JoinedLists
  <2> HIDE DEF a4
  <2>5. IsList(a5)
    BY <1>1, <2>4, JoinedLists
  <2> HIDE DEF a5
  <2>6. IsList(a6)
    BY <1>1, <2>5, JoinedLists
  <2> QED
    BY <2>1, <2>2, <2>3, <2>4, <2>5, <2>6
<1>3. ASSUME NEW x, x \notin HexChars \cup {"."} PROVE Without(ip, x)
  <2>1. Without(a, x) /\ Without(b, x) /\ Without(c, x) /\ Without(d, x)
    BY <1>3, ByteWithout
  <2>2. Without(dot, x)
    BY <1>3, OneWithout DEF dot
  <2>3. Without(a1, x)
    BY <1>1, <2>1, <2>2, JoinedWithout
  <2> HIDE DEF a1
  <2>4. Without(a2, x)
    BY <1>1, <1>2, <2>1, <2>3, JoinedWithout
  <2> HIDE DEF a2
  <2>5. Without(a3, x)
    BY <1>1, <1>2, <2>2, <2>4, JoinedWithout
  <2> HIDE DEF a3
  <2>6. Without(a4, x)
    BY <1>1, <1>2, <2>1, <2>5, JoinedWithout
  <2> HIDE DEF a4
  <2>7. Without(a5, x)
    BY <1>1, <1>2, <2>2, <2>6, JoinedWithout
  <2> HIDE DEF a5
  <2>8. Without(a6, x)
    BY <1>1, <1>2, <2>1, <2>7, JoinedWithout
  <2> QED
    BY <1>0, <2>8
<1>4. Split(ip, ".") = <<a, b, c, d>>
  <2>1. Without(a, ".") /\ Without(b, ".") /\ Without(c, ".") /\ Without(d, ".")
    BY Marks, ByteWithout
  <2>2. Split(a, ".") = <<a>>
    BY <1>1, <2>1, SplitNone
  <2>3. Split(a2, ".") = Append(Split(a, "."), b)
    BY <1>1, <2>1, SplitNext DEF dot
  <2>4. Split(a4, ".") = Append(Split(a2, "."), c)
    <3> HIDE DEF a2
    <3> QED
      BY <1>1, <1>2, <2>1, SplitNext DEF dot
  <2>5. Split(a6, ".") = Append(Split(a4, "."), d)
    <3> HIDE DEF a4
    <3> QED
      BY <1>1, <1>2, <2>1, SplitNext DEF dot
  <2> HIDE DEF a2, a4, a6
  <2>61. Split(a2, ".") = <<a, b>>
    BY <2>2, <2>3, AppendedOne
  <2>6. Split(a4, ".") = <<a, b, c>>
    BY <2>61, <2>4, AppendedTwo
  <2>7. Append(<<a, b, c>>, d) = <<a, b, c, d>>
    BY AppendedThree
  <2> QED
    BY <1>0, <2>5, <2>6, <2>7
<1>5. IsIpv4(ip) /\ Len(ip) >= 1 /\ ip[1] \in HexChars
  <2> DEFINE n == Len(a)
  <2>1. n \in 1..3 /\ a[1] \in HexChars
    <3>1. n \in Nat
      BY <1>1, ListIs
    <3>2. n >= 1 /\ n <= 3 /\ \A i \in 1..n : a[i] \in HexChars
      BY DEF IsByteText
    <3> HIDE DEF n
    <3>3. n \in 1..3 /\ 1 \in 1..n
      BY <3>1, <3>2
    <3> QED
      BY <3>2, <3>3
  <2>2. Len(a1) = n + 1 /\ (\A i \in 1..(n + 1) : a1[i] = IF i <= n THEN a[i] ELSE dot[i - n])
    BY <1>1, JoinedLists
  <2>3. a1[n + 1] = "." /\ a1[1] = a[1]
    BY <1>1, <2>1, <2>2
  <2> DEFINE N(s) == Len(s) >= n + 1 /\ s[n + 1] = "." /\ s[1] = a[1]
  <2>4. N(a1)
    BY <2>1, <2>2, <2>3
  <2>5. ASSUME NEW s, IsList(s), N(s), NEW u, IsList(u) PROVE N(s \o u)
    <3>1. /\ Len(s) \in Nat /\ Len(u) \in Nat /\ Len(s \o u) = Len(s) + Len(u)
          /\ \A i \in 1..(Len(s) + Len(u)) : (s \o u)[i] = IF i <= Len(s) THEN s[i] ELSE u[i - Len(s)]
      BY <2>5, JoinedLists
    <3>2. 1 \in 1..(Len(s) + Len(u)) /\ n + 1 \in 1..(Len(s) + Len(u)) /\ 1 <= Len(s) /\ n + 1 <= Len(s)
      BY <2>1, <2>5, <3>1
    <3> QED
      BY <2>1, <2>5, <3>1, <3>2
  <2> HIDE DEF N
  <2>6. N(a6)
    <3> HIDE DEF a1
    <3>1. N(a2)
      BY <1>1, <1>2, <2>4, <2>5
    <3> HIDE DEF a2
    <3>2. N(a3)
      BY <1>1, <1>2, <3>1, <2>5
    <3> HIDE DEF a3
    <3>3. N(a4)
      BY <1>1, <1>2, <3>2, <2>5
    <3> HIDE DEF a4
    <3>4. N(a5)
      BY <1>1, <1>2, <3>3, <2>5
    <3> HIDE DEF a5
    <3> QED
      BY <1>1, <1>2, <3>4, <2>5
  <2>7. Len(ip) >= n + 1 /\ ip[n + 1] = "." /\ ip[1] = a[1] /\ Len(ip) \in Nat
    <3> HIDE DEF a6
    <3> QED
      BY <1>0, <1>2, <2>6, ListIs DEF N
  <2> HIDE DEF n
  <2>8. n + 1 \in 2..4 /\ n + 1 <= Len(ip) /\ Len(ip) >= 1
    BY <2>1, <2>7
  <2>9. IsIpv4(ip)
    BY <2>7, <2>8 DEF IsIpv4
  <2> QED
    BY <2>1, <2>7, <2>8, <2>9
<1>6. IsValidIp(ip)
  <2> DEFINE parts == <<a, b, c, d>>
  <2>1. Len(parts) = 4 /\ parts[1] = a /\ parts[2] = b /\ parts[3] = c /\ parts[4] = d
    OBVIOUS
  <2> HIDE DEF parts
  <2>2. \A i \in 1..4 : IsByteText(parts[i])
    <3>1. \A i \in 1..4 : i = 1 \/ i = 2 \/ i = 3 \/ i = 4
      OBVIOUS
    <3> QED
      BY <2>1, <3>1
  <2>3. \A i \in 1..4 : IsNumber(parts[i]) /\ Len(parts[i]) <= 3 /\ Number(parts[i]) < 256
    BY <2>2 DEF IsByteText
  <2>4. Split(ip, ".") = parts
    BY <1>4 DEF parts
  <2> QED
    BY <1>5, <2>1, <2>3, <2>4 DEF IsValidIp
<1> QED
  BY <1>0, <1>2, <1>3, <1>5, <1>6

Parsed(addr, ip, port) == ParseAddr(addr).valid /\ ParseAddr(addr).ip = ip /\ ParseAddr(addr).port = port

LEMMA ParsePlain ==
  ASSUME NEW addr, addr # <<>>, Head(addr) # "[", NEW parts, Split(addr, ":") = parts, NEW ip,
             Head(parts) = ip,
         NEW rest, SubSeq(addr, Len(ip) + 2, Len(addr)) = rest, rest # <<>>, Head(rest) # ":",
         ip # <<>>, IsValidIp(ip), IsValidPort(rest)
  PROVE  Parsed(addr, ip, rest)
<1> DEFINE valid == /\ ip # <<>> /\ rest # <<>>
                    /\ IsValidIp(ip) /\ IsValidPort(rest)
           p == [valid |-> valid, ip |-> ip, port |-> rest]
<1>1. ParseAddr(addr) = p
  BY DEF ParseAddr
<1>2. valid
  OBVIOUS
<1> HIDE DEF valid
<1>3. p.valid = valid /\ p.ip = ip /\ p.port = rest
  OBVIOUS
<1> HIDE DEF p
<1> QED
  BY <1>1, <1>2, <1>3, Zenon DEF Parsed

LEMMA ParseBracketed ==
  ASSUME NEW addr, addr # <<>>, Head(addr) = "[", NEW body, Tail(addr) = body,
         NEW parts, Split(body, "]") = parts, NEW ip, Head(parts) = ip,
         NEW rest, SubSeq(addr, Len(ip) + 3, Len(addr)) = rest, rest # <<>>, Head(rest) = ":",
         NEW port, Tail(rest) = port, ip # <<>>, IsValidIp(ip), IsValidPort(port)
  PROVE  Parsed(addr, ip, port)
<1> DEFINE valid == /\ ip # <<>> /\ rest # <<>>
                    /\ IsValidIp(ip) /\ IsValidPort(port)
           p == [valid |-> valid, ip |-> ip, port |-> port]
<1>1. ParseAddr(addr) = p
  BY DEF ParseAddr
<1>2. valid
  OBVIOUS
<1> HIDE DEF valid
<1>3. p.valid = valid /\ p.ip = ip /\ p.port = port
  OBVIOUS
<1> HIDE DEF p
<1> QED
  BY <1>1, <1>2, <1>3, Zenon DEF Parsed

LEMMA RestOf ==
  ASSUME NEW a, IsList(a), NEW b, IsList(b)
  PROVE  SubSeq(a \o b, Len(a) + 1, Len(a \o b)) = b
<1> DEFINE s == a \o b
           m == Len(a) + 1
           n == Len(s)
           r == SubSeq(s, m, n)
<1>1. /\ IsList(s) /\ Len(a) \in Nat /\ Len(b) \in Nat /\ Len(s) = Len(a) + Len(b)
      /\ \A i \in 1..(Len(a) + Len(b)) : s[i] = IF i <= Len(a) THEN a[i] ELSE b[i - Len(a)]
  BY JoinedLists
<1> HIDE DEF s
<1>2. m \in Nat \ {0} /\ n \in Nat /\ n <= Len(s) /\ m <= n + 1 /\ n - m + 1 = Len(b)
  BY <1>1
<1>3. \A i \in 1..Len(b) : m + i - 1 = Len(a) + i /\ ~(Len(a) + i <= Len(a)) /\ (Len(a) + i) - Len(a) = i
                           /\ Len(a) + i \in 1..(Len(a) + Len(b))
  BY <1>1
<1> HIDE DEF m, n
<1>4. IsList(r) /\ Len(r) = n - m + 1 /\ \A i \in 1..(n - m + 1) : r[i] = s[m + i - 1]
  BY <1>1, <1>2, PartOfList
<1> HIDE DEF r
<1>5. IsList(r) /\ Len(r) = Len(b) /\ \A i \in 1..Len(b) : r[i] = b[i]
  BY <1>1, <1>2, <1>3, <1>4
<1>6. r = b
  BY <1>5, ListsSame
<1> QED
  BY <1>6 DEF r, s, m, n

LEMMA FirstOf ==
  ASSUME NEW s, IsList(s), s # <<>>
  PROVE  Len(s) \in Nat \ {0} /\ Head(s) = s[1]
<1>1. \E S : s \in Seq(S)
  <2>1. s \in Seq({s[i] : i \in 1..Len(s)})
    BY ListWithin
  <2> QED
    BY <2>1
<1> QED
  BY <1>1, Ends

LEMMA TailOf ==
  ASSUME NEW x, NEW b, IsList(b)
  PROVE  /\ IsList(<<x>> \o b) /\ <<x>> \o b # <<>> /\ Head(<<x>> \o b) = x /\ Tail(<<x>> \o b) = b
<1> DEFINE a == <<x>>
           s == a \o b
           r == Tail(s)
<1>1. IsList(a) /\ Len(a) = 1 /\ a[1] = x
  BY Single
<1> HIDE DEF a
<1>2. /\ IsList(s) /\ Len(b) \in Nat /\ Len(s) = 1 + Len(b)
      /\ \A i \in 1..(1 + Len(b)) : s[i] = IF i <= 1 THEN a[i] ELSE b[i - 1]
  BY <1>1, JoinedLists
<1> HIDE DEF s
<1>3. s # <<>> /\ s[1] = x
  <2>1. Len(s) # 0 /\ 1 \in 1..(1 + Len(b))
    BY <1>2
  <2> QED
    BY <1>1, <1>2, <2>1, EmptyList
<1> DEFINE S == {s[i] : i \in 1..Len(s)}
<1>4. s \in Seq(S)
  BY <1>2, ListWithin
<1> HIDE DEF S
<1>5. Head(s) = s[1] /\ Tail(s) = RemoveAt(s, 1)
  BY <1>3, <1>4, Ends
<1>6. /\ RemoveAt(s, 1) \in Seq(S) /\ Len(RemoveAt(s, 1)) = Len(s) - 1
      /\ \A k \in 1..(Len(s) - 1) : RemoveAt(s, 1)[k] = IF k < 1 THEN s[k] ELSE s[k + 1]
  <2> DEFINE i == 1
  <2>1. i \in 1..Len(s)
    BY <1>2
  <2> HIDE DEF i
  <2>2. /\ RemoveAt(s, i) \in Seq(S) /\ Len(RemoveAt(s, i)) = Len(s) - 1
        /\ \A k \in 1..(Len(s) - 1) : RemoveAt(s, i)[k] = IF k < i THEN s[k] ELSE s[k + 1]
    BY <1>4, <2>1, Removed
  <2> QED
    BY <2>2 DEF i
<1>7. IsList(r) /\ Len(r) = Len(b) /\ \A k \in 1..Len(b) : r[k] = b[k]
  <2>1. r \in Seq(S) /\ Len(r) = Len(b) /\ \A k \in 1..Len(b) : r[k] = IF k < 1 THEN s[k] ELSE s[k + 1]
    <3>1. r = RemoveAt(s, 1)
      BY <1>5
    <3>2. Len(s) - 1 = Len(b)
      BY <1>2
    <3> HIDE DEF r
    <3> QED
      BY <1>6, <3>1, <3>2
  <2> HIDE DEF r
  <2>2. IsList(r)
    BY <2>1, ListIn
  <2>3. \A k \in 1..Len(b) : ~(k < 1) /\ k + 1 \in 1..(1 + Len(b)) /\ ~(k + 1 <= 1) /\ (k + 1) - 1 = k
    BY <1>2
  <2> QED
    BY <1>2, <2>1, <2>2, <2>3
<1> HIDE DEF r
<1>8. r = b
  BY <1>7, ListsSame
<1> QED
  BY <1>2, <1>3, <1>5, <1>8 DEF r, s, a

\* A port that parse_addr() reads.
IsPort(t) == /\ IsList(t) /\ t # <<>> /\ IsValidPort(t) /\ Len(t) \in Nat \ {0} /\ Head(t) \in HexChars
             /\ t[Len(t)] \in HexChars /\ \A c : c \notin HexChars => Without(t, c)

LEMMA MaxPortIs == MaxPort \in Nat /\ MaxPort <= 99999
  BY DEF MaxPort

LEMMA PortRead == ASSUME NEW p \in Nat, p < MaxPort PROVE IsPort(Decimal(p))
<1>1. p \in Nat /\ p <= 99999 /\ p < MaxPort
  BY MaxPortIs
<1> DEFINE t == Decimal(p)
<1>2. IsText(t, p)
  BY <1>1, NumberText
<1>3. \A c : c \notin HexChars => Without(t, c)
  BY <1>1, NumberWithout
<1> HIDE DEF t
<1>4. IsList(t) /\ t # <<>> /\ IsNumber(t) /\ Number(t) = p /\ \A i \in 1..Len(t) : t[i] \in DecimalDigits
  BY <1>2 DEF IsText
<1>5. Len(t) \in Nat \ {0} /\ Head(t) = t[1]
  BY <1>4, FirstOf
<1>6. 1 \in 1..Len(t) /\ Len(t) \in 1..Len(t)
  BY <1>5
<1>7. t[1] \in HexChars /\ t[Len(t)] \in HexChars
  BY <1>4, <1>6, DecimalsAre
<1>8. IsValidPort(t)
  <2> DEFINE n == Number(t)
             digits == IsNumber(t)
  <2>1. n = p /\ digits
    BY <1>4
  <2>2. IsValidPort(t) <=> digits /\ n < MaxPort
    BY DEF IsValidPort
  <2> HIDE DEF n, digits
  <2>3. n < MaxPort
    BY <1>1, <2>1
  <2> QED
    BY <2>1, <2>2, <2>3
<1> QED
  BY <1>3, <1>4, <1>5, <1>7, <1>8 DEF IsPort, t

\* What the links and the parser need of the text of an address.
AddressRead(ip, port) ==
    /\ IsList(BuildAddr(ip, port)) /\ Len(BuildAddr(ip, port)) >= 2
    /\ BuildAddr(ip, port)[Len(BuildAddr(ip, port))] \in HexChars
    /\ \A x \in {"/", "%", "+", "NUL"} : Without(BuildAddr(ip, port), x)
    /\ Parsed(BuildAddr(ip, port), ip, port)

LEMMA LastJoined ==
  ASSUME NEW a, IsList(a), NEW b, IsList(b), b # <<>>
  PROVE  /\ IsList(a \o b) /\ Len(a \o b) = Len(a) + Len(b) /\ Len(a) \in Nat /\ Len(b) \in Nat \ {0}
         /\ (a \o b)[Len(a \o b)] = b[Len(b)]
<1>1. /\ IsList(a \o b) /\ Len(a) \in Nat /\ Len(b) \in Nat /\ Len(a \o b) = Len(a) + Len(b)
      /\ \A i \in 1..(Len(a) + Len(b)) : (a \o b)[i] = IF i <= Len(a) THEN a[i] ELSE b[i - Len(a)]
  BY JoinedLists
<1>2. Len(b) \in Nat \ {0}
  BY FirstOf
<1> DEFINE s == a \o b
           m == Len(a)
           n == Len(b)
           k == m + n
<1>3. Len(s) = k /\ \A i \in 1..(m + n) : s[i] = IF i <= m THEN a[i] ELSE b[i - m]
  BY <1>1
<1>4. m \in Nat /\ n \in Nat \ {0}
  BY <1>1, <1>2
<1> HIDE DEF s, m, n
<1>5. k \in 1..(m + n) /\ ~(k <= m) /\ k - m = n
  BY <1>4
<1>6. s[k] = b[n]
  BY <1>3, <1>5
<1> QED
  BY <1>1, <1>2, <1>3, <1>6 DEF s, m, n

LEMMA SafeMarks ==
  ASSUME NEW x \in {"/", "%", "+", "NUL"}
  PROVE  x \notin HexChars /\ x \notin {".", ":", "[", "]"}
<1>1. \A c \in HexChars : c \notin {"/", "%", "+", "NUL"}
  BY HexCharsAre
<1> QED
  BY <1>1

LEMMA Ipv4Read ==
  ASSUME NEW ip, IsList(ip), Len(ip) >= 1, ip[1] \in HexChars, IsIpv4(ip), IsValidIp(ip),
         \A x : x \notin HexChars \cup {"."} => Without(ip, x), NEW port, IsPort(port)
  PROVE  AddressRead(ip, port)
<1> DEFINE colon == <<":">>
           a == ip \o colon
           addr == a \o port
           rest == SubSeq(addr, Len(ip) + 2, Len(addr))
           parts == <<ip, port>>
<1>1. /\ IsList(port) /\ port # <<>> /\ IsValidPort(port) /\ Head(port) \in HexChars
      /\ port[Len(port)] \in HexChars /\ \A c : c \notin HexChars => Without(port, c)
  BY DEF IsPort
<1>2. IsList(colon) /\ Len(colon) = 1 /\ colon # <<>>
  BY Single, OneNotEmpty
<1>3. BuildAddr(ip, port) = addr
  BY DEF BuildAddr
<1>4. Len(ip) \in Nat /\ ip # <<>>
  BY ListIs, EmptyList
<1>5. IsList(a) /\ Len(a) = Len(ip) + 1
  BY <1>2, JoinedLists
<1>6. a[1] = ip[1]
  <2>1. \A i \in 1..(Len(ip) + Len(colon)) : a[i] = IF i <= Len(ip) THEN ip[i] ELSE colon[i - Len(ip)]
    BY <1>2, JoinedLists
  <2>2. 1 \in 1..(Len(ip) + Len(colon)) /\ 1 <= Len(ip)
    BY <1>2, <1>4
  <2> HIDE DEF a
  <2> QED
    BY <2>1, <2>2
<1>7. Split(ip, ":") = <<ip>>
  <2>1. Without(ip, ":")
    BY Marks
  <2> QED
    BY <2>1, SplitNone
<1>8. Split(addr, ":") = parts
  <2>1. Without(port, ":")
    BY <1>1, Marks
  <2>2. Split(addr, ":") = Append(Split(ip, ":"), port)
    BY <1>1, <2>1, SplitNext
  <2> HIDE DEF addr
  <2> QED
    BY <1>7, <2>2, AppendedOne
<1>9. \A x \in {"/", "%", "+", "NUL"} : Without(addr, x)
  <2>1. SUFFICES ASSUME NEW x \in {"/", "%", "+", "NUL"} PROVE Without(addr, x)
    OBVIOUS
  <2>2. x \notin HexChars \cup {"."} /\ x # ":"
    BY SafeMarks
  <2>3. Without(ip, x) /\ Without(port, x)
    BY <1>1, <2>2
  <2>4. Without(colon, x)
    BY <2>2, OneWithout
  <2>5. Without(a, x)
    BY <1>2, <2>3, <2>4, JoinedWithout
  <2> HIDE DEF a
  <2> QED
    BY <1>1, <1>5, <2>3, <2>5, JoinedWithout
<1> HIDE DEF a, colon
<1>10. /\ IsList(addr) /\ Len(addr) = Len(a) + Len(port) /\ Len(port) \in Nat \ {0} /\ addr[Len(addr)] = port[Len(port)]
       /\ \A i \in 1..(Len(a) + Len(port)) : addr[i] = IF i <= Len(a) THEN a[i] ELSE port[i - Len(a)]
  BY <1>1, <1>5, LastJoined, JoinedLists
<1>11. rest = port
  <2>1. SubSeq(a \o port, Len(a) + 1, Len(a \o port)) = port
    BY <1>1, <1>5, RestOf
  <2>2. Len(a) + 1 = Len(ip) + 2
    BY <1>4, <1>5
  <2> QED
    BY <2>1, <2>2
<1> HIDE DEF addr, rest
<1>12. Len(addr) >= 2 /\ addr[1] = ip[1]
  <2> DEFINE m == Len(a)
             n == Len(port)
  <2>1. m = Len(ip) + 1 /\ n \in Nat \ {0} /\ Len(addr) = m + n
    BY <1>5, <1>10
  <2>2. \A i \in 1..(m + n) : addr[i] = IF i <= m THEN a[i] ELSE port[i - m]
    BY <1>10
  <2> HIDE DEF m, n
  <2>3. 1 \in 1..(m + n) /\ 1 <= m /\ m + n >= 2
    BY <1>4, <2>1
  <2> QED
    BY <1>6, <2>1, <2>2, <2>3
<1>13. addr # <<>> /\ Head(addr) # "["
  <2>1. addr # <<>>
    BY <1>12, EmptyList
  <2>2. Head(addr) = addr[1]
    BY <1>10, <2>1, FirstOf
  <2> QED
    BY <1>12, <2>1, <2>2, Marks
<1>14. Head(parts) = ip
  OBVIOUS
<1> HIDE DEF parts
<1>15. Head(port) # ":"
  BY <1>1, Marks
<1>16. SubSeq(addr, Len(ip) + 2, Len(addr)) = port
  BY <1>11 DEF rest
<1>17. Parsed(addr, ip, port)
  BY <1>1, <1>4, <1>8, <1>13, <1>14, <1>15, <1>16, ParsePlain
<1>18. addr[Len(addr)] \in HexChars
  BY <1>1, <1>10
<1> QED
  BY <1>3, <1>9, <1>10, <1>12, <1>17, <1>18 DEF AddressRead

LEMMA Ipv6Read ==
  ASSUME NEW ip, IsList(ip), ip # <<>>, ~IsIpv4(ip), IsValidIp(ip),
         \A x : x \notin HexChars \cup {":"} => Without(ip, x), NEW port, IsPort(port)
  PROVE  AddressRead(ip, port)
<1> DEFINE open == <<"[">>
           shut == <<"]">>
           colon == <<":">>
           mid == <<"]", ":">>
           inner == ip \o shut
           a == open \o inner
           rest == colon \o port
           body == inner \o rest
           addr == open \o body
           parts == <<ip, rest>>
<1>1. /\ IsList(port) /\ port # <<>> /\ IsValidPort(port) /\ Head(port) \in HexChars
      /\ port[Len(port)] \in HexChars /\ \A c : c \notin HexChars => Without(port, c)
  BY DEF IsPort
<1>2. IsList(open) /\ IsList(shut) /\ IsList(colon) /\ Len(open) = 1 /\ Len(shut) = 1 /\ Len(colon) = 1
  BY Single
<1>3. mid = shut \o colon
  OBVIOUS
<1>4. BuildAddr(ip, port) = ((open \o ip) \o mid) \o port
  BY DEF BuildAddr
<1>5. rest # <<>> /\ Head(rest) = ":" /\ Tail(rest) = port /\ IsList(rest)
  BY <1>1, TailOf
<1>6. Head(parts) = ip
  OBVIOUS
<1>61. \A x : x # "]" => Without(shut, x)
  BY OneWithout
<1>62. \A x : x # ":" => Without(colon, x)
  BY OneWithout
<1>63. \A x : x # "[" => Without(open, x)
  BY OneWithout
<1>64. Without(ip, "]") /\ Without(rest, "]") /\ Without(port, "]")
  <2>1. Without(port, "]") /\ Without(colon, "]") /\ Without(ip, "]")
    BY <1>1, <1>62, Marks
  <2> QED
    BY <1>1, <1>2, <2>1, JoinedWithout
<1>65. Split(body, "]") = parts
  <2>1. Split(ip, "]") = <<ip>>
    BY <1>64, SplitNone
  <2> HIDE DEF rest
  <2>2. Split(body, "]") = Append(Split(ip, "]"), rest)
    BY <1>5, <1>64, SplitNext
  <2> HIDE DEF body
  <2> QED
    BY <2>1, <2>2, AppendedOne
<1>66. IsList(inner) /\ Len(inner) = Len(ip) + 1 /\ Len(ip) \in Nat
  BY <1>2, JoinedLists
<1>67. IsList(body)
  <2> HIDE DEF inner, rest
  <2> QED
    BY <1>5, <1>66, JoinedLists
<1>68. addr # <<>> /\ Head(addr) = "[" /\ Tail(addr) = body /\ IsList(addr)
  <2> HIDE DEF body
  <2> QED
    BY <1>67, TailOf
<1>69. IsList(a) /\ Len(a) = Len(ip) + 2
  <2> HIDE DEF inner
  <2>1. IsList(a) /\ Len(a) = Len(open) + Len(inner)
    BY <1>2, <1>66, JoinedLists
  <2> HIDE DEF a
  <2> QED
    BY <1>2, <1>66, <2>1
<1> HIDE DEF open, shut, colon, mid
<1>7. ((open \o ip) \o mid) \o port = addr /\ a \o rest = addr
  <2>1. IsList(open \o ip) /\ (open \o ip) \o shut = a /\ IsList((open \o ip) \o shut)
    BY <1>2, JoinedThree
  <2>2. (open \o ip) \o (shut \o colon) = ((open \o ip) \o shut) \o colon
    <3> DEFINE b == open \o ip
    <3>1. IsList(b)
      BY <2>1
    <3> HIDE DEF b
    <3>2. (b \o shut) \o colon = b \o (shut \o colon)
      BY <1>2, <3>1, JoinedThree
    <3> QED
      BY <3>2 DEF b
  <2>3. (open \o ip) \o mid = a \o colon
    BY <1>3, <2>1, <2>2
  <2>4. (a \o colon) \o port = a \o rest
    <3> HIDE DEF a
    <3> QED
      BY <1>1, <1>2, <1>69, JoinedThree
  <2>5. a \o rest = addr
    <3> HIDE DEF inner, rest
    <3> QED
      BY <1>2, <1>5, <1>66, JoinedThree
  <2> HIDE DEF a, rest, addr
  <2> QED
    BY <2>3, <2>4, <2>5
<1>8. SubSeq(addr, Len(ip) + 3, Len(addr)) = rest
  <2> HIDE DEF a, rest
  <2>1. SubSeq(a \o rest, Len(a) + 1, Len(a \o rest)) = rest
    BY <1>5, <1>69, RestOf
  <2>2. a \o rest = addr
    BY <1>7
  <2>3. Len(a) + 1 = Len(ip) + 3
    BY <1>66, <1>69
  <2> HIDE DEF addr
  <2> QED
    BY <2>1, <2>2, <2>3
<1>9. \A x \in {"/", "%", "+", "NUL"} : Without(addr, x)
  <2>1. SUFFICES ASSUME NEW x \in {"/", "%", "+", "NUL"} PROVE Without(addr, x)
    OBVIOUS
  <2>2. x \notin HexChars \cup {":"} /\ x # ":" /\ x # "[" /\ x # "]" /\ x \notin HexChars
    BY SafeMarks
  <2>3. Without(ip, x) /\ Without(port, x) /\ Without(open, x) /\ Without(shut, x) /\ Without(colon, x)
    BY <1>1, <1>61, <1>62, <1>63, <2>2
  <2>4. Without(inner, x) /\ Without(rest, x)
    BY <1>1, <1>2, <2>3, JoinedWithout
  <2>5. Without(body, x)
    <3> HIDE DEF inner, rest
    <3> QED
      BY <1>5, <1>66, <2>4, JoinedWithout
  <2> HIDE DEF body
  <2> QED
    BY <1>2, <1>67, <2>3, <2>5, JoinedWithout
<1>10. Len(addr) >= 2 /\ addr[Len(addr)] \in HexChars
  <2> DEFINE b == a \o colon
  <2>1. addr = b \o port /\ IsList(b)
    <3>0. IsList(b)
      <4> HIDE DEF a
      <4> QED
        BY <1>2, <1>69, JoinedLists
    <3>1. (a \o colon) \o port = a \o rest
      <4> HIDE DEF a
      <4> QED
        BY <1>1, <1>2, <1>69, JoinedThree
    <3> HIDE DEF a, rest, addr
    <3> QED
      BY <1>7, <3>0, <3>1
  <2> HIDE DEF b, addr
  <2>2. addr[Len(addr)] = port[Len(port)]
    BY <1>1, <2>1, LastJoined
  <2>3. Len(addr) >= 2
    <3> HIDE DEF a
    <3>1. a \o rest = addr
      BY <1>7
    <3> HIDE DEF rest
    <3>2. Len(addr) = Len(a) + Len(rest) /\ Len(rest) \in Nat \ {0}
      BY <1>5, <1>69, <3>1, LastJoined
    <3> QED
      BY <1>66, <1>69, <3>2
  <2> QED
    BY <1>1, <2>2, <2>3
<1> HIDE DEF addr, body, rest, parts, inner, a
<1>11. Parsed(addr, ip, port)
  BY <1>1, <1>5, <1>6, <1>65, <1>68, <1>8, ParseBracketed
<1> QED
  BY <1>4, <1>68, <1>7, <1>9, <1>10, <1>11 DEF AddressRead

Low == ToSet(Digits)

LEMMA LowAre == (\A k \in 1..16 : Digits[k] \in Low) /\ \A c \in Low : c \in HexChars
<1>1. DOMAIN Digits = 1..16
  BY DEF Digits
<1>2. \A k \in 1..16 : Digits[k] \in Low
  BY <1>1 DEF Low, ToSet
<1>3. \A c \in Low : c \in HexChars
  <2>1. SUFFICES ASSUME NEW c \in Low PROVE c \in HexChars
    OBVIOUS
  <2>2. PICK k \in 1..16 : c = Digits[k]
    BY <1>1 DEF Low, ToSet
  <2> QED
    BY <2>2, HexCharsAre
<1> QED
  BY <1>2, <1>3

\* Two bytes of an IPv6 address.
LEMMA GroupIs ==
  ASSUME NEW ip \in [1..16 -> 0..255], NEW i \in 1..8
  PROVE  /\ IsList(HexGroup(ip, i)) /\ Len(HexGroup(ip, i)) = 4
         /\ \A k \in 1..4 : HexGroup(ip, i)[k] \in Low \cup {Space}
<1> DEFINE b == ip[2 * i - 1]
           c == ip[2 * i]
           g == Hexadecimal(b)
           h == Hexadecimal(c)
<1>1. b \in 0..255 /\ c \in 0..255
  <2>1. 2 * i - 1 \in 1..16 /\ 2 * i \in 1..16
    OBVIOUS
  <2> QED
    BY <2>1
<1> HIDE DEF b, c
<1>2. ASSUME NEW x \in 0..255
      PROVE  /\ IsList(Hexadecimal(x)) /\ Len(Hexadecimal(x)) = 2
             /\ Hexadecimal(x)[1] \in Low \cup {Space} /\ Hexadecimal(x)[2] \in Low \cup {Space}
  <2> DEFINE t == Hexadecimal(x)
             u == HighDigit(x)
             v == Digits[(x % 16) + 1]
  <2>1. t = <<u, v>>
    BY HexadecimalIs
  <2>2. u \in Low \cup {Space}
    <3>1. x \div 16 \in 0..15
      BY HalfBytes
    <3>2. (x \div 16) + 1 \in 1..16
      BY <3>1
    <3> QED
      BY <3>2, LowAre DEF HighDigit
  <2>3. v \in Low
    <3>1. x % 16 \in 0..15
      BY HalfBytes
    <3>2. (x % 16) + 1 \in 1..16
      BY <3>1
    <3> QED
      BY <3>2, LowAre
  <2> HIDE DEF t, u, v
  <2>4. IsList(t) /\ Len(t) = 2 /\ t[1] = u /\ t[2] = v
    BY <2>1, Pair
  <2>5. /\ IsList(t) /\ Len(t) = 2 /\ t[1] \in Low \cup {Space} /\ t[2] \in Low \cup {Space}
    BY <2>2, <2>3, <2>4
  <2> QED
    BY <2>5 DEF t
<1>3. /\ IsList(g) /\ Len(g) = 2 /\ g[1] \in Low \cup {Space} /\ g[2] \in Low \cup {Space}
      /\ IsList(h) /\ Len(h) = 2 /\ h[1] \in Low \cup {Space} /\ h[2] \in Low \cup {Space}
  BY <1>1, <1>2
<1> HIDE DEF g, h
<1>4. IsList(g \o h) /\ Len(g \o h) = 4
      /\ (g \o h)[1] = g[1] /\ (g \o h)[2] = g[2] /\ (g \o h)[3] = h[1] /\ (g \o h)[4] = h[2]
  BY <1>3, TwoAndTwo
<1> DEFINE t == g \o h
<1>5. HexGroup(ip, i) = t
  BY DEF HexGroup, g, h, b, c
<1> HIDE DEF t
<1>6. \A k \in 1..4 : k = 1 \/ k = 2 \/ k = 3 \/ k = 4
  OBVIOUS
<1>7. IsList(t) /\ Len(t) = 4 /\ \A k \in 1..4 : t[k] \in Low \cup {Space}
  BY <1>3, <1>4, <1>6 DEF t
<1> QED
  BY <1>5, <1>7

\* The beginning of an IPv6 address: n groups, with a colon between them.
PatternAt(j, c) == IF j % 5 = 0 THEN c = ":" ELSE c \in Low \cup {Space}

Pattern(t, n) == IsList(t) /\ Len(t) = 5 * n - 1 /\ \A j \in 1..(5 * n - 1) : PatternAt(j, t[j])

LEMMA PatternNext ==
  ASSUME NEW n \in Nat \ {0}, NEW t, Pattern(t, n), NEW g, IsList(g), Len(g) = 4,
         \A k \in 1..4 : g[k] \in Low \cup {Space}
  PROVE  Pattern(t \o (<<":">> \o g), n + 1)
<1> DEFINE colon == <<":">>
           h == colon \o g
           s == t \o h
           m == 5 * n - 1
<1>1. IsList(colon) /\ Len(colon) = 1 /\ colon[1] = ":"
  BY Single
<1> HIDE DEF colon
<1>2. IsList(h) /\ Len(h) = 5 /\ h[1] = ":" /\ \A k \in 2..5 : h[k] \in Low \cup {Space}
  <2>1. IsList(h) /\ Len(h) = 1 + 4 /\ \A i \in 1..5 : h[i] = IF i <= 1 THEN colon[i] ELSE g[i - 1]
    <3>1. IsList(h) /\ Len(h) = Len(colon) + Len(g)
          /\ \A i \in 1..(Len(colon) + Len(g)) : h[i] = IF i <= Len(colon) THEN colon[i] ELSE g[i - Len(colon)]
      BY <1>1, JoinedLists
    <3> HIDE DEF h
    <3> QED
      BY <1>1, <3>1
  <2> HIDE DEF h
  <2>2. \A k \in 2..5 : k \in 1..5 /\ ~(k <= 1) /\ k - 1 \in 1..4
    OBVIOUS
  <2>3. 1 \in 1..5 /\ 1 <= 1
    OBVIOUS
  <2> QED
    BY <1>1, <2>1, <2>2, <2>3
<1> HIDE DEF h
<1>3. IsList(t) /\ Len(t) = m /\ m \in Nat /\ \A j \in 1..m : PatternAt(j, t[j])
  BY DEF Pattern
<1>4. /\ IsList(s) /\ Len(s) = Len(t) + Len(h)
      /\ \A i \in 1..(Len(t) + Len(h)) : s[i] = IF i <= Len(t) THEN t[i] ELSE h[i - Len(t)]
  BY <1>2, <1>3, JoinedLists
<1> HIDE DEF s
<1>5. Len(s) = m + 5 /\ \A i \in 1..(m + 5) : s[i] = IF i <= m THEN t[i] ELSE h[i - m]
  BY <1>2, <1>3, <1>4
<1>6. m + 5 = 5 * (n + 1) - 1
  OBVIOUS
<1>7. ASSUME NEW j \in 1..(m + 5) PROVE PatternAt(j, s[j])
  <2>1. CASE j <= m
    <3>1. j \in 1..m
      BY <1>3, <2>1
    <3> QED
      BY <1>3, <1>5, <1>7, <2>1, <3>1
  <2>2. CASE j = m + 1
    <3>1. j = 5 * n
      BY <2>2
    <3>2. j % 5 = 0
      BY <3>1
    <3>3. ~(j <= m) /\ j - m = 1
      BY <1>3, <2>2
    <3> QED
      BY <1>2, <1>5, <1>7, <3>2, <3>3 DEF PatternAt
  <2>3. CASE j > m + 1
    <3>1. PICK k \in 1..4 : j = 5 * n + k
      <4>1. j - 5 * n \in 1..4 /\ j = 5 * n + (j - 5 * n)
        BY <1>3, <2>3
      <4> QED
        BY <4>1
    <3>2. j % 5 = k
      BY <3>1
    <3>3. ~(j <= m) /\ j - m = k + 1 /\ k + 1 \in 2..5 /\ k # 0
      BY <1>3, <3>1
    <3> QED
      BY <1>2, <1>5, <1>7, <3>2, <3>3 DEF PatternAt
  <2> QED
    BY <1>3, <1>7, <2>1, <2>2, <2>3
<1> HIDE DEF m
<1>8. Pattern(s, n + 1)
  BY <1>4, <1>5, <1>6, <1>7 DEF Pattern
<1> QED
  BY <1>8 DEF s, h, colon

IsGroup(g) == IsList(g) /\ Len(g) = 4 /\ \A k \in 1..4 : g[k] \in Low \cup {Space}

LEMMA PatternOne == ASSUME NEW g, IsGroup(g) PROVE Pattern(g, 1)
<1>1. IsList(g) /\ Len(g) = 5 * 1 - 1
  BY DEF IsGroup
<1>2. ASSUME NEW j \in 1..(5 * 1 - 1) PROVE PatternAt(j, g[j])
  <2>1. j \in 1..4 /\ j % 5 # 0
    OBVIOUS
  <2> QED
    BY <2>1 DEF IsGroup, PatternAt
<1> QED
  BY <1>1, <1>2 DEF Pattern

\* What is printed of an IPv6 address has its form, with blanks in it or not.
LEMMA Printed ==
  ASSUME NEW ip \in [1..16 -> 0..255], ~IsMapped(ip)
  PROVE  Pattern(IpText(ip), 8)
<1> DEFINE f == HexGroups(ip)
<1>1. IpText(ip) = FlattenSeq(f)
  BY DEF IpText, HexGroups, HexGroup
<1>2. IsList(f) /\ \A i \in 1..Len(f) : IsList(f[i])
  BY GroupsList
<1>3. f = [i \in 1..8 |-> f[i]] /\ f[1] = HexGroup(ip, 1)
      /\ \A i \in 2..8 : f[i] = <<":">> \o HexGroup(ip, i)
  <2>1. f = [i \in 1..8 |-> f[i]]
    BY DEF HexGroups
  <2>2. \A i \in 1..8 : f[i] = IF i = 1 THEN HexGroup(ip, i) ELSE <<":">> \o HexGroup(ip, i)
    BY DEF HexGroups
  <2>3. 1 \in 1..8 /\ \A i \in 2..8 : i \in 1..8 /\ i # 1
    OBVIOUS
  <2> HIDE DEF f
  <2> QED
    BY <2>1, <2>2, <2>3
<1> HIDE DEF f
<1>4. Len(f) = 8
  BY <1>3, ListMade
<1>5. \A i \in 1..8 : IsGroup(HexGroup(ip, i))
  BY GroupIs DEF IsGroup
<1>6. PICK joined : /\ joined[0] = <<>> /\ FlattenSeq(f) = joined[Len(f)]
                    /\ \A n \in 0..Len(f) : IsList(joined[n])
                    /\ \A n \in 1..Len(f) : joined[n] = joined[n - 1] \o f[n]
  BY <1>2, FlatSteps
<1>7. FlattenSeq(f) = joined[8] /\ \A n \in 1..8 : joined[n] = joined[n - 1] \o f[n]
  BY <1>4, <1>6
<1>8. Pattern(joined[1], 1)
  <2> DEFINE g == HexGroup(ip, 1)
  <2>1. IsGroup(g)
    BY <1>5
  <2>2. joined[1] = joined[0] \o f[1] /\ joined[0] = <<>> /\ f[1] = g
    <3>1. 1 \in 1..8 /\ 1 - 1 = 0
      OBVIOUS
    <3> HIDE DEF g
    <3>2. joined[1] = joined[0] \o f[1]
      BY <1>7, <3>1
    <3> QED
      BY <1>3, <1>6, <3>2 DEF g
  <2> HIDE DEF g
  <2>3. <<>> \o g = g
    BY <2>1, NoneJoined DEF IsGroup
  <2> QED
    BY <2>1, <2>2, <2>3, PatternOne
<1>9. ASSUME NEW n \in 1..7, Pattern(joined[n], n) PROVE Pattern(joined[n + 1], n + 1)
  <2> DEFINE g == HexGroup(ip, n + 1)
             t == joined[n]
  <2>1. n + 1 \in 2..8 /\ n + 1 \in 1..8 /\ (n + 1) - 1 = n /\ n \in Nat \ {0}
    OBVIOUS
  <2>2. IsGroup(g)
    BY <1>5, <2>1
  <2>3. joined[n + 1] = t \o (<<":">> \o g)
    <3>1. joined[n + 1] = joined[(n + 1) - 1] \o f[n + 1]
      BY <1>7, <2>1
    <3>2. f[n + 1] = <<":">> \o g
      BY <1>3, <2>1
    <3> HIDE DEF g
    <3> QED
      BY <2>1, <3>1, <3>2
  <2>4. Pattern(t, n)
    BY <1>9
  <2> HIDE DEF g, t
  <2>5. IsList(g) /\ Len(g) = 4 /\ \A k \in 1..4 : g[k] \in Low \cup {Space}
    BY <2>2 DEF IsGroup
  <2>6. Pattern(t \o (<<":">> \o g), n + 1)
    BY <2>1, <2>4, <2>5, PatternNext
  <2> QED
    BY <2>3, <2>6
<1> DEFINE Holds(n) == Pattern(joined[n], n)
<1>10. Holds(1) /\ \A n \in 1..7 : Holds(n) => Holds(n + 1)
  BY <1>8, <1>9
<1> HIDE DEF Holds
<1>11. Holds(2)
  BY <1>10
<1>12. Holds(3)
  BY <1>10, <1>11
<1>13. Holds(4)
  BY <1>10, <1>12
<1>14. Holds(5)
  BY <1>10, <1>13
<1>15. Holds(6)
  BY <1>10, <1>14
<1>16. Holds(7)
  BY <1>10, <1>15
<1>17. Holds(8)
  BY <1>10, <1>16
<1> QED
  BY <1>1, <1>7, <1>17 DEF Holds

LEMMA DotIsNot == "." \notin Low /\ "." # ":" /\ ":" \notin HexChars
  BY LowAre, Marks

LEMMA PatternRead ==
  ASSUME NEW t, Pattern(t, 8), Without(t, Space)
  PROVE  /\ IsList(t) /\ t # <<>> /\ ~IsIpv4(t) /\ IsValidIp(t)
         /\ \A x : x \notin HexChars \cup {":"} => Without(t, x)
<1>1. IsList(t) /\ Len(t) = 39 /\ \A j \in 1..39 : PatternAt(j, t[j])
  BY DEF Pattern
<1>2. \A j \in 1..39 : t[j] # Space
  BY <1>1 DEF Without
<1>3. ASSUME NEW j \in 1..39 PROVE IF j % 5 = 0 THEN t[j] = ":" ELSE t[j] \in Low
  BY <1>1, <1>2 DEF PatternAt
<1>4. DOMAIN t = 1..39
  BY <1>1 DEF IsList
<1>5. ~IsIpv4(t)
  <2>1. ASSUME NEW i \in 2..4 PROVE t[i] # "."
    <3>1. i \in 1..39 /\ i % 5 # 0
      OBVIOUS
    <3>2. t[i] \in Low
      BY <1>3, <3>1
    <3> QED
      BY <3>2, DotIsNot
  <2> QED
    BY <2>1 DEF IsIpv4
<1>6. IsValidIp(t)
  <2>1. \A i \in DOMAIN t : IF i % 5 = 0 THEN t[i] = ":" ELSE t[i] \in ToSet(Digits)
    BY <1>3, <1>4 DEF Low
  <2>2. Len(t) <= 39
    BY <1>1
  <2> QED
    BY <1>5, <2>1, <2>2 DEF IsValidIp
<1>7. ASSUME NEW x, x \notin HexChars \cup {":"} PROVE Without(t, x)
  <2>1. ASSUME NEW j \in 1..39 PROVE t[j] # x
    <3>1. t[j] = ":" \/ t[j] \in Low
      BY <1>3
    <3> QED
      BY <1>7, <3>1, LowAre
  <2> QED
    BY <1>1, <2>1 DEF Without
<1>8. t # <<>>
  <2>1. Len(t) # 0
    BY <1>1
  <2> QED
    BY <2>1, EmptyList
<1> QED
  BY <1>1, <1>5, <1>6, <1>7, <1>8

\* An address that raw_addr_to_strings() prints without a blank, with a port that is not the last,
\* can be put in a link, and parse_addr() reads the same address and port there (server.c).
THEOREM AddressRoundTrip ==
  ASSUME NEW bytes \in [1..16 -> 0..255], NEW p \in Nat, p < MaxPort,
         Without(IpText(bytes), Space)
  PROVE  AddressRead(IpText(bytes), PortText(p))
<1> DEFINE ip == IpText(bytes)
           port == PortText(p)
<1>1. ip = IpText(bytes) /\ port = Decimal(p) /\ Without(ip, Space)
  BY Zenon DEF PortText
<1> HIDE DEF port, ip
<1>2. IsPort(port)
  BY <1>1, PortRead
<1>3. ASSUME IsMapped(bytes) PROVE AddressRead(ip, port)
  <2>1. PICK a, b, c, d : /\ ip = Dotted(a, b, c, d)
                          /\ IsByteText(a) /\ IsByteText(b) /\ IsByteText(c) /\ IsByteText(d)
    BY <1>1, <1>3, MappedText
  <2>2. /\ IsList(ip) /\ Len(ip) >= 1 /\ ip[1] \in HexChars /\ IsIpv4(ip) /\ IsValidIp(ip)
        /\ \A x : x \notin HexChars \cup {"."} => Without(ip, x)
    BY <2>1, DottedRead
  <2> QED
    BY <1>2, <2>2, Ipv4Read
<1>4. ASSUME ~IsMapped(bytes) PROVE AddressRead(ip, port)
  <2>1. Pattern(ip, 8)
    BY <1>1, <1>4, Printed
  <2>2. /\ IsList(ip) /\ ip # <<>> /\ ~IsIpv4(ip) /\ IsValidIp(ip)
        /\ \A x : x \notin HexChars \cup {":"} => Without(ip, x)
    BY <1>1, <2>1, PatternRead
  <2> QED
    BY <1>2, <2>2, Ipv6Read
<1>5. AddressRead(ip, port)
  BY <1>3, <1>4
<1> QED
  BY <1>5, Zenon DEF ip, port

\* A text is found without blanks.
LEMMA NoBlank ==
  ASSUME NEW t, ~Contains(t, " ")
  PROVE  Without(t, Space)
  BY Zenon DEF Contains, Without, Space

\* An address has no extension.
LEMMA AddressEnds ==
  ASSUME NEW a, IsList(a), Len(a) >= 2, a[Len(a)] \in HexChars
  PROVE  /\ ~HasExtension(a, HtmlExt) /\ ~HasExtension(a, JsonExt) /\ Len(a) # 1 /\ a # <<>>
<1> DEFINE last == a[Len(a)]
<1>1. last # "html" /\ last # "json"
  <2>1. \A c \in HexChars : c # "html" /\ c # "json"
    BY DEF HexChars
  <2> QED
    BY <2>1
<1> HIDE DEF last
<1>2. "html" # "." /\ "json" # "."
  OBVIOUS
<1>3. HasExtension(a, <<".", "html">>) => a[Len(a)] = "html"
  BY <1>2, ExtensionIs
<1>4. HasExtension(a, <<".", "json">>) => a[Len(a)] = "json"
  BY <1>2, ExtensionIs
<1>5. Len(a) # 1 /\ a # <<>>
  BY ListIs, EmptyList
<1> QED
  BY <1>1, <1>3, <1>4, <1>5 DEF last, HtmlExt, JsonExt

ServerPath(ip, port) == <<"/", "server", "/">> \o BuildAddr(ip, port)
=============================================================================
