------------------------------- MODULE Addresses -------------------------------
(***************************************************************************)
(* Addresses of game servers: the bytes of a master's list are printed     *)
(* (update/unpacker.c), stored, printed again as one text in the links of  *)
(* the pages, and parsed back when a page is asked (core/server.c).  A     *)
(* text is a sequence of characters, and a character a string.             *)
(***************************************************************************)
EXTENDS Selection

Digits == <<"0", "1", "2", "3", "4", "5", "6", "7", "8", "9", "a", "b", "c", "d", "e", "f">>

DecimalDigits == {Digits[i] : i \in 1..10}

Value(digit) == (CHOOSE i \in 1..16 : Digits[i] = digit) - 1

Tens == <<1, 10, 100, 1000, 10000>>

\* "%u", for numbers below 100000.
Decimal(n) ==
    LET width == Max({k \in 1..5 : k = 1 \/ Tens[k] <= n})
    IN  [i \in 1..width |-> Digits[((n \div Tens[width - i + 1]) % 10) + 1]]

\* strtol() and "%hu", on digits alone: no text here has the blanks or sign they skip.
IsNumber(text) == text # <<>> /\ \A i \in DOMAIN text : text[i] \in DecimalDigits

Number(text) == FoldLeft(LAMBDA n, c : 10 * n + Value(c), 0, text)

\* "%2x": padded with a blank, not with a zero.
Hexadecimal(byte) ==
    <<IF byte < 16 THEN " " ELSE Digits[(byte \div 16) + 1], Digits[(byte % 16) + 1]>>

Split(text, separator) ==
    FoldLeft(LAMBDA parts, c : IF c = separator THEN Append(parts, <<>>)
                               ELSE [parts EXCEPT ![Len(parts)] = Append(@, c)],
             << <<>> >>, text)

-----------------------------------------------------------------------------

\* Mapped addresses are IPv4: ::ffff:0:0/96.
IsMapped(ip) == SubSeq(ip, 1, 12) = [i \in 1..12 |-> IF i <= 10 THEN 0 ELSE 255]

\* raw_addr_to_strings(), for 16 bytes.
IpText(ip) ==
    IF IsMapped(ip)
    THEN Decimal(ip[13]) \o <<".">> \o Decimal(ip[14]) \o <<".">>
             \o Decimal(ip[15]) \o <<".">> \o Decimal(ip[16])
    ELSE LET Group(i) == Hexadecimal(ip[2 * i - 1]) \o Hexadecimal(ip[2 * i])
         IN  FlattenSeq([i \in 1..8 |-> IF i = 1 THEN Group(i) ELSE <<":">> \o Group(i)])

PortText(port) == Decimal(port)

-----------------------------------------------------------------------------

IsIpv4(ip) == \E i \in 2..4 : i <= Len(ip) /\ ip[i] = "."

\* An IPv6 text is compared with a pattern and may end before it does.
IsValidIp(ip) ==
    IF IsIpv4(ip)
    THEN LET parts == Split(ip, ".")
         IN  /\ Len(parts) = 4
             /\ \A i \in 1..4 : IsNumber(parts[i]) /\ Len(parts[i]) <= 3 /\ Number(parts[i]) < 256
    ELSE /\ Len(ip) <= 39
         /\ \A i \in DOMAIN ip : IF i % 5 = 0 THEN ip[i] = ":" ELSE ip[i] \in ToSet(Digits)

\* The last of the ports, of 16 bits.
MaxPort == 65535

\* is_valid_port() takes it for one that is too large.
IsValidPort(port) == IsNumber(port) /\ Number(port) < MaxPort

BuildAddr(ip, port) ==
    IF IsIpv4(ip) THEN ip \o <<":">> \o port ELSE <<"[">> \o ip \o <<"]", ":">> \o port

\* parse_addr(): strtok() cuts at the first separator and gives what is left as the port.
ParseAddr(addr) ==
    LET bracket == addr # <<>> /\ Head(addr) = "["
        parts   == Split(IF bracket THEN Tail(addr) ELSE addr, IF bracket THEN "]" ELSE ":")
        ip      == Head(parts)
        rest    == SubSeq(addr, Len(ip) + (IF bracket THEN 3 ELSE 2), Len(addr))
        port    == IF rest # <<>> /\ Head(rest) = ":" THEN Tail(rest) ELSE rest
    IN  [valid |-> /\ ip # <<>> /\ rest # <<>>
                   /\ IsValidIp(ip) /\ IsValidPort(port),
         ip    |-> ip, port |-> port]
=============================================================================
