------------------------------ MODULE Protocol ------------------------------
(***************************************************************************)
(* What memcached writes: the packets, byte by byte, with the words of     *)
(* PacketParser, and the answers that it makes of them.  It is not part of *)
(* the repository: this is the protocol as Parser.cpp expects it.          *)
(***************************************************************************)
EXTENDS PacketParser

Decimal(n) == IF n < 10 THEN <<Digits[n + 1]>>
              ELSE <<Digits[(n \div 10) + 1], Digits[(n % 10) + 1]>>

\* The bytes of a packet.  A number may be padded.
Encoded(p) ==
    CASE p.type = "VALUE" ->
           Word.VALUE \o <<p.key, "SP">> \o Decimal(p.flags) \o <<"SP">>
           \o Decimal(Len(p.data))
           \o (IF p.cas = 0 THEN <<>> ELSE <<"SP">> \o Decimal(p.cas))
           \o <<"CR", "LF">> \o p.data \o <<"CR", "LF">>
      [] p.type \in {"VERSION", "STAT"} -> Word[p.type] \o p.line \o <<"LF">>
      [] p.type = "NUMBER" -> Decimal(p.value) \o p.pad \o <<"CR", "LF">>
      [] p.type \in {"ERROR", "SERVER_ERROR", "CLIENT_ERROR"} ->
           Word[p.type] \o <<"CR", "LF">>
      [] p.type = "JUNK" -> <<"?">>
      [] OTHER -> Word[p.type]

\* The packets that memcached writes; a number is one that Decimal writes.
Sayable == 0 .. 99
WellFormed(p) ==
    /\ p.type \in DOMAIN Word \cup {"NUMBER", "JUNK"}
    /\ p.type = "VALUE" =>
         /\ p.key \in STRING \ {"SP"} /\ p.flags \in Sayable /\ p.cas \in Sayable
         /\ p.data \in Seq(STRING) /\ Len(p.data) \in Sayable
    /\ p.type \in DOMAIN LineState => p.line \in Seq(STRING \ {"LF"})
    /\ p.type = "NUMBER" => p.value \in Sayable /\ p.pad \in Seq({"SP"})

Refusals == {"ERROR", "SERVER_ERROR", "CLIENT_ERROR", "JUNK"}
LastLines == {"END", "OK", "VERSION"}
Replies == (MessageTypes \ {"OK"}) \cup {"NUMBER"}

\* An answer ends with its last line, or has a packet for each key; a refusal
\* may break it off.
Answered(c) ==
    LET n == Len(c.packets)
    IN  /\ n # 0 /\ \A i \in 1 .. n : WellFormed(c.packets[i])
        /\ c.keys \in Seq(STRING)
        /\ \/ /\ c.mode = "END_STATE"
              /\ \A i \in 1 .. n - 1 : c.packets[i].type \in {"VALUE", "STAT"}
              /\ c.packets[n].type \in LastLines \cup Refusals
           \/ /\ c.mode = "COUNTING"
              /\ Len(c.iovs) = Len(c.keys) /\ n <= Len(c.keys)
              /\ \A i \in 1 .. n - 1 : c.packets[i].type \in Replies
              /\ c.packets[n].type \in Replies \cup Refusals
              /\ n < Len(c.keys) => c.packets[n].type \in Refusals

=============================================================================
