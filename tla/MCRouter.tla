------------------------------ MODULE MCRouter ------------------------------
(* Instances of Router for TLC: registers of two bytes, paths around every limit, short routes. *)
EXTENDS Router

CONSTANTS login, status, stop, summon

L(bytes) == [i \in DOMAIN bytes |-> Lit(bytes[i])]

(* '/', 'a', '.', '-', the escape of each and of NUL, 0x1E, 0x1F, 0x20, 0x7F, 0x80; '%' *)
Units == {Lit(b) : b \in {Slash, 97, Dot, Dash, Percent}}
         \cup {Esc(b) : b \in {Slash, 97, Dot, 0, 30, 31, 32, 127, 128}}
(* A '%' is a unit of its own only where two characters do not follow it. *)
IsReading(p) == \A i \in DOMAIN p : p[i] = Lit(Percent) => RawSize(SubSeq(p, i + 1, Len(p))) < 2
ShortPaths == UNION {[1..n -> Units] : n \in 1..4}
LongPaths == {L(<<Slash>>) \o p : p \in [1..4 -> {Lit(97), Lit(Dot), Esc(0), Esc(31)}]}
AllPaths == {p \in ShortPaths : IsReading(p)} \cup LongPaths

(* /l, REPORT and POST below /a, and a route whose name holds "exec" (api.cpp:848) *)
TheAuthRoutes == << [method |-> "POST", path |-> L(<<Slash, 108>>), handler |-> login] >>
TheApiRoutes ==
  << [method |-> "REPORT", path |-> L(<<Slash, 97>>), handler |-> status],
     [method |-> "POST", path |-> L(<<Slash, 97, Slash, 115, Slash, 97>>), handler |-> stop],
     [method |-> "POST", path |-> L(<<Slash, 97, Slash, 101, 120, 101, 99>>), handler |-> summon] >>
TheLoginPath == L(<<Slash, 108>>)
ThePanelPath == L(<<Slash, 112>>)
TheLoginFile == L(<<Slash, 105, Dot, 97>>)
ThePanelFile == L(<<Slash, 112, Slash, 105, Dot, 97>>)
TheFiles == {TheLoginFile, ThePanelFile, L(<<Slash, 97, Dot, 97>>), L(<<Slash, 97, Dot, Dash>>)}
TheExtensions == {L(<<Dot, 97>>)}

EscapeAt(p, i) == [p EXCEPT ![i].esc = TRUE]
(* A path, with a slash or a segment more, without its last unit, and with each unit escaped. *)
Variants(p) == {p, Append(p, Lit(Slash)), p \o L(<<Slash, 97>>), SubSeq(p, 1, Len(p) - 1)}
               \cup {EscapeAt(p, i) : i \in DOMAIN p}
RouterPaths == UNION {Variants(p) : p \in {r.path : r \in Routes} \cup {ThePanelPath} \cup TheFiles}
                 \cup {L(<<Slash>>)}

(* Every path with the shortest request, every method with every variant of a route, *)
(* and every split of a request with one path. *)
AllRequests ==
  [method : {"GET"}, path : AllPaths, cookie : {FALSE}, head : {1}, body : {0}, claim : {0}]
    \cup [method : {"GET", "POST", "REPORT", "PUT"}, path : RouterPaths, cookie : BOOLEAN,
          head : {2}, body : {0}, claim : {0}]
    \cup [method : {"POST"}, path : {TheLoginPath}, cookie : BOOLEAN, head : {1, 2},
          body : 0..4, claim : 0..3]
=============================================================================
