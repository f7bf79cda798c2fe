---------------------------- MODULE RequestParser ----------------------------
(***************************************************************************)
(* parse_client_request and is_path_safe of request.cpp: one recv(), the   *)
(* checks of the path, the session's cookie and the body by Content-Length. *)
(*                                                                         *)
(* A path is a sequence of units, a byte or a %hh escape, which stands for *)
(* the byte strtol makes of its two characters.  The rest of a request is  *)
(* counted in pieces that arrive in any grouping.                          *)
(***************************************************************************)
EXTENDS Integers, Sequences, FiniteSets

CONSTANTS Lanes,      (* bytes per SSE2 register (16)                       *)
          MaxPath,    (* longest raw path (40)                              *)
          BufSize,    (* max_req_buf_size, in pieces                        *)
          Requests    (* what clients send: a method, a raw path, whether a *)
                      (* cookie names a valid session, the pieces of head   *)
                      (* and body, and the Content-Length (0: none)         *)

ASSUME ParserAssumption ==
  /\ Lanes \in Nat \ {0} /\ MaxPath \in Nat /\ BufSize \in Nat \ {0}
  /\ \A r \in Requests : /\ r.path \in Seq([esc : BOOLEAN, byte : 0..255]) \ {<<>>}
                         /\ r.cookie \in BOOLEAN
                         /\ r.head \in Nat \ {0} /\ r.body \in Nat /\ r.claim \in Nat

Slash == 47
Dot == 46
Dash == 45
Tilde == 126
Backslash == 92
Percent == 37

Lit(b) == [esc |-> FALSE, byte |-> b]
Esc(b) == [esc |-> TRUE, byte |-> b]

(* [a-zA-Z0-9/_\-.] *)
SafeBytes == (48..57) \cup (65..90) \cup (97..122) \cup {Slash, 95, Dash, Dot}

(* "--", "xp_", "exec", "union", "select": the sql_injection_signatures    *)
(* made of safe bytes.                                                     *)
Signatures == {<<Dash, Dash>>, <<120, 112, 95>>, <<101, 120, 101, 99>>,
               <<117, 110, 105, 111, 110>>, <<115, 101, 108, 101, 99, 116>>}

-----------------------------------------------------------------------------
(* is_path_safe.                                                           *)

Escapes(raw) == {i \in DOMAIN raw : raw[i].esc}
RawSize(raw) == Len(raw) + 2 * Cardinality(Escapes(raw))

Decode(raw) == [i \in DOMAIN raw |-> raw[i].byte]

(* What strstr, strchr and the regular expression see of path: a C string. *)
CString(p) ==
  LET ends == {i \in DOMAIN p : p[i] = 0}
  IN  IF ends = {} THEN p ELSE SubSeq(p, 1, (CHOOSE i \in ends : \A j \in ends : i <= j) - 1)

Pair(p, a, b) == \E i \in 1..(Len(p) - 1) : p[i] = a /\ p[i + 1] = b

Holds(p, word) ==
  \E i \in 0..(Len(p) - Len(word)) : SubSeq(p, i + 1, i + Len(word)) = word

(* Mutant: the slashes are looked for in the decoded path. *)
HasConsecutiveSlashesDecoded(raw) ==
  LET p == [i \in DOMAIN raw |-> raw[i].byte]
  IN  Pair(p, Slash, Slash) \/ Pair(p, Backslash, Backslash)

(* has_consecutive_slashes, of the path as it came.                        *)
HasConsecutiveSlashes(raw) ==
  Pair(raw, Lit(Slash), Lit(Slash)) \/ Pair(raw, Lit(Backslash), Lit(Backslash))

Signed(b) == IF b >= 128 THEN b - 256 ELSE b

(* Mutant: the loop over whole registers stops one early. *)
ContainsControlCharsShort(p) ==
  LET n == Len(p)
      whole == IF n = 0 THEN 0 ELSE (n - 1) - ((n - 1) % Lanes)
      tail == n - (n % Lanes)
  IN  \/ \E i \in 1..whole : Signed(p[i]) < 0 \/ Signed(p[i]) < 31
      \/ \E i \in (tail + 1)..n : p[i] < 32

(* contains_control_chars_simd: whole registers compare signed bytes with  *)
(* 0 and with 0x1F, the rest compares unsigned bytes with 0x20.            *)
ContainsControlChars(p) ==
  LET tail == Len(p) - (Len(p) % Lanes)
  IN  \/ \E i \in 1..tail : Signed(p[i]) < 0 \/ Signed(p[i]) < 31
      \/ \E i \in (tail + 1)..Len(p) : p[i] < 32

(* is_path_safe returns; every other outcome is an exception.  (The prefix *)
(* "/" makes the list of allowed prefixes match every path that gets there.) *)
IsPathSafe(raw) ==
  LET path == Decode(raw)
      str == CString(path)
  IN  /\ raw # <<>> /\ RawSize(raw) <= MaxPath
      /\ path[1] = Slash
      /\ ~ContainsControlChars(path)
      /\ ~Pair(str, Dot, Dot)
      /\ \A i \in DOMAIN str : str[i] \notin {Tilde, Backslash, Percent}
      /\ ~HasConsecutiveSlashes(raw)
      /\ str[1] = Slash /\ \A i \in DOMAIN str : str[i] \in SafeBytes
      /\ \A word \in Signatures : ~Holds(str, word)

-----------------------------------------------------------------------------
VARIABLES
  request,   (* the request of the client                                   *)
  arrived,   (* pieces of it in the socket                                  *)
  got,       (* pieces recv returned                                        *)
  at,        (* "recv", "path", "headers", "body", "served", "thrown"       *)
  kept,      (* pieces of the body the handler is given                     *)
  validated  (* validate_token accepted the cookie                          *)

vars == <<request, arrived, got, at, kept, validated>>

Size == request.head + request.body

TypeOK ==
  /\ request \in Requests
  /\ arrived \in 0..Size
  /\ at \in {"recv", "path", "headers", "body", "served", "thrown"}
  /\ kept \in Nat /\ validated \in {FALSE, request.cookie}
  /\ got \in 0..arrived /\ got < BufSize     (* room for the final '\0' *)

Init ==
  /\ request \in Requests
  /\ arrived = 0 /\ got = 0 /\ at = "recv" /\ kept = 0
  /\ validated = FALSE

(* Segments of the request reach the socket.                               *)
Arrive ==
  /\ \E n \in (arrived + 1)..Size : arrived' = n
  /\ UNCHANGED <<request, got, at, kept, validated>>

Minimum(a, b) == IF a <= b THEN a ELSE b

(* Mutant: recv may fill the whole buffer. *)
ReceiveFull ==
  /\ at = "recv" /\ arrived > 0
  /\ got' = Minimum(arrived, BufSize)
  /\ at' = "path"
  /\ UNCHANGED <<request, arrived, kept, validated>>

(* recv() of what is there; a buffer that is full is refused.              *)
Receive ==
  /\ at = "recv" /\ arrived > 0
  /\ got' = Minimum(arrived, BufSize - 1)
  /\ at' = IF got' = BufSize - 1 THEN "thrown" ELSE "path"
  /\ UNCHANGED <<request, arrived, kept, validated>>

(* recv() times out, or the client hangs up.                               *)
ReceiveFails ==
  /\ at = "recv" /\ at' = "thrown"
  /\ UNCHANGED <<request, arrived, got, kept, validated>>

(* The first line: if it was cut it may not parse.                         *)
ParsePath ==
  /\ at = "path"
  /\ \/ at' = IF IsPathSafe(request.path) THEN "headers" ELSE "thrown"
     \/ got < request.head /\ at' = "thrown"
  /\ UNCHANGED <<request, arrived, got, kept, validated>>

(* A refused user agent, a Content-Length that is no number and a database *)
(* that fails throw; so does, with a Content-Length, a missing empty line  *)
(* (tellg() is -1).  A head that was cut may have lost its cookie.         *)
ParseHeaders ==
  /\ at = "headers"
  /\ \/ at' = "thrown" /\ UNCHANGED validated
     \/ /\ got >= request.head
        /\ at' = IF request.claim > 0 THEN "body" ELSE "served"
        /\ validated' = request.cookie
     \/ /\ got < request.head           (* no Content-Length came through *)
        /\ at' = "served"
        /\ validated' \in {FALSE, request.cookie}
  /\ UNCHANGED <<request, arrived, got, kept>>

(* Mutant: a body shorter than Content-Length is taken as it is. *)
ParseBodyShort ==
  /\ at = "body"
  /\ at' = "served" /\ kept' = Minimum(got - request.head, request.claim)
  /\ UNCHANGED <<request, arrived, got, validated>>

(* A body that is all there is taken (or does not parse as JSON); one that *)
(* is not is left out, and the request goes on without it.                 *)
ParseBody ==
  /\ at = "body"
  /\ IF got - request.head >= request.claim
     THEN \/ at' = "served" /\ kept' = request.claim
          \/ at' = "thrown" /\ UNCHANGED kept
     ELSE at' = "served" /\ UNCHANGED kept
  /\ UNCHANGED <<request, arrived, got, validated>>

Next == Arrive \/ Receive \/ ReceiveFails \/ ParsePath \/ ParseHeaders \/ ParseBody

Spec == Init /\ [][Next]_vars

-----------------------------------------------------------------------------
PlainPath(p) ==
  /\ p[1] = Slash
  /\ \A i \in DOMAIN p : p[i] \in SafeBytes
  /\ ~Pair(p, Dot, Dot)
  /\ \A word \in Signatures : ~Holds(p, word)

(* A path is let through only if all of it, decoded, is a plain path: the  *)
(* limits of the vectorised scan, which misses 0x1F and takes bytes above  *)
(* 0x7F for control characters, do not matter, since the checks after it   *)
(* catch the ones and refuse the others; a NUL, which hides the rest of    *)
(* the path from those checks, is never missed.                            *)
PathsAreChecked ==
  at \in {"headers", "body", "served"} => PlainPath(Decode(request.path))

(* And it is let through if it is one: the checks refuse no plain path.    *)
PlainPathsPass ==
  [][at = "path" /\ at' = "thrown" /\ got >= request.head =>
       \/ ~PlainPath(Decode(request.path))
       \/ RawSize(request.path) > MaxPath
       \/ Pair(request.path, Lit(Slash), Lit(Slash))]_vars

(* A handler that is given a body is given all of it, and nothing but it,  *)
(* however the segments of the request arrived; and a request that was     *)
(* there as a whole, shorter than the buffer, is served with its body.     *)
BodyIsWhole ==
  at = "served" =>
    /\ kept # 0 => kept = request.claim /\ request.claim <= request.body
    /\ got = Size /\ request.claim = request.body => kept = request.body
=============================================================================
