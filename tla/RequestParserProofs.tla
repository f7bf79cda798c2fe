------------------------ MODULE RequestParserProofs ------------------------
(***************************************************************************)
(* Proofs about RequestParser, for every size of register and buffer,      *)
(* every limit and every set of requests.                                  *)
(*                                                                         *)
(* The heart of them is that the checks of a path, which look at it in     *)
(* four ways (raw, decoded, byte by byte or in whole registers, and as a C *)
(* string), amount to one: IsPathSafe lets through exactly the plain paths *)
(* that are short and have no double slash.                                *)
(***************************************************************************)
EXTENDS RequestParser, FiniteSetTheorems, TLAPS

Units == [esc : BOOLEAN, byte : 0..255]
Path(raw) == raw \in Seq(Units) /\ raw # <<>>

-----------------------------------------------------------------------------
LEMMA DecodeType ==
  ASSUME NEW raw, Path(raw)
  PROVE  /\ Decode(raw) \in Seq(0..255) /\ Len(Decode(raw)) = Len(raw)
         /\ DOMAIN Decode(raw) = 1..Len(raw) /\ Len(raw) \in Nat \ {0}
         /\ \A i \in 1..Len(raw) : Decode(raw)[i] = raw[i].byte /\ raw[i].byte \in 0..255
<1>1. raw \in [1..Len(raw) -> Units] /\ Len(raw) \in Nat \ {0} /\ DOMAIN raw = 1..Len(raw)
  BY DEF Path
<1>2. Decode(raw) = [i \in 1..Len(raw) |-> raw[i].byte]
  BY <1>1 DEF Decode
<1>3. \A i \in 1..Len(raw) : raw[i].byte \in 0..255
  BY <1>1 DEF Units
<1>4. Decode(raw) \in Seq(0..255) /\ Len(Decode(raw)) = Len(raw)
  BY <1>1, <1>2, <1>3
<1> QED
  BY <1>1, <1>2, <1>3, <1>4

(* Where the registers end, and the loop over the last bytes begins.       *)
LEMMA TailLemma ==
  ASSUME NEW n \in Nat
  PROVE  n - (n % Lanes) \in 0..n
<1>1. Lanes \in Nat \ {0}
  BY ParserAssumption
<1>2. n % Lanes \in 0..(Lanes - 1) /\ n = Lanes * (n \div Lanes) + (n % Lanes) /\ n \div Lanes \in Nat
  BY <1>1
<1>3. Lanes * (n \div Lanes) \in Nat
  BY <1>1, <1>2
<1> QED
  BY <1>1, <1>2, <1>3

(* A NUL is found wherever it lies.                                        *)
LEMMA NoNulLemma ==
  ASSUME NEW p \in Seq(0..255), ~ContainsControlChars(p)
  PROVE  \A i \in DOMAIN p : p[i] # 0
<1> DEFINE tail == Len(p) - (Len(p) % Lanes)
<1>1. tail \in 0..Len(p) /\ Len(p) \in Nat /\ DOMAIN p = 1..Len(p)
  BY TailLemma
<1>2. /\ \A i \in 1..tail : ~(Signed(p[i]) < 0 \/ Signed(p[i]) < 31)
      /\ \A i \in (tail + 1)..Len(p) : ~(p[i] < 32)
  BY DEF ContainsControlChars
<1>3. SUFFICES ASSUME NEW i \in DOMAIN p, p[i] = 0 PROVE FALSE
  OBVIOUS
<1>4. i \in 1..tail \/ i \in (tail + 1)..Len(p)
  BY <1>1
<1> QED
  BY <1>2, <1>3, <1>4 DEF Signed

(* Without a NUL the C string is the path.                                 *)
LEMMA CStringLemma ==
  ASSUME NEW p, \A i \in DOMAIN p : p[i] # 0
  PROVE  CString(p) = p
  BY DEF CString

(* What passes is plain.                                                   *)
LEMMA SafeIsPlain ==
  ASSUME NEW raw, Path(raw), IsPathSafe(raw)
  PROVE  PlainPath(Decode(raw))
<1> DEFINE p == Decode(raw)
<1>1. p \in Seq(0..255)
  BY DecodeType
<1>2. ~ContainsControlChars(p)
  BY DEF IsPathSafe
<1>3. CString(p) = p
  BY <1>1, <1>2, NoNulLemma, CStringLemma
<1> QED
  BY <1>3 DEF IsPathSafe, PlainPath

(* What is plain passes, but for its length and a double slash.            *)
LEMMA PlainIsSafe ==
  ASSUME NEW raw, Path(raw), PlainPath(Decode(raw)), RawSize(raw) <= MaxPath,
         ~Pair(raw, Lit(Slash), Lit(Slash))
  PROVE  IsPathSafe(raw)
<1> DEFINE p == Decode(raw)
<1>1. /\ p \in Seq(0..255) /\ Len(p) = Len(raw) /\ DOMAIN p = 1..Len(raw) /\ Len(raw) \in Nat
      /\ \A i \in 1..Len(raw) : p[i] = raw[i].byte
  BY DecodeType
<1>2. \A i \in DOMAIN p : p[i] \in SafeBytes
  BY DEF PlainPath
<1>3. \A b \in SafeBytes : b \in 45..122 /\ b # Backslash
  BY DEF SafeBytes, Slash, Dash, Dot, Backslash
<1>4. CString(p) = p
  BY <1>2, <1>3, CStringLemma
<1>5. ~ContainsControlChars(p)
  <2> DEFINE tail == Len(p) - (Len(p) % Lanes)
  <2>1. tail \in 0..Len(p)
    BY <1>1, TailLemma
  <2>2. \A i \in 1..Len(raw) : p[i] \in 45..122
    BY <1>1, <1>2, <1>3
  <2>3. \A b \in 45..122 : ~(b < 32) /\ ~(Signed(b) < 0 \/ Signed(b) < 31)
    BY DEF Signed
  <2>4. (1..tail) \subseteq 1..Len(raw) /\ ((tail + 1)..Len(p)) \subseteq 1..Len(raw)
    BY <1>1, <2>1
  <2>5. \A i \in 1..tail : ~(Signed(p[i]) < 0 \/ Signed(p[i]) < 31)
    BY <2>2, <2>3, <2>4
  <2>6. \A i \in (tail + 1)..Len(p) : ~(p[i] < 32)
    BY <2>2, <2>3, <2>4
  <2> QED
    BY <2>5, <2>6 DEF ContainsControlChars
<1>6. ~HasConsecutiveSlashes(raw)
  <2>1. ASSUME Pair(raw, Lit(Backslash), Lit(Backslash)) PROVE FALSE
    <3>1. PICK i \in 1..(Len(raw) - 1) : raw[i] = Lit(Backslash)
      BY <2>1 DEF Pair
    <3>2. i \in DOMAIN p /\ p[i] = Backslash
      BY <1>1, <3>1 DEF Lit
    <3> QED
      BY <1>2, <1>3, <3>2
  <2> QED
    BY <2>1 DEF HasConsecutiveSlashes
<1>7. \A i \in DOMAIN p : p[i] \notin {Tilde, Backslash, Percent}
  BY <1>2, <1>3 DEF Tilde, Percent
<1>8. raw # <<>>
  BY DEF Path
<1> QED
  BY <1>2, <1>4, <1>5, <1>6, <1>7, <1>8 DEF IsPathSafe, PlainPath

LEMMA RawSizeType ==
  ASSUME NEW raw, Path(raw)
  PROVE  RawSize(raw) \in Nat
<1>1. Len(raw) \in Nat /\ DOMAIN raw = 1..Len(raw)
  BY DEF Path
<1>2. IsFiniteSet(DOMAIN raw)
  BY <1>1, FS_Interval
<1>3. IsFiniteSet(Escapes(raw))
  BY <1>2, FS_Subset DEF Escapes
<1>4. Cardinality(Escapes(raw)) \in Nat
  BY <1>3, FS_CardinalityType
<1> QED
  BY <1>1, <1>4 DEF RawSize

(* Exactly the plain paths pass, the short ones without a double slash.    *)
THEOREM SafePathsArePlain ==
  ASSUME NEW raw, Path(raw)
  PROVE  IsPathSafe(raw) <=> /\ PlainPath(Decode(raw))
                             /\ RawSize(raw) <= MaxPath
                             /\ ~Pair(raw, Lit(Slash), Lit(Slash))
<1>1. IsPathSafe(raw) => RawSize(raw) <= MaxPath /\ ~Pair(raw, Lit(Slash), Lit(Slash))
  BY DEF IsPathSafe, HasConsecutiveSlashes
<1> QED
  BY <1>1, SafeIsPlain, PlainIsSafe

-----------------------------------------------------------------------------
(* What the parser keeps true of a request: the path it goes on with was   *)
(* checked, nothing is kept before the body is read, and the body is read  *)
(* only when the whole head is there.                                      *)
ParserInv ==
  /\ TypeOK
  /\ at \in {"headers", "body", "served"} => IsPathSafe(request.path)
  /\ at \in {"recv", "path", "headers", "body"} => kept = 0
  /\ at = "body" => got >= request.head /\ request.claim > 0
  /\ BodyIsWhole

LEMMA RequestType ==
  ASSUME NEW r \in Requests
  PROVE  /\ Path(r.path) /\ r.cookie \in BOOLEAN
         /\ r.head \in Nat \ {0} /\ r.body \in Nat /\ r.claim \in Nat
  BY ParserAssumption DEF Path, Units

LEMMA ParserInvInit ==
  Init => ParserInv
<1> SUFFICES ASSUME Init PROVE ParserInv
  OBVIOUS
<1>1. request \in Requests /\ arrived = 0 /\ got = 0 /\ at = "recv" /\ kept = 0 /\ validated = FALSE
  BY DEF Init
<1>2. Size \in Nat
  BY <1>1, RequestType DEF Size
<1>3. BufSize \in Nat \ {0}
  BY ParserAssumption
<1>4. arrived \in 0..Size /\ got \in 0..arrived /\ got < BufSize
  BY <1>1, <1>2, <1>3
<1>5. TypeOK
  BY <1>1, <1>4 DEF TypeOK
<1> QED
  BY <1>1, <1>5 DEF ParserInv, BodyIsWhole

LEMMA ParserInvStep ==
  ParserInv /\ [Next]_vars => ParserInv'
<1> SUFFICES ASSUME ParserInv, [Next]_vars PROVE ParserInv'
  OBVIOUS
<1>1. /\ request \in Requests /\ request.cookie \in BOOLEAN
      /\ request.head \in Nat \ {0} /\ request.body \in Nat /\ request.claim \in Nat
      /\ BufSize \in Nat \ {0}
  BY RequestType, ParserAssumption DEF ParserInv, TypeOK
<1>2. Size = request.head + request.body /\ Size \in Nat
  BY <1>1 DEF Size
<1>3. /\ arrived \in 0..Size /\ got \in 0..arrived /\ got < BufSize /\ kept \in Nat
      /\ at \in {"recv", "path", "headers", "body", "served", "thrown"}
      /\ validated \in {FALSE, request.cookie}
  BY DEF ParserInv, TypeOK
<1>4. CASE Arrive
  <2>1. PICK n \in (arrived + 1)..Size : arrived' = n
    BY <1>4 DEF Arrive
  <2>2. UNCHANGED <<request, got, at, kept, validated>> /\ Size' = Size
    BY <1>4 DEF Arrive, Size
  <2>3. arrived' \in 0..Size /\ got \in 0..arrived'
    BY <1>2, <1>3, <2>1
  <2>4. TypeOK'
    BY <1>1, <1>3, <2>2, <2>3 DEF TypeOK
  <2>5. BodyIsWhole'
    BY <2>2 DEF ParserInv, BodyIsWhole
  <2> QED
    BY <2>2, <2>4, <2>5 DEF ParserInv
<1>5. CASE Receive
  <2>1. at = "recv" /\ at' \in {"path", "thrown"} /\ got' = Minimum(arrived, BufSize - 1)
        /\ UNCHANGED <<request, arrived, kept, validated>> /\ Size' = Size
    BY <1>5 DEF Receive, Size
  <2>2. got' \in 0..arrived /\ got' < BufSize
    BY <1>1, <1>2, <1>3, <2>1 DEF Minimum
  <2>3. kept = 0
    BY <2>1 DEF ParserInv
  <2>4. TypeOK'
    BY <1>1, <1>3, <2>1, <2>2 DEF TypeOK
  <2> QED
    BY <2>1, <2>3, <2>4 DEF ParserInv, BodyIsWhole
<1>6. CASE ReceiveFails
  <2>1. at = "recv" /\ at' = "thrown" /\ UNCHANGED <<request, arrived, got, kept, validated>> /\ Size' = Size
    BY <1>6 DEF ReceiveFails, Size
  <2>2. TypeOK'
    BY <1>1, <1>3, <2>1 DEF TypeOK
  <2> QED
    BY <2>1, <2>2 DEF ParserInv, BodyIsWhole
<1>7. CASE ParsePath
  <2>1. at = "path" /\ at' \in {"headers", "thrown"} /\ (at' = "headers" => IsPathSafe(request.path))
        /\ UNCHANGED <<request, arrived, got, kept, validated>> /\ Size' = Size
    BY <1>7 DEF ParsePath, Size
  <2>2. kept = 0
    BY <2>1 DEF ParserInv
  <2>3. TypeOK'
    BY <1>1, <1>3, <2>1 DEF TypeOK
  <2> QED
    BY <2>1, <2>2, <2>3 DEF ParserInv, BodyIsWhole
<1>8. CASE ParseHeaders
  <2>1. /\ at = "headers" /\ at' \in {"thrown", "body", "served"}
        /\ at' = "body" => got >= request.head /\ request.claim > 0
        /\ at' = "served" => got < request.head \/ ~(request.claim > 0)
        /\ validated' \in {FALSE, request.cookie}
        /\ UNCHANGED <<request, arrived, got, kept>> /\ Size' = Size
    BY <1>3, <1>8 DEF ParseHeaders, Size
  <2>2. kept = 0 /\ IsPathSafe(request.path)
    BY <2>1 DEF ParserInv
  <2>3. TypeOK'
    BY <1>1, <1>3, <2>1 DEF TypeOK
  <2>4. BodyIsWhole'
    <3>1. at' = "served" /\ got' = Size' /\ request'.claim = request'.body => request.body = 0
      BY <1>1, <1>2, <2>1
    <3> QED
      BY <2>1, <2>2, <3>1 DEF BodyIsWhole
  <2> QED
    BY <2>1, <2>2, <2>3, <2>4 DEF ParserInv
<1>9. CASE ParseBody
  <2>1. /\ at = "body" /\ at' \in {"served", "thrown"}
        /\ UNCHANGED <<request, arrived, got, validated>> /\ Size' = Size
    BY <1>9 DEF ParseBody, Size
  <2>2. /\ kept = 0 /\ IsPathSafe(request.path)
        /\ got >= request.head /\ request.claim > 0
    BY <2>1 DEF ParserInv
  <2>3. /\ at' = "served" /\ got - request.head >= request.claim => kept' = request.claim
        /\ got - request.head < request.claim => kept' = 0
        /\ kept' \in {0, request.claim}
    BY <1>1, <1>3, <1>9, <2>2 DEF ParseBody
  <2>4. TypeOK'
    <3>1. kept' \in Nat
      BY <1>1, <2>3
    <3>2. arrived' \in 0..Size' /\ got' \in 0..arrived' /\ got' < BufSize
      BY <1>3, <2>1
    <3> QED
      BY <1>1, <1>3, <2>1, <3>1, <3>2 DEF TypeOK
  <2>5. kept' # 0 => kept' = request.claim /\ request.claim <= request.body
    BY <1>1, <1>2, <1>3, <2>3
  <2>6. at' = "served" /\ got = Size /\ request.claim = request.body => kept' = request.body
    BY <1>1, <1>2, <2>3
  <2>7. BodyIsWhole'
    BY <2>1, <2>5, <2>6 DEF BodyIsWhole
  <2> QED
    BY <2>1, <2>2, <2>4, <2>7 DEF ParserInv
<1>10. CASE UNCHANGED vars
  BY <1>10 DEF vars, ParserInv, TypeOK, BodyIsWhole, Size
<1> QED
  BY <1>4, <1>5, <1>6, <1>7, <1>8, <1>9, <1>10 DEF Next

(* The parser keeps its invariant whatever is sent and however it arrives. *)
THEOREM ParserInvariant == Spec => []ParserInv
<1> QED
  BY ParserInvInit, ParserInvStep, PTL DEF Spec

(* No plain path is refused: a step that throws had a path that is none.   *)
THEOREM ParserPlainPathsPass == Spec => PlainPathsPass
<1>1. ASSUME ParserInv, [Next]_vars, at = "path", at' = "thrown", got >= request.head
      PROVE  \/ ~PlainPath(Decode(request.path))
             \/ RawSize(request.path) > MaxPath
             \/ Pair(request.path, Lit(Slash), Lit(Slash))
  <2>1. Path(request.path) /\ request.head \in Nat /\ got \in Nat
    <3>1. request \in Requests /\ arrived \in 0..Size /\ got \in 0..arrived
      BY <1>1 DEF ParserInv, TypeOK
    <3> QED
      BY <3>1, RequestType
  <2>2. ParsePath
    BY <1>1 DEF Next, Arrive, Receive, ReceiveFails, ParseHeaders, ParseBody, vars
  <2>3. ~IsPathSafe(request.path)
    BY <1>1, <2>1, <2>2 DEF ParsePath
  <2>4. RawSize(request.path) \in Nat /\ MaxPath \in Nat
    BY <2>1, RawSizeType, ParserAssumption
  <2> QED
    BY <2>1, <2>3, <2>4, SafePathsArePlain
<1> QED
  BY <1>1, ParserInvariant, PTL DEF Spec, PlainPathsPass
=============================================================================
