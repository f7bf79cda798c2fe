---------------------------- MODULE RouterProofs ----------------------------
(***************************************************************************)
(* Proofs about Router: what the parser keeps true it keeps true under the *)
(* router too, and what that leaves a client without a session to reach.   *)
(***************************************************************************)
EXTENDS Router, RequestParserProofs, WellFoundedInduction

-----------------------------------------------------------------------------
(* What the router does leaves the parser to itself.                       *)
LEMMA RouterParses == RouterSpec => Spec
<1>1. RouterInit => Init
  BY DEF RouterInit
<1>2. [RouterNext]_routerVars => [Next]_vars
  BY DEF RouterNext, Register, Serve, HandleClient, routerVars
<1> QED
  BY <1>1, <1>2, PTL DEF RouterSpec, Spec

(* Every path the router is given is plain once decoded, for every width of *)
(* the registers and however the request arrived (is_path_safe).           *)
THEOREM RouterPathsAreChecked == RouterSpec => []PathsAreChecked
<1>1. ParserInv => PathsAreChecked
  <2> SUFFICES ASSUME ParserInv, at \in {"headers", "body", "served"}
               PROVE  PlainPath(Decode(request.path))
    BY DEF PathsAreChecked
  <2>1. request \in Requests /\ IsPathSafe(request.path)
    BY DEF ParserInv, TypeOK
  <2> QED
    BY <2>1, RequestType, SafePathsArePlain
<1> QED
  BY <1>1, RouterParses, ParserInvariant, PTL

(* A handler gets the whole body or none, however the request arrived and  *)
(* whatever it claims (parse_client_request).                              *)
THEOREM RouterBodyIsWhole == RouterSpec => []BodyIsWhole
<1>1. ParserInv => BodyIsWhole
  BY DEF ParserInv
<1> QED
  BY <1>1, RouterParses, ParserInvariant, PTL

(* No short plain path without a double slash is refused (is_path_safe).   *)
THEOREM RouterPlainPathsPass == RouterSpec => PlainPathsPass
<1> QED
  BY RouterParses, ParserPlainPathsPass, PTL

-----------------------------------------------------------------------------
(* The segments of a path.                                                 *)

(* A set of naturals that is not empty has a least element.                *)
LEMMA NatOrder ==
  \E R : IsWellFoundedOn(R, Nat) /\ \A a, b \in Nat : a < b => <<a, b>> \in R
<1> DEFINE R == OpToRel(<, Nat)
<1>1. IsWellFoundedOn(R, Nat)
  BY NatLessThanWellFounded, Zenon
<1>2. \A a, b \in Nat : a < b => <<a, b>> \in R
  BY Zenon DEF OpToRel
<1> HIDE DEF R
<1> QED
  BY <1>1, <1>2

LEMMA LeastOfNaturals ==
  ASSUME NEW S \in SUBSET Nat, S # {}
  PROVE  \E x \in S : \A y \in S : x <= y
<1>1. PICK R : IsWellFoundedOn(R, Nat) /\ \A a, b \in Nat : a < b => <<a, b>> \in R
  BY NatOrder
<1>2. IsWellFoundedOn(R, Nat) /\ S \subseteq Nat
  BY <1>1
<1>3. PICK x \in S : \A y \in S : ~(<<y, x>> \in R)
  BY <1>2, WFMin, Zenon
<1>4. \A y \in S : ~(y < x)
  BY <1>1, <1>3
<1> QED
  BY <1>4

LEMMA StartsType ==
  ASSUME NEW U, NEW path \in Seq(U)
  PROVE  /\ Starts(path) \subseteq 1..Len(path) /\ Len(path) \in Nat
         /\ IsFiniteSet(Starts(path)) /\ Cardinality(Starts(path)) \in Nat
<1>1. Starts(path) \subseteq 1..Len(path) /\ Len(path) \in Nat
  BY DEF Starts
<1>2. IsFiniteSet(1..Len(path))
  BY <1>1, FS_Interval
<1>3. IsFiniteSet(Starts(path))
  BY <1>1, <1>2, FS_Subset
<1>4. Cardinality(Starts(path)) \in Nat
  BY <1>3, FS_CardinalityType
<1> QED
  BY <1>1, <1>3, <1>4

(* The segments are numbered: no two have one rank, and every rank is that *)
(* of a segment.                                                           *)
LEMMA RankType ==
  ASSUME NEW U, NEW path \in Seq(U), NEW i \in Starts(path)
  PROVE  Rank(path, i) \in 1..Cardinality(Starts(path))
<1> DEFINE below == {j \in Starts(path) : j <= i}
<1>1. i \in Nat /\ IsFiniteSet(Starts(path)) /\ Cardinality(Starts(path)) \in Nat
  BY StartsType
<1>2. below \in SUBSET Starts(path) /\ i \in below
  BY <1>1
<1>3. IsFiniteSet(below) /\ Cardinality(below) <= Cardinality(Starts(path))
  BY <1>1, <1>2, FS_Subset
<1>4. Cardinality(below) \in Nat /\ Cardinality(below) # 0
  BY <1>2, <1>3, FS_CardinalityType, FS_EmptySet
<1> QED
  BY <1>1, <1>3, <1>4 DEF Rank

LEMMA RankInjective ==
  ASSUME NEW U, NEW path \in Seq(U), NEW i \in Starts(path), NEW j \in Starts(path), i < j
  PROVE  Rank(path, i) # Rank(path, j)
<1> DEFINE below == {k \in Starts(path) : k <= i}
           upto == {k \in Starts(path) : k <= j}
<1>1. i \in Nat /\ j \in Nat /\ Starts(path) \subseteq Nat /\ IsFiniteSet(Starts(path))
  BY StartsType
<1>2. below \in SUBSET upto /\ upto \in SUBSET Starts(path) /\ j \in upto /\ j \notin below
  BY <1>1
<1>3. IsFiniteSet(upto)
  BY <1>1, <1>2, FS_Subset
<1>4. Cardinality(upto) = Cardinality(below) => upto = below
  BY <1>2, <1>3, FS_Subset
<1> QED
  BY <1>2, <1>4 DEF Rank

LEMMA RankChoice ==
  ASSUME NEW U, NEW path \in Seq(U), NEW i \in Starts(path)
  PROVE  (CHOOSE j \in Starts(path) : Rank(path, j) = Rank(path, i)) = i
<1>1. \A j \in Starts(path) : Rank(path, j) = Rank(path, i) => j = i
  <2> SUFFICES ASSUME NEW j \in Starts(path), j # i PROVE Rank(path, j) # Rank(path, i)
    OBVIOUS
  <2>1. i \in Nat /\ j \in Nat
    BY StartsType
  <2>2. i < j \/ j < i
    BY <2>1
  <2> QED
    BY <2>2, RankInjective
<1> QED
  BY <1>1

LEMMA RankOnto ==
  ASSUME NEW U, NEW path \in Seq(U), NEW k \in 1..Cardinality(Starts(path))
  PROVE  \E i \in Starts(path) : Rank(path, i) = k
<1> DEFINE n == Cardinality(Starts(path))
           rank == [i \in Starts(path) |-> Rank(path, i)]
<1>1. Starts(path) \subseteq Nat /\ n \in Nat
  BY StartsType
<1>2. IsFiniteSet(1..n) /\ Cardinality(1..n) = n
  BY <1>1, FS_Interval
<1>3. rank \in [Starts(path) -> 1..n]
  BY RankType
<1>4. \A i, j \in Starts(path) : rank[i] = rank[j] => i = j
  BY <1>1, RankInjective
<1>5. rank \in Injection(Starts(path), 1..n)
  BY <1>3, <1>4 DEF Injection, IsInjective
<1> HIDE DEF n, rank
<1>6. rank \in Surjection(Starts(path), 1..n)
  BY <1>2, <1>5, FS_Injection DEF n
<1>7. k \in 1..n
  BY DEF n
<1>8. \E i \in Starts(path) : rank[i] = k
  BY <1>6, <1>7 DEF Surjection
<1> QED
  BY <1>8 DEF rank

(* What getline reads from a start: up to the first slash, or all.         *)
LEMMA EndExists ==
  ASSUME NEW U, NEW path \in Seq(U), NEW i \in 1..Len(path), path[i] # Lit(Slash)
  PROVE  \E e \in i..Len(path) : IsEnd(path, i, e)
<1> DEFINE stops == {e \in i..Len(path) : e < Len(path) => path[e + 1] = Lit(Slash)}
<1>1. Len(path) \in Nat /\ i \in Nat /\ i <= Len(path)
  OBVIOUS
<1>2. stops \in SUBSET Nat /\ Len(path) \in stops
  BY <1>1
<1>3. PICK e \in stops : \A f \in stops : e <= f
  BY <1>2, LeastOfNaturals
<1>4. e \in i..Len(path) /\ e \in Nat /\ (e < Len(path) => path[e + 1] = Lit(Slash))
  BY <1>1, <1>3
<1>5. ASSUME NEW j \in i..e PROVE path[j] # Lit(Slash)
  <2>1. CASE j = i
    BY <2>1
  <2>2. CASE j # i
    <3>1. j - 1 \in i..Len(path) /\ j - 1 < e /\ j - 1 < Len(path) /\ (j - 1) + 1 = j
      BY <1>1, <1>4, <1>5, <2>2
    <3>2. j - 1 \notin stops
      BY <1>1, <1>3, <1>4, <3>1
    <3> QED
      BY <3>1, <3>2
  <2> QED
    BY <2>1, <2>2
<1> QED
  BY <1>4, <1>5 DEF IsEnd

LEMMA SegmentOfStart ==
  ASSUME NEW U, NEW path \in Seq(U), NEW i \in 1..Len(path), path[i] # Lit(Slash)
  PROVE  \E e \in i..Len(path) :
           /\ IsEnd(path, i, e)
           /\ Len(Segment(path, i)) = e - i + 1
           /\ DOMAIN Segment(path, i) = 1..(e - i + 1)
           /\ \A l \in 1..(e - i + 1) : Segment(path, i)[l] = path[i + l - 1]
<1> DEFINE e == CHOOSE e \in i..Len(path) : IsEnd(path, i, e)
<1>1. e \in i..Len(path) /\ IsEnd(path, i, e)
  BY EndExists
<1>2. Segment(path, i) = SubSeq(path, i, e)
  BY DEF Segment
<1> HIDE DEF e
<1>3. /\ SubSeq(path, i, e) \in Seq(U)
      /\ Len(SubSeq(path, i, e)) = e - i + 1
      /\ DOMAIN SubSeq(path, i, e) = 1..(e - i + 1)
  BY <1>1
<1>4. \A l \in 1..(e - i + 1) : SubSeq(path, i, e)[l] = path[i + l - 1]
  BY <1>1
<1> QED
  BY <1>1, <1>2, <1>3, <1>4

(* Every unit of a path that is no slash is in a segment...                *)
LEMMA UnitIsInSegment ==
  ASSUME NEW U, NEW path \in Seq(U), NEW j \in 1..Len(path), path[j] # Lit(Slash)
  PROVE  \E k \in DOMAIN Segments(path) :
           \E l \in DOMAIN Segments(path)[k] : Segments(path)[k][l] = path[j]
<1> DEFINE back == {m \in 1..j : \A n \in m..j : path[n] # Lit(Slash)}
<1>1. j \in Nat /\ Len(path) \in Nat /\ back \in SUBSET Nat /\ j \in back
  OBVIOUS
<1>2. PICK s \in back : \A m \in back : s <= m
  BY <1>1, LeastOfNaturals
<1>3. s \in 1..j /\ s \in 1..Len(path) /\ \A n \in s..j : path[n] # Lit(Slash)
  BY <1>1, <1>2
<1>4. ASSUME s > 1 PROVE path[s - 1] = Lit(Slash)
  <2> SUFFICES ASSUME path[s - 1] # Lit(Slash) PROVE FALSE
    OBVIOUS
  <2>1. s - 1 \in 1..j
    BY <1>3, <1>4
  <2>2. ASSUME NEW n \in (s - 1)..j PROVE path[n] # Lit(Slash)
    <3>1. n = s - 1 \/ n \in s..j
      BY <1>3, <2>2
    <3> QED
      BY <1>3, <3>1
  <2>3. s - 1 \in back
    BY <2>1, <2>2
  <2> QED
    BY <1>2, <1>3, <2>3
<1>5. s \in Starts(path)
  BY <1>3, <1>4 DEF Starts
<1> DEFINE k == Rank(path, s)
<1>6. k \in 1..Cardinality(Starts(path))
  BY <1>5, RankType
<1>7. k \in DOMAIN Segments(path) /\ Segments(path)[k] = Segment(path, s)
  BY <1>5, <1>6, RankChoice DEF Segments
<1>8. PICK e \in s..Len(path) :
        /\ IsEnd(path, s, e)
        /\ DOMAIN Segment(path, s) = 1..(e - s + 1)
        /\ \A l \in 1..(e - s + 1) : Segment(path, s)[l] = path[s + l - 1]
  BY <1>3, SegmentOfStart
<1> HIDE DEF back, k
<1>9. j <= e
  <2> SUFFICES ASSUME e < j PROVE FALSE
    BY <1>1, <1>3, <1>8
  <2>1. path[e + 1] = Lit(Slash)
    BY <1>1, <1>3, <1>8 DEF IsEnd
  <2>2. e + 1 \in s..j
    BY <1>1, <1>3, <1>8
  <2> QED
    BY <1>3, <2>1, <2>2
<1>10. j - s + 1 \in 1..(e - s + 1) /\ s + (j - s + 1) - 1 = j
  BY <1>1, <1>3, <1>8, <1>9
<1>11. Segment(path, s)[j - s + 1] = path[j]
  BY <1>8, <1>10
<1> QED
  BY <1>7, <1>8, <1>10, <1>11

(* ... and what is in a segment is a unit of the path.                     *)
LEMMA SegmentIsOfUnits ==
  ASSUME NEW U, NEW path \in Seq(U),
         NEW k \in DOMAIN Segments(path), NEW l \in DOMAIN Segments(path)[k]
  PROVE  \E j \in 1..Len(path) : Segments(path)[k][l] = path[j]
<1>1. k \in 1..Cardinality(Starts(path))
  BY DEF Segments
<1>2. PICK s \in Starts(path) : Rank(path, s) = k
  BY <1>1, RankOnto
<1>3. Segments(path)[k] = Segment(path, s)
  <2>1. (CHOOSE i \in Starts(path) : Rank(path, i) = Rank(path, s)) = s
    BY <1>2, RankChoice
  <2> QED
    BY <1>1, <1>2, <2>1 DEF Segments
<1>4. s \in 1..Len(path) /\ path[s] # Lit(Slash) /\ Len(path) \in Nat
  BY <1>2 DEF Starts
<1>5. PICK e \in s..Len(path) :
        /\ DOMAIN Segment(path, s) = 1..(e - s + 1)
        /\ \A m \in 1..(e - s + 1) : Segment(path, s)[m] = path[s + m - 1]
  BY <1>4, SegmentOfStart
<1>6. l \in 1..(e - s + 1) /\ s + l - 1 \in 1..Len(path)
  BY <1>3, <1>4, <1>5
<1> QED
  BY <1>3, <1>5, <1>6

(* A path that is looked up like a path without escapes has none.          *)
LEMMA LiteralLookup ==
  ASSUME NEW p \in Seq([esc : BOOLEAN, byte : 0..255]),
         NEW q \in Seq([esc : {FALSE}, byte : 0..255]),
         Segments(p) = Segments(q)
  PROVE  \A i \in DOMAIN p : p[i].esc = FALSE
<1> DEFINE P == [esc : BOOLEAN, byte : 0..255]
           Q == [esc : {FALSE}, byte : 0..255]
<1>3. p \in Seq(P) /\ q \in Seq(Q) /\ \A u \in Q : u.esc = FALSE
  BY Zenon
<1> HIDE DEF P, Q
<1>4. DOMAIN p = 1..Len(p) /\ \A j \in 1..Len(q) : q[j] \in Q
  BY <1>3
<1> SUFFICES ASSUME NEW i \in 1..Len(p) PROVE p[i].esc = FALSE
  BY <1>4
<1>1. CASE p[i] = Lit(Slash)
  BY <1>1 DEF Lit
<1>2. CASE p[i] # Lit(Slash)
  <2>1. PICK k \in DOMAIN Segments(p) : \E l \in DOMAIN Segments(p)[k] : Segments(p)[k][l] = p[i]
    BY <1>2, <1>3, UnitIsInSegment
  <2>2. PICK l \in DOMAIN Segments(p)[k] : Segments(p)[k][l] = p[i]
    BY <2>1
  <2>3. k \in DOMAIN Segments(q) /\ l \in DOMAIN Segments(q)[k]
    BY <2>1, <2>2
  <2>4. PICK j \in 1..Len(q) : Segments(q)[k][l] = q[j]
    BY <1>3, <2>3, SegmentIsOfUnits
  <2>5. p[i] = q[j]
    BY <2>2, <2>4
  <2> QED
    BY <1>3, <1>4, <2>4, <2>5
<1> QED
  BY <1>1, <1>2
-----------------------------------------------------------------------------
(* A route that is in no batch any more is in the tree, under the root of  *)
(* its method; and a node with a handler is that of a route.               *)
Waits(r) == \E i \in DOMAIN unregistered : unregistered[i] = r
Registered(r) ==
  /\ <<r.method, <<>> >> \in DOMAIN tree
  /\ Node(r.method, r.path) \in DOMAIN tree
  /\ tree[Node(r.method, r.path)] = r.handler

TreeInv ==
  /\ unregistered \in Seq(Routes)
  /\ tree \in [DOMAIN tree -> Handlers \cup {None}]
  /\ \A n \in DOMAIN tree : tree[n] # None =>
       \E r \in Routes : n = Node(r.method, r.path) /\ tree[n] = r.handler
  /\ \A r \in Routes : Waits(r) \/ Registered(r)

Answers == {Waiting} \cup {Error(c) : c \in {401, 403, 404, 405, 500}}
           \cup {Handler(h) : h \in Handlers} \cup {File(f) : f \in Files}
           \cup {Moved(f) : f \in Files}

(* What is answered stays what the properties say of it, since what the    *)
(* request was and what was made of it does not change any more.           *)
AnswerInv ==
  /\ answer \in Answers /\ (answer # Waiting => at = "served")
  /\ RoutesAsRegistered
  /\ AnonymousOnlyLogsIn
  /\ CheckedPathIsUsed

RouterInv == ParserInv /\ TreeInv /\ AnswerInv

(* The way to a node starts at the root of the method and ends at the node. *)
LEMMA WayEnds ==
  ASSUME NEW U, NEW path \in Seq(U), NEW method
  PROVE  /\ <<method, <<>> >> \in Way(Node(method, path))
         /\ Node(method, path) \in Way(Node(method, path))
<1> DEFINE n == Cardinality(Starts(path))
           s == Segments(path)
           V == {s[k] : k \in 1..n}
<1>1. n \in Nat
  BY StartsType
<1>2. s \in [1..n -> V]
  BY DEF Segments
<1> HIDE DEF n, s, V
<1>3. s \in Seq(V) /\ Len(s) = n
  BY <1>1, <1>2
<1>4. SubSeq(s, 1, 0) = <<>> /\ SubSeq(s, 1, n) = s
  BY <1>1, <1>3
<1>5. 0 \in 0..Len(s) /\ n \in 0..Len(s)
  BY <1>1, <1>3
<1>6. <<method, s>>[1] = method /\ <<method, s>>[2] = s
  OBVIOUS
<1>7. Node(method, path) = <<method, s>>
  BY DEF Node, s
<1> QED
  BY <1>4, <1>5, <1>6, <1>7 DEF Way

LEMMA RouteType ==
  /\ AuthRoutes \in Seq(Routes) /\ ApiRoutes \in Seq(Routes)
  /\ \A r \in Routes : r.path \in Seq([esc : {FALSE}, byte : 0..255]) /\ r.handler \in Handlers
  /\ \A r \in Routes : r \in {AuthRoutes[i] : i \in DOMAIN AuthRoutes}
                             \cup {ApiRoutes[i] : i \in DOMAIN ApiRoutes}
<1>1. \A r \in Routes : r.path \in Seq([esc : {FALSE}, byte : 0..255])
  BY RouterAssumption, Zenon
<1>2. \A r \in Routes : r.handler \in Handlers
  BY DEF Handlers
<1> QED
  BY <1>1, <1>2, RouterAssumption DEF Routes

LEMMA TreeInvInit ==
  RouterInit => TreeInv
<1> SUFFICES ASSUME RouterInit PROVE TreeInv
  OBVIOUS
<1>1. AuthRoutes \in Seq(Routes) /\ ApiRoutes \in Seq(Routes)
  BY RouteType
<1>2. tree = <<>> /\ unregistered \in {AuthRoutes \o ApiRoutes, ApiRoutes \o AuthRoutes}
  BY DEF RouterInit
<1>3. unregistered \in Seq(Routes)
  <2>1. AuthRoutes \o ApiRoutes \in Seq(Routes) /\ ApiRoutes \o AuthRoutes \in Seq(Routes)
    BY <1>1
  <2> QED
    BY <1>2, <2>1
<1>4. DOMAIN tree = {} /\ tree \in [DOMAIN tree -> Handlers \cup {None}]
  BY <1>2
<1>5. ASSUME NEW r \in Routes PROVE Waits(r)
  <2>1. CASE \E i \in DOMAIN AuthRoutes : AuthRoutes[i] = r
    <3>1. PICK i \in 1..Len(AuthRoutes) : AuthRoutes[i] = r
      BY <1>1, <2>1
    <3>2. /\ i \in DOMAIN (AuthRoutes \o ApiRoutes)
          /\ (AuthRoutes \o ApiRoutes)[i] = r
      BY <1>1, <3>1
    <3>3. /\ Len(ApiRoutes) + i \in DOMAIN (ApiRoutes \o AuthRoutes)
          /\ (ApiRoutes \o AuthRoutes)[Len(ApiRoutes) + i] = r
      BY <1>1, <3>1
    <3> QED
      BY <1>2, <3>2, <3>3 DEF Waits
  <2>2. CASE \E i \in DOMAIN ApiRoutes : ApiRoutes[i] = r
    <3>1. PICK i \in 1..Len(ApiRoutes) : ApiRoutes[i] = r
      BY <1>1, <2>2
    <3>2. /\ i \in DOMAIN (ApiRoutes \o AuthRoutes)
          /\ (ApiRoutes \o AuthRoutes)[i] = r
      BY <1>1, <3>1
    <3>3. /\ Len(AuthRoutes) + i \in DOMAIN (AuthRoutes \o ApiRoutes)
          /\ (AuthRoutes \o ApiRoutes)[Len(AuthRoutes) + i] = r
      BY <1>1, <3>1
    <3> QED
      BY <1>2, <3>2, <3>3 DEF Waits
  <2> QED
    BY <1>5, <2>1, <2>2, RouteType
<1> QED
  BY <1>3, <1>4, <1>5 DEF TreeInv

LEMMA TreeInvRegister ==
  TreeInv /\ Register => TreeInv'
<1> SUFFICES ASSUME TreeInv, Register PROVE TreeInv'
  OBVIOUS
<1> DEFINE h == Head(unregistered)
           node == Node(h.method, h.path)
<1>1. /\ unregistered \in Seq(Routes) /\ unregistered # <<>>
      /\ unregistered' = Tail(unregistered) /\ tree' = RegisterRoute(tree, h)
  BY DEF TreeInv, Register
<1>2. h \in Routes /\ unregistered' \in Seq(Routes)
  BY <1>1
<1>3. h.path \in Seq([esc : {FALSE}, byte : 0..255]) /\ h.handler \in Handlers
  BY <1>2, RouteType
<1>4. <<h.method, <<>> >> \in Way(node) /\ node \in Way(node)
  BY <1>3, WayEnds
<1>5. /\ DOMAIN tree' = DOMAIN tree \cup Way(node)
      /\ \A n \in DOMAIN tree' :
           tree'[n] = IF n = node THEN h.handler ELSE IF n \in DOMAIN tree THEN tree[n] ELSE None
      /\ tree' = [n \in DOMAIN tree' |-> tree'[n]]
  BY <1>1 DEF RegisterRoute
<1>6. \A r \in Routes : Waits(r) /\ r # h => Waits(r)'
  <2> SUFFICES ASSUME NEW r \in Routes, Waits(r), r # h PROVE Waits(r)'
    OBVIOUS
  <2>1. PICK i \in 1..Len(unregistered) : unregistered[i] = r
    BY <1>1 DEF Waits
  <2>2. i # 1
    BY <1>1, <2>1
  <2>3. i - 1 \in DOMAIN Tail(unregistered) /\ Tail(unregistered)[i - 1] = r
    BY <1>1, <2>1, <2>2
  <2> QED
    BY <1>1, <2>3 DEF Waits
<1>7. \A r \in Routes : r # h => Node(r.method, r.path) # node
  BY <1>2, RouterAssumption
<1> HIDE DEF h, node
<1>8. tree' \in [DOMAIN tree' -> Handlers \cup {None}]
  <2>1. \A n \in DOMAIN tree' : tree'[n] \in Handlers \cup {None}
    BY <1>3, <1>5 DEF TreeInv
  <2> QED
    BY <1>5, <2>1
<1>9. ASSUME NEW n \in DOMAIN tree', tree'[n] # None
      PROVE  \E r \in Routes : n = Node(r.method, r.path) /\ tree'[n] = r.handler
  <2>1. CASE n = node
    BY <1>2, <1>5, <2>1 DEF node
  <2>2. CASE n # node
    BY <1>5, <1>9, <2>2 DEF TreeInv
  <2> QED
    BY <2>1, <2>2
<1>10. ASSUME NEW r \in Routes PROVE Waits(r)' \/ Registered(r)'
  <2>1. CASE r = h
    BY <1>4, <1>5, <2>1 DEF Registered, node
  <2>2. CASE r # h /\ Registered(r)
    BY <1>5, <1>7, <2>2 DEF Registered
  <2>3. CASE r # h /\ Waits(r)
    BY <1>6, <2>3
  <2> QED
    BY <2>1, <2>2, <2>3 DEF TreeInv
<1> QED
  BY <1>1, <1>2, <1>8, <1>9, <1>10 DEF TreeInv

(* The routes a request may have spelled, and a path without escapes.      *)
Asked ==
  {r \in Routes : r.method = request.method /\ Segments(r.path) = Segments(request.path)}
Literal(p) == \A i \in DOMAIN p : p[i] = Lit(Decode(p)[i])

LEMMA LiteralIfNoEscape ==
  ASSUME NEW p \in Seq(Units), \A i \in DOMAIN p : p[i].esc = FALSE
  PROVE  Literal(p)
<1> SUFFICES ASSUME NEW i \in DOMAIN p PROVE p[i] = Lit(Decode(p)[i])
  BY DEF Literal
<1>1. p[i] \in Units
  OBVIOUS
<1>2. p[i] = [esc |-> p[i].esc, byte |-> p[i].byte]
  BY <1>1, Zenon DEF Units
<1>3. Decode(p)[i] = p[i].byte
  BY DEF Decode
<1> QED
  BY <1>2, <1>3 DEF Lit

LEMMA LiteralNames ==
  ASSUME NEW p \in {r.path : r \in Routes} \cup {PanelPath} \cup Files
  PROVE  Literal(p)
<1>1. p \in Seq([esc : {FALSE}, byte : 0..255])
  BY RouterAssumption, Zenon
<1> DEFINE Q == [esc : {FALSE}, byte : 0..255]
<1>2. \A u \in Q : u \in Units /\ u.esc = FALSE
  BY DEF Units
<1>3. p \in Seq(Q)
  BY <1>1
<1> HIDE DEF Q
<1>4. p \in Seq(Units) /\ \A i \in DOMAIN p : p[i].esc = FALSE
  BY <1>2, <1>3
<1> QED
  BY <1>4, LiteralIfNoEscape

(* dispatch_route finds the route that was asked for if there is one, and  *)
(* nothing else.                                                           *)
LEMMA DispatchFinds ==
  ASSUME TreeInv, unregistered = <<>>, request \in Requests, Dispatch
  PROVE  /\ answer' \in {Error(404), Error(405), Error(500)} \cup {Handler(h) : h \in Handlers}
         /\ answer'.by = "handler" =>
              /\ \E r \in Asked : r.handler = answer'.handler
              /\ Literal(request.path)
         /\ Asked # {} => answer'.by = "handler" \/ answer' = Error(500)
<1> DEFINE node == Node(request.method, request.path)
<1>1. request.path \in Seq(Units)
  BY RequestType DEF Path
<1>2. CASE answer' = Error(405) /\ <<request.method, <<>> >> \notin DOMAIN tree
  <2>1. Asked = {}
    <3> SUFFICES ASSUME NEW r \in Asked PROVE FALSE
      OBVIOUS
    <3>1. r \in Routes /\ r.method = request.method
      BY DEF Asked
    <3>2. Registered(r)
      BY <3>1 DEF TreeInv, Waits
    <3> QED
      BY <1>2, <3>1, <3>2 DEF Registered
  <2>2. answer'.by = "error"
    BY <1>2 DEF Error
  <2> QED
    BY <1>2, <2>1, <2>2
<1>3. CASE answer' = Error(404) /\ (node \notin DOMAIN tree \/ tree[node] = None)
  <2>1. Asked = {}
    <3> SUFFICES ASSUME NEW r \in Asked PROVE FALSE
      OBVIOUS
    <3>1. r \in Routes /\ Node(r.method, r.path) = node
      BY DEF Asked, Node
    <3>2. Registered(r)
      BY <3>1 DEF TreeInv, Waits
    <3>3. r.handler # None
      BY <3>1, RouterAssumption DEF Handlers
    <3> QED
      BY <1>3, <3>1, <3>2, <3>3 DEF Registered
  <2>2. answer'.by = "error"
    BY <1>3 DEF Error
  <2> QED
    BY <1>3, <2>1, <2>2
<1>4. CASE /\ node \in DOMAIN tree /\ tree[node] # None
           /\ answer' \in {Handler(tree[node]), Error(500)}
  <2>1. PICK r \in Routes : node = Node(r.method, r.path) /\ tree[node] = r.handler
    BY <1>4 DEF TreeInv
  <2>2. r.method = request.method /\ Segments(r.path) = Segments(request.path)
    BY <2>1 DEF Node
  <2>3. Literal(request.path)
    <3>1. r.path \in Seq([esc : {FALSE}, byte : 0..255])
      BY RouteType
    <3>2. request.path \in Seq([esc : BOOLEAN, byte : 0..255])
      BY <1>1, Zenon DEF Units
    <3>3. \A i \in DOMAIN request.path : request.path[i].esc = FALSE
      BY <2>2, <3>1, <3>2, LiteralLookup
    <3> QED
      BY <1>1, <3>3, LiteralIfNoEscape
  <2>4. r \in Asked
    BY <2>2 DEF Asked
  <2>5. CASE answer' = Error(500)
    <3>1. answer'.by = "error"
      BY <2>5 DEF Error
    <3> QED
      BY <2>5, <3>1
  <2>6. CASE answer' = Handler(r.handler)
    <3>1. answer'.by = "handler" /\ answer'.handler = r.handler
      BY <2>6 DEF Handler
    <3>2. r.handler \in Handlers
      BY RouteType
    <3> QED
      BY <2>3, <2>4, <2>6, <3>1, <3>2
  <2> QED
    BY <1>4, <2>1, <2>5, <2>6
<1> HIDE DEF node
<1>5. \/ answer' = Error(405) /\ <<request.method, <<>> >> \notin DOMAIN tree
      \/ answer' = Error(404) /\ (node \notin DOMAIN tree \/ tree[node] = None)
      \/ /\ node \in DOMAIN tree /\ tree[node] # None
         /\ answer' \in {Handler(tree[node]), Error(500)}
  BY DEF Dispatch, node
<1> QED
  BY <1>2, <1>3, <1>4, <1>5

LEMMA AnswerInvInit ==
  RouterInit => AnswerInv
<1> SUFFICES ASSUME RouterInit PROVE AnswerInv
  OBVIOUS
<1>1. answer = Waiting /\ answer.by = "nobody"
  BY DEF RouterInit, Waiting
<1>2. answer # Error(404) /\ answer # Error(405)
  BY <1>1 DEF Error
<1> QED
  BY <1>1, <1>2 DEF AnswerInv, Answers, RoutesAsRegistered, AnonymousOnlyLogsIn,
                    CheckedPathIsUsed

LEMMA AnswerInvKept ==
  ASSUME AnswerInv, request' = request, answer' = answer,
         at = "served" => at' = "served" /\ validated' = validated
  PROVE  AnswerInv'
<1>1. (answer # Waiting => at = "served") /\ (answer' # Waiting => at' = "served")
  BY DEF AnswerInv
<1>2. RoutesAsRegistered'
  <2>1. CASE answer = Waiting
    <3>1. answer'.by = "nobody"
      BY <2>1 DEF Waiting
    <3>2. answer' # Error(404) /\ answer' # Error(405)
      BY <3>1 DEF Error
    <3> QED
      BY <3>1, <3>2 DEF RoutesAsRegistered
  <2>2. CASE answer # Waiting
    BY <1>1, <2>2 DEF AnswerInv, RoutesAsRegistered
  <2> QED
    BY <2>1, <2>2
<1>3. AnonymousOnlyLogsIn' /\ CheckedPathIsUsed'
  BY DEF AnswerInv, AnonymousOnlyLogsIn, CheckedPathIsUsed
<1> QED
  BY <1>1, <1>2, <1>3 DEF AnswerInv, Answers, Waiting, Error, Handler, File, Moved

(* A good answer to the request: what AnswerInv will say of it.            *)
GoodAnswer ==
  /\ answer' \in Answers
  /\ answer'.by = "handler" =>
       /\ \E r \in Asked : r.handler = answer'.handler
       /\ Literal(request.path)
       /\ validated \/ answer'.handler = Login
  /\ answer'.by \in {"file", "moved"} => validated \/ answer'.path \in {LoginFile, request.path}
  /\ answer'.by \notin {"nobody", "error"} => Literal(request.path)
  /\ Asked # {} /\ validated => answer' \notin {Error(404), Error(405)}

(* handle_client: what each method is answered is what the properties say,  *)
(* and login is the only handler under the path that needs no session.     *)
LEMMA AnswerInvHandleClient ==
  ParserInv /\ TreeInv /\ unregistered = <<>> /\ HandleClient => AnswerInv'
<1> SUFFICES ASSUME ParserInv, TreeInv, unregistered = <<>>, HandleClient PROVE AnswerInv'
  OBVIOUS
<1>1. /\ request' = request /\ at' = at /\ validated' = validated /\ at = "served"
  BY DEF HandleClient, vars
<1>2. request \in Requests /\ (~request.cookie => ~validated)
  BY DEF ParserInv, TypeOK
<1>3. GoodAnswer => AnswerInv'
  <2> SUFFICES ASSUME GoodAnswer PROVE AnswerInv'
    OBVIOUS
  <2>1. RoutesAsRegistered'
    BY <1>1 DEF RoutesAsRegistered, Asked, GoodAnswer
  <2>2. AnonymousOnlyLogsIn'
    BY <1>1, <1>2 DEF AnonymousOnlyLogsIn, GoodAnswer
  <2>3. CheckedPathIsUsed'
    BY <1>1 DEF CheckedPathIsUsed, Literal, GoodAnswer
  <2>4. answer' \in Answers' /\ (answer' # Waiting => at' = "served")
    BY <1>1 DEF Answers, Waiting, Error, Handler, File, Moved, GoodAnswer
  <2> QED
    BY <2>1, <2>2, <2>3, <2>4 DEF AnswerInv, Waiting
<1> SUFFICES GoodAnswer
  BY <1>3
<1>4. \A r \in Asked : request.method \in {"POST", "REPORT"}
  BY RouterAssumption DEF Asked
<1>5. ASSUME NEW c \in {401, 403, 404, 405, 500}, answer' = Error(c),
             ~validated \/ Asked = {} \/ c = 500
      PROVE  GoodAnswer
  <2>1. answer'.by = "error" /\ answer' \in Answers
    BY <1>5 DEF Error, Answers
  <2>2. c = 500 => answer' \notin {Error(404), Error(405)}
    BY <1>5 DEF Error
  <2> QED
    BY <1>5, <2>1, <2>2 DEF GoodAnswer
<1>6. CASE HandleGet
  <2>1. Asked = {}
    BY <1>4, <1>6 DEF HandleGet
  <2>2. LoginFile \in Files /\ PanelFile \in Files
    BY RouterAssumption
  <2>3. ASSUME NEW f \in Files, answer' \in {File(f), Moved(f)},
               validated \/ f \in {LoginFile, request.path}, Literal(request.path)
        PROVE  GoodAnswer
    <3>1. answer'.by \in {"file", "moved"} /\ answer'.path = f /\ answer' \in Answers
      BY <2>3 DEF File, Moved, Answers
    <3> QED
      BY <2>1, <2>3, <3>1 DEF GoodAnswer
  <2>4. CASE request.path = <<Lit(Slash)>>
    <3>1. Literal(request.path)
      <4>1. DOMAIN request.path = {1} /\ request.path[1] = Lit(Slash)
        BY <2>4
      <4>2. Decode(request.path)[1] = Slash
        BY <4>1 DEF Decode, Lit
      <4> QED
        BY <4>1, <4>2 DEF Literal
    <3>2. answer' \in {IF validated THEN Moved(PanelFile) ELSE File(LoginFile), Error(500)}
      <4>1. ~HasDot(request.path)
        BY <2>4 DEF HasDot, Lit, Slash, Dot
      <4> QED
        BY <1>6, <2>4, <4>1 DEF HandleGet
    <3> QED
      BY <1>5, <2>2, <2>3, <3>1, <3>2
  <2>5. CASE request.path = PanelPath /\ validated /\ answer' = File(PanelFile)
    BY <2>2, <2>3, <2>5, LiteralNames
  <2>6. CASE request.path \in Files /\ answer' = File(request.path)
    BY <2>3, <2>6, LiteralNames
  <2>7. CASE answer' \in {Error(500), Error(404), Error(401)}
    BY <1>5, <2>1, <2>7
  <2> QED
    BY <1>6, <2>4, <2>5, <2>6, <2>7 DEF HandleGet
<1>7. ASSUME Dispatch, ~validated => request.method = "POST" /\ request.path = LoginPath
      PROVE  GoodAnswer
  <2>1. /\ answer' \in {Error(404), Error(405), Error(500)} \cup {Handler(h) : h \in Handlers}
        /\ answer'.by = "handler" =>
             /\ \E r \in Asked : r.handler = answer'.handler
             /\ Literal(request.path)
        /\ Asked # {} => answer'.by = "handler" \/ answer' = Error(500)
    BY <1>2, <1>7, DispatchFinds
  <2>2. CASE answer' \in {Error(404), Error(405), Error(500)}
    <3>1. answer'.by # "handler"
      BY <2>2 DEF Error
    <3> QED
      BY <1>5, <2>1, <2>2, <3>1
  <2>3. ASSUME NEW h \in Handlers, answer' = Handler(h) PROVE GoodAnswer
    <3>1. answer'.by = "handler" /\ answer'.handler = h /\ answer' \in Answers
      BY <2>3 DEF Handler, Answers
    <3>2. answer' \notin {Error(404), Error(405)}
      BY <3>1 DEF Error
    <3>3. validated \/ h = Login
      <4>1. CASE request.method = "POST" /\ request.path = LoginPath
        <5>1. PICK r \in Asked : r.handler = h
          BY <2>1, <3>1
        <5>2. PICK s \in Routes : s.method = "POST" /\ s.path = LoginPath /\ s.handler = Login
          BY RouterAssumption
        <5>3. r \in Routes /\ Node(r.method, r.path) = Node(s.method, s.path)
          BY <4>1, <5>1, <5>2 DEF Asked, Node
        <5>4. r = s
          BY <5>2, <5>3, RouterAssumption
        <5> QED
          BY <5>1, <5>2, <5>4
      <4> QED
        BY <1>7, <4>1
    <3> QED
      BY <2>1, <3>1, <3>2, <3>3 DEF GoodAnswer
  <2> QED
    BY <2>1, <2>2, <2>3
<1>8. CASE HandlePost
  <2>1. CASE request.path = LoginPath \/ validated
    <3>1. Dispatch /\ request.method = "POST"
      BY <1>8, <2>1 DEF HandlePost
    <3>2. ~validated => request.path = LoginPath
      BY <2>1
    <3> QED
      BY <1>7, <3>1, <3>2
  <2>2. CASE ~(request.path = LoginPath \/ validated)
    BY <1>5, <1>8, <2>2 DEF HandlePost
  <2> QED
    BY <2>1, <2>2
<1>9. CASE HandleReport
  <2>1. CASE validated
    <3>1. Dispatch
      BY <1>9, <2>1 DEF HandleReport
    <3> QED
      BY <1>7, <2>1, <3>1
  <2>2. CASE ~validated
    BY <1>5, <1>9, <2>2 DEF HandleReport
  <2> QED
    BY <2>1, <2>2
<1>10. CASE HandleOther
  <2>1. Asked = {}
    BY <1>4, <1>10 DEF HandleOther
  <2> QED
    BY <1>5, <1>10, <2>1 DEF HandleOther
<1> QED
  BY <1>6, <1>8, <1>9, <1>10 DEF HandleClient

LEMMA RouterInvStep ==
  ParserInv /\ TreeInv /\ AnswerInv /\ [RouterNext]_routerVars => TreeInv' /\ AnswerInv'
<1> SUFFICES ASSUME ParserInv, TreeInv, AnswerInv, [RouterNext]_routerVars
             PROVE  TreeInv' /\ AnswerInv'
  OBVIOUS
<1>1. ASSUME UNCHANGED <<tree, unregistered>> PROVE TreeInv'
  BY <1>1 DEF TreeInv, Waits, Registered
<1>2. CASE Register
  <2>1. TreeInv'
    BY <1>2, TreeInvRegister
  <2>2. request' = request /\ answer' = answer /\ at' = at /\ validated' = validated
    BY <1>2 DEF Register, vars
  <2> QED
    BY <2>1, <2>2, AnswerInvKept
<1>3. CASE Next /\ UNCHANGED <<tree, unregistered, answer>>
  <2>1. request' = request /\ (at = "served" => at' = "served" /\ validated' = validated)
    BY <1>3 DEF Next, Arrive, Receive, ReceiveFails, ParsePath, ParseHeaders, ParseBody
  <2> QED
    BY <1>1, <1>3, <2>1, AnswerInvKept
<1>4. CASE unregistered = <<>> /\ HandleClient
  BY <1>1, <1>4, AnswerInvHandleClient DEF HandleClient
<1>5. CASE UNCHANGED routerVars
  <2>1. request' = request /\ answer' = answer /\ at' = at /\ validated' = validated
    BY <1>5 DEF routerVars, vars
  <2>2. UNCHANGED <<tree, unregistered>>
    BY <1>5 DEF routerVars
  <2> QED
    BY <1>1, <2>1, <2>2, AnswerInvKept
<1> QED
  BY <1>2, <1>3, <1>4, <1>5 DEF RouterNext, Serve

LEMMA RouterInvariant == RouterSpec => []RouterInv
<1>1. RouterSpec => []ParserInv
  BY RouterParses, ParserInvariant, PTL
<1>2. ParserInv /\ TreeInv /\ AnswerInv <=> RouterInv
  BY DEF RouterInv
<1> QED
  BY <1>1, <1>2, TreeInvInit, AnswerInvInit, RouterInvStep, PTL DEF RouterSpec

(* The table, what is left to register and the answers have their types,   *)
(* whatever routes and files there are (register_route, dispatch_route).   *)
THEOREM RouterKeepsTypes == RouterSpec => []RouterTypeOK
<1>1. RouterInv => RouterTypeOK
  BY DEF RouterInv, RouterTypeOK, ParserInv, TreeInv, AnswerInv, Answers
<1> QED
  BY <1>1, RouterInvariant, PTL

(* For any table in which no two routes share a node, in either order of   *)
(* registration and for paths of any length: a handler runs for the        *)
(* requests that spell its route and for no other, and no request that may *)
(* reach a route is told that there is none (dispatch_route).              *)
THEOREM RouterRoutesAsRegistered == RouterSpec => []RoutesAsRegistered
<1>1. RouterInv => RoutesAsRegistered
  BY DEF RouterInv, AnswerInv
<1> QED
  BY <1>1, RouterInvariant, PTL

(* Whatever routes and files there are, in either order of registration, a *)
(* client without a session runs the login handler only, and gets no file  *)
(* but the login page and those it asks for by their own path, the panel's *)
(* page among them (handle_get_request, handle_post_request, handle_client). *)
THEOREM RouterAnonymousOnlyLogsIn == RouterSpec => []AnonymousOnlyLogsIn
<1>1. RouterInv => AnonymousOnlyLogsIn
  BY DEF RouterInv, AnswerInv
<1> QED
  BY <1>1, RouterInvariant, PTL

(* The router takes the raw path and is_path_safe looked at the decoded    *)
(* one: as no route, page or file has an escape in its name, whatever      *)
(* answers was asked for by a path in which the two are the same.          *)
THEOREM RouterCheckedPathIsUsed == RouterSpec => []CheckedPathIsUsed
<1>1. RouterInv => CheckedPathIsUsed
  BY DEF RouterInv, AnswerInv
<1> QED
  BY <1>1, RouterInvariant, PTL
=============================================================================
