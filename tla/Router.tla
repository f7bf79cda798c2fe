------------------------------- MODULE Router -------------------------------
(***************************************************************************)
(* The routes and what becomes of a parsed request: register_route and     *)
(* dispatch_route of router.cpp, handle_client and the handler of each     *)
(* method of request.cpp.  The router reads the path as it came, escapes   *)
(* included; is_path_safe looked at the decoded one.                       *)
(*                                                                         *)
(* Here a request gets the first answer it is given; what the connection   *)
(* then goes through, a second answer included, is HttpServer's.           *)
(***************************************************************************)
EXTENDS RequestParser

CONSTANTS AuthRoutes, ApiRoutes,  (* the batches of auth.cpp and of api.cpp *)
          Login,        (* handle_login                                      *)
          LoginPath, PanelPath,
          Files,        (* the paths by which a file of the public folder    *)
                        (* opens                                             *)
          LoginFile, PanelFile,  (* "/index.html", "/panel/index.html"       *)
          Extensions,   (* the endings get_mime_type knows                   *)
          None

Routes == {AuthRoutes[i] : i \in DOMAIN AuthRoutes} \cup {ApiRoutes[i] : i \in DOMAIN ApiRoutes}
Handlers == {r.handler : r \in Routes}

-----------------------------------------------------------------------------
(* getline(stream, segment, '/') reads on to the next slash or the end; of *)
(* what it reads the segments are what is not empty: the runs of units     *)
(* that are no slash, in their order.                                      *)
Starts(path) ==
  {i \in DOMAIN path : path[i] # Lit(Slash) /\ (i > 1 => path[i - 1] = Lit(Slash))}
Rank(path, i) == Cardinality({j \in Starts(path) : j <= i})

IsEnd(path, i, e) ==
  /\ \A j \in i..e : path[j] # Lit(Slash)
  /\ e < Len(path) => path[e + 1] = Lit(Slash)
Segment(path, i) == SubSeq(path, i, CHOOSE e \in i..Len(path) : IsEnd(path, i, e))

Segments(path) ==
  [k \in 1..Cardinality(Starts(path)) |->
     Segment(path, CHOOSE i \in Starts(path) : Rank(path, i) = k)]

(* A node of route_tree_map is named by its method and the way to it.      *)
Node(method, path) == <<method, Segments(path)>>
Way(node) == {<<node[1], SubSeq(node[2], 1, k)>> : k \in 0..Len(node[2])}

(* register_route: the root of the method and children[segment] make the   *)
(* nodes that are missing.                                                 *)
RegisterRoute(tree, r) ==
  LET node == Node(r.method, r.path)
  IN  [n \in DOMAIN tree \cup Way(node) |->
        IF n = node THEN r.handler ELSE IF n \in DOMAIN tree THEN tree[n] ELSE None]

(* The tables have no two routes for one node, no route of a method that   *)
(* handle_client does not dispatch, and the login handler under the path   *)
(* that handle_post_request asks for; no route, page or file has an escape *)
(* in its name.                                                            *)
ASSUME RouterAssumption ==
  /\ AuthRoutes \in Seq(Routes) /\ ApiRoutes \in Seq(Routes)
  /\ None \notin Handlers
  /\ \A r, s \in Routes : Node(r.method, r.path) = Node(s.method, s.path) => r = s
  /\ \A r \in Routes : r.method \in {"POST", "REPORT"}
  /\ \E r \in Routes : r.method = "POST" /\ r.path = LoginPath /\ r.handler = Login
  /\ {LoginFile, PanelFile} \subseteq Files
  /\ \A p \in {r.path : r \in Routes} \cup {PanelPath} \cup Files :
       p \in Seq([esc : {FALSE}, byte : 0..255])

-----------------------------------------------------------------------------
VARIABLES
  tree,          (* route_tree_map                                          *)
  unregistered,  (* routes of the batches that are not in it yet            *)
  answer         (* what the client is answered                             *)

routerVars == <<vars, tree, unregistered, answer>>

Waiting == [by |-> "nobody"]
Error(code) == [by |-> "error", code |-> code]
Handler(h) == [by |-> "handler", handler |-> h]
File(path) == [by |-> "file", path |-> path]
Moved(path) == [by |-> "moved", path |-> path]     (* 302 with that body *)

RouterInit ==
  /\ Init
  /\ tree = <<>>
  /\ unregistered \in {AuthRoutes \o ApiRoutes, ApiRoutes \o AuthRoutes}
  /\ answer = Waiting

(* The constructors of the batches, before main: in each file the routes   *)
(* in their order, the files in the order of the linker.                   *)
Register ==
  /\ unregistered # <<>>
  /\ tree' = RegisterRoute(tree, Head(unregistered))
  /\ unregistered' = Tail(unregistered)
  /\ UNCHANGED <<vars, answer>>

(* Mutant: a node that ends no route passes for the route above it. *)
DispatchNearest ==
  LET node == Node(request.method, request.path)
      known == {n \in Way(node) : n \in DOMAIN tree /\ tree[n] # None}
  IN  IF known = {} THEN answer' = Error(404)
      ELSE answer' = Handler(tree[CHOOSE n \in known : \A m \in known : Len(m[2]) <= Len(n[2])])

(* Mutant: the path is decoded before it is looked up. *)
DispatchDecoded ==
  LET plain == [i \in DOMAIN request.path |-> Lit(request.path[i].byte)]
      node == Node(request.method, plain)
  IN  IF node \notin DOMAIN tree \/ tree[node] = None THEN answer' = Error(404)
      ELSE answer' = Handler(tree[node])

(* dispatch_route: the handler answers, or it throws or leaves a status    *)
(* other than 200, which handle_client answers with 500.                   *)
Dispatch ==
  LET node == Node(request.method, request.path)
  IN  IF <<request.method, <<>> >> \notin DOMAIN tree THEN answer' = Error(405)
      ELSE IF node \notin DOMAIN tree \/ tree[node] = None THEN answer' = Error(404)
      ELSE answer' \in {Handler(tree[node]), Error(500)}

HasDot(path) == \E i \in DOMAIN path : path[i] = Lit(Dot)
HasMimeType(path) == \E i \in DOMAIN path : SubSeq(path, i, Len(path)) \in Extensions

(* handle_get_request: a path with a dot is a file of the public folder    *)
(* for anybody, the two pages by their own names included; without one it  *)
(* is "/" or the panel.  A file that cannot be opened is a 500.            *)
HandleGet ==
  /\ request.method = "GET"
  /\ IF HasDot(request.path)
     THEN IF HasMimeType(request.path) /\ request.path \in Files
          THEN answer' \in {File(request.path), Error(500)}
          ELSE answer' = Error(404)
     ELSE IF request.path = <<Lit(Slash)>>
     THEN answer' \in {IF validated THEN Moved(PanelFile) ELSE File(LoginFile), Error(500)}
     ELSE IF request.path = PanelPath
     THEN IF validated THEN answer' \in {File(PanelFile), Error(500)} ELSE answer' = Error(401)
     ELSE answer' = Error(404)

(* handle_post_request *)
HandlePost ==
  /\ request.method = "POST"
  /\ IF request.path = LoginPath \/ validated THEN Dispatch ELSE answer' = Error(403)

(* Mutant: REPORT requests are dispatched whoever sends them. *)
HandleReportUnchecked ==
  /\ request.method = "REPORT"
  /\ Dispatch

(* handle_report_request, behind the check in handle_client.               *)
HandleReport ==
  /\ request.method = "REPORT"
  /\ IF validated THEN Dispatch ELSE answer' = Error(401)

HandleOther ==
  /\ request.method \notin {"GET", "POST", "REPORT"}
  /\ answer' = Error(405)

(* handle_client, once the request is parsed.                              *)
HandleClient ==
  /\ at = "served" /\ answer = Waiting
  /\ HandleGet \/ HandlePost \/ HandleReport \/ HandleOther
  /\ UNCHANGED <<vars, tree, unregistered>>

(* main serves when every route is registered.                             *)
Serve ==
  /\ unregistered = <<>>
  /\ (Next /\ UNCHANGED <<tree, unregistered, answer>>) \/ HandleClient

RouterNext == Register \/ Serve

RouterSpec == RouterInit /\ [][RouterNext]_routerVars

-----------------------------------------------------------------------------
RouterTypeOK ==
  /\ TypeOK
  /\ tree \in [DOMAIN tree -> Handlers \cup {None}]
  /\ unregistered \in Seq(Routes)
  /\ answer \in {Waiting} \cup {Error(c) : c \in {401, 403, 404, 405, 500}}
                \cup {Handler(h) : h \in Handlers}
                \cup {File(f) : f \in Files} \cup {Moved(f) : f \in Files}

(* In whatever order the two files register their routes, a handler runs   *)
(* for the requests that spell a route registered for it, extra slashes    *)
(* aside, and for no other; and a request for a route that is allowed to   *)
(* reach it is not answered that there is no such route.                   *)
RoutesAsRegistered ==
  LET asked == {r \in Routes : /\ r.method = request.method
                               /\ Segments(r.path) = Segments(request.path)}
  IN  /\ answer.by = "handler" => \E r \in asked : r.handler = answer.handler
      /\ asked # {} /\ validated => answer \notin {Error(404), Error(405)}

(* Without a valid session no handler but login runs, wherever the head of *)
(* the request was cut: headers that were not read grant nothing.  And the *)
(* names "/" and "/panel" then give no file but the login page: any other  *)
(* file, the page of the panel too, is had by its own path alone, to which *)
(* handle_get_request asks for no session.                                 *)
AnonymousOnlyLogsIn ==
  ~request.cookie => /\ answer.by = "handler" => answer.handler = Login
                     /\ answer.by \in {"file", "moved"} => answer.path \in {LoginFile, request.path}

(* What is looked up is what was checked: is_path_safe looks at the        *)
(* decoded path and the router uses the raw one, and whatever answers but  *)
(* with an error was asked for by a path in which the two are the same.    *)
CheckedPathIsUsed ==
  answer.by \notin {"nobody", "error"} =>
    \A i \in DOMAIN request.path : request.path[i] = Lit(Decode(request.path)[i])
=============================================================================
