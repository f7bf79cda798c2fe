# A TLA+ verification of web-atlantis

web-atlantis is a control panel for Minecraft servers: a C++ web server written
on bare sockets (`src/src`), a browser panel (`src/public`) and an older console
panel (`src/python`). This directory holds TLA+ models of its parts, the TLC
configurations that check them on small instances, and TLAPS proofs for every
instance of most of them.

Paths below are relative to the repository (`src/` here); line numbers are
those of the commit that was modelled.

## 1. Inventory

| part | code | state | operations | talks to |
|---|---|---|---|---|
| thread pool | `thread_pool.hpp` | `tasks`, `stop`, one mutex, two condition variables, worker threads | constructor, worker loop, `enqueue`, destructor | accept loop (producer), connection tasks |
| accept loop | `main.cpp` | listening socket, `consecutive_select_failures`, the `timeout` of select() | init database, select/accept/enqueue, shutdown | kernel sockets, database manager, pool |
| request handling | `request.cpp/.hpp` | a descriptor number per task | receive, parse, authenticate, route, answer, close | pool, router, auth, kernel |
| router | `router.cpp/.hpp` | a trie of routes filled before main | `register_route`, `dispatch_route` | API handlers |
| API handlers | `api.cpp` | none of their own | about 40 handlers: check the JSON body, call `servers_utils.hpp`, fill the response | server instances |
| authentication | `auth.cpp` | tables `users`, `tokens`; the cookie in the browser | login, token creation, validation, users | SQLite, request handling |
| database manager | `db_manager.hpp` | connection, mutex, schema | open, create schema and first user, blocked addresses | SQLite, main |
| configuration | `utils.hpp`, `main.cpp` | `GlobalConfig`, `atlantis.config` | create, load, command line over it | everything |
| instance manager | `InstanceManager.hpp`, `servers_utils.hpp` | `instances` vector, mutex | lazy load, lookup | API handlers |
| server instance | `ServerInstance.hpp`, `servers_utils.hpp` | flags `running`, `booting`, `stopping`, counters; detached threads; the tmux session and its console | status, start, stop, reboot, console commands and what is read back | tmux, API handlers |
| web panel | `public/js/panel.js` | selected instance, timers, cached lists | refresh, console polling, buttons | HTTP API |
| console panel | `python/panel_mc.py` | `config.json`, storm threads, screen sessions | menus, start/stop/restart, storms, backups | screen, Minecraft console |

Third-party (`json.hpp`), style sheets, pages and build rules are left aside.

### What is hard here, and what would be correct

* **Pool.** Two condition variables used with `notify_one`, a bounded queue, a
  destructor that races producers and sleeping workers. Correct: every accepted
  task runs exactly once and in order of acceptance; no lost wake-up; shutdown
  drains; the destructor and `enqueue` return.
* **Connections.** A task knows its client by a descriptor *number*, which the
  kernel reuses as soon as someone closes it; failures at any of recv, send,
  handler, pool. Correct: each response reaches its own client, each descriptor
  is closed once, by its owner; the queue bound keeps accept() supplied with
  descriptors; every client is answered or hung up on.
* **Server instance.** Three flags written by polls, stops, starts and threads
  that sleep for minutes; a console shared by everyone; a session that appears
  and vanishes by itself. The panel asks again only while an answer says
  booting or stopping. Correct: the answers converge to what the server does; a
  stop reaches the server; what is announced happens.
* **Console.** Answers are read back from the visible lines, oldest first, while
  others type and the server writes. Correct: an answer of success means that
  every command was typed; old answers do not stay on the panel.
* **Instance manager.** A vector filled lazily under a mutex and used without
  it. Correct: one element per server, no use of a moved element, every server
  of the folder is found.
* **Start-up, settings and sessions.** A setting may come from the build, the
  file or the command line, and decides which database file a start opens; each
  file survives crashes, the process does not. Correct: no session lost, shared,
  passed to another file or cut short by any sequence of starts; no start serves with a setting nobody
  made; a served panel has a user.
* **Request parser.** A head read up to a limit, a path check that mixes the raw
  and the decoded path, whole registers and a tail. Correct: what passes is a
  plain path, no plain path is refused, a body is whole or absent.
* **Router.** Two batches registered in an order the linker chooses, one trie,
  three method handlers with their own checks of the session. Correct: a
  handler runs only for requests that spell its route, in either order; without
  a session no handler but login runs; what is looked up is what was checked.
* **Web panel, console panel.** Timers, answers that come late, waits that give
  up. Of these only the panel's timer is modelled (section 6).

`PROJECT.json` lists every hazard at its line with the properties about it.

## 2. Plan

Order, most important first.

| step | modules | what it is | |
|---|---|---|---|
| 1 | `TaskQueue` | abstract specification: a bounded FIFO of tasks that closes | done |
| 2 | `ThreadPool`, `MCThreadPool` | the pool, shown to implement `TaskQueue` | done |
| 3 | `HttpServer`, `MCHttpServer` | connections; composes with the pool through `TaskQueue` | done |
| 4 | `ServerInstance`, `MCServerInstance` | one server and everything that reads or writes its flags | done |
| 5 | `InstanceManager`, `MCInstanceManager` | the vector of instances | done |
| 6 | `Accounts`, `Config` | start-up and sessions of one file; settings of one start | done |
| 7 | `Startup`, `MCStartup` | composes `Config` and `Accounts` over several database files | done |
| 8 | `RequestParser` | path checks, cookie and body | done |
| 9 | `Router`, `MCRouter` | the trie and the method handlers, over the requests `RequestParser` lets through | done |
| 10 | `Console`, `MCConsole` | what polls and commands make of one console | done |
| 11 | proofs | `ThreadPoolProofs`, `HttpServerProofs`, `InstanceManagerProofs`, `RequestParserProofs`, `RouterProofs`, `StartupProofs` | done |
| 12 | `ServerInstanceProofs`, `ConsoleProofs` | their type invariants, `StopIsHeard`, `AnnouncedIsTyped` | done |
| 13 | `Panel`, `ConsolePanel`, `TaskSlot` | see section 6 | later |

The runs are kept to a dozen, so that all of them can be run at every change:
a module that is composed into a larger one is run there (`Config` and
`Accounts` in `startup`, `RequestParser` in `routing`).

Every module declares its parameters as CONSTANTS with a named ASSUME, has one
action per critical section, system call or handler step, and declares no
RECURSIVE operator.

## 3. The modules and the code

Each definition that models code has its lines in `PROJECT.json` under `map`.
Definitions whose comment begins with *Mutant* are not part of a specification:
each is a plausible bug in the definition after it, and shows that some property
would notice it.

### ThreadPool, TaskQueue (`thread_pool.hpp:46-134`)

One action is one critical section under `queue_mutex`, or one `notify` outside
it. `wpc`, `ppc` and `dpc` say where each worker, each caller of `enqueue` and
the destructor are; `tasks` and `stop` are the members of the same name;
`current` and `arg` are the local variables that hold a callable. A thread in
the wait set of a condition variable leaves it by a notification
(`NotifyOneWorker`, `NotifyOneProducer`: any sleeper, or nobody), by a spurious
wake-up or, for workers, by the 30 s timeout of their wait; it then
competes for the mutex again. `accepted`, `started`, `finished` and `rejected`
are history variables that no guard reads.

`TaskQueue` is what the users of the pool rely on: a task is accepted if there
is room and the queue is open, refused if it is closed, started first in first
out on a free lane, and a closed queue ends when nothing waits or runs.

### HttpServer (`main.cpp`, `request.cpp`, `request.hpp`, `router.cpp`)

The pool is an instance of `TaskQueue`: `Enqueue`, `WorkerStarts` and
`WorkerReturns` are conjunctions of its actions with those of the server, so
what is shown of `ThreadPool` is what is used. The kernel's descriptor table
`fds` maps numbers to connections; `accept()` takes the lowest free number, as
POSIX says, and `close()` frees it. The code only has numbers (`sock`), so a
second close or send on a number may meet another connection. `hpc` is the place
of a connection's handler, `guarded` whether an exception is caught by
`handle_client` (which answers 500) or by the lambda of `main.cpp:157` (which
only closes), `todo` the answers still to be made. The kind of a request stands
for the branch it takes.

### ServerInstance (`ServerInstance.hpp`, `servers_utils.hpp`)

Every tmux call is a step, as is every group of stores to the flags that follows
one. `tmux`, `server`, `typed`, `asked` and `pane` are the world: the session,
the server process, text on the input line that was not entered, a `list` the
server has not answered, an answer visible in the pane. The server may boot, stop,
hang or crash at any step. `at[h]` follows a pool thread through `update_status`,
`start_server`, `stop_server` and the functions they call; `caller[h]` is the
return address of `is_running`. A request acts or polls, and there are three
polls: of the status of one instance, of all of them (`get_general_status`, which
calls `is_running`, `update_status`, `is_booting` and perhaps `update_status`
again: `Phases`), and of the players. `get_cpu_usage` throws in a session without a
child process, which ends the request (`UsageThrows`). `due` is the timer of the
panel: `updateInstanceStatus` sets it when the status it is given is booting or
stopping (`Answer`), and asks for the status again ten seconds later (`Ask`). `starters` counts the threads in
`wait_for_initialization`, `stopper` those in `wait_for_termination`. Delays are
not modelled, with one exception, `NoStoreDue`: a thread that sleeps for at
least ten seconds does not wake between a look at tmux and the store, a few
instructions later, that follows from it.

### InstanceManager (`InstanceManager.hpp`, `servers_utils.hpp:50-211`)

`instances` with its `capacity` and the number of its `buffer`, `mutex`, and the
handlers' places. `push_back` beyond the capacity makes a new buffer, and a
handler's `view` is the buffer its iteration or pointer is into. A constructor
throws for a session that is a shell without a child (`get_cpu_usage`).

### Accounts, Config, Startup (`main.cpp`, `db_manager.hpp`, `auth.cpp`, `utils.hpp`)

`Accounts` is one database file and the process that serves it. The file
(`schema`, `admin`, `tokens`, SQLite's write lock) survives crashes, the process
does not. A token is known by the second it was made in, since the code makes it
from the user, of which there is one, and the second. How long it lasts is decided
by the `login_expiration` of the start that looks at it (`Check`), not of the one
that made it. While one connection writes the others' queries fail (`Busy`; SQLite
is given no busy timeout): a login is then refused with 403, and a request with a
cookie gets no answer, since `validate_token` throws. Browsers keep a cookie for
`Max-Age`, and the clock jumps from one of the `Instants` to a later one.

`Config` is one start after the other up to the opening of the database: it
reads or writes the file of the built-in mode, takes options, opens the database
in the tree of the mode it then has. Numbers are the real ones, around every
limit; names are one of: built in, given, too long, cut, empty.

`Startup` puts the two together: `OpenSettled` opens the file that the settings
name, so that the variables of `Accounts` are those of that file, while `disk`
keeps the other files, and `Check` is given the settings' length of a session;
`home` remembers the file of each browser's login and is
read by no guard. A crash ends `Config`'s process and `Accounts`' handlers alike.

### RequestParser (`request.cpp:50-141, 327-463`)

A path is a sequence of units (a byte or an escape), with the byte values of the
code; the request arrives in pieces grouped in any way, so that a head may be
cut before the cookie or the length. User agents, JSON and form parameters
appear as exceptions that may come.

### Router (`router.cpp`, `router.hpp`, `request.cpp:465-563`)

Extends `RequestParser` with what becomes of a parsed request. `Register` is one
turn of the loop of a batch's constructor: the tables of `auth.cpp` and `api.cpp`,
in either order (`unregistered`), go route by route into the trie `tree`, whose
nodes are named by their way from the root, and `Serve` begins when all are there.
The segments of a path are what `getline` reads between two slashes and is not
empty: one for each unit that is no slash and follows none (`Starts`), up to the
next slash or the end (`IsEnd`). `Dispatch` is
`dispatch_route`, `HandleGet`, `HandlePost` and `HandleReport` the handlers of
the methods with the checks of the session that `handle_client` makes. The path
is read as it came, escapes included. A GET is answered with a file of the public
folder, `File`, with a redirection, `Moved`, or with an error: a path with a dot is
looked for in the folder whoever asks, `/` and `/panel` give `LoginFile` and
`PanelFile` by the session. `PanelFile` is among the files, so that
`AnonymousOnlyLogsIn` says what the code does: it asks for a session at `/panel` and
for none at `/panel/index.html`.

### Console (`api.cpp`, `servers_utils.hpp`, `ServerInstance.hpp`)

One thread polls (`is_running`, `update_status`, `update_resource_usage` and the
two functions that read the players back), another runs any request of `api.cpp`
that types into the console or reads it, by the number of commands it types and
what its answer says when one cannot be sent. `input` is what was typed and not
read. `pane` is the visible rows, each the first row of an answer to `list` or
anything else: a detached session is 80 columns wide and `capture-pane` is not told
to join lines, so that of a long answer only the names on its first row, `Width` of
them, are seen by the patterns, and the rest (`Write`) is not. A line that is typed
may be echoed by the terminal at once (`Type`), or by the server later (`Write`).
The head of an answer, up to the first letter of a name, is taken to fit one row, which
it does with the usual prefix of the server's log.

## 4. Runs

On two cores most runs end within a minute and a half, the largest in about three. Deadlock
is checked where the system should never stop (`pool`, the HTTP runs, `manager`);
elsewhere behaviours end because a bound of the instance is used up.

| run | instance | distinct states | properties |
|---|---|---|---|
| `pool` | 2 workers, 3 callers of which one owns the pool, 3 tasks, 1 place | 26,125 | `TypeOK` `QueueBounded` `ExactlyOnceInOrder` `TaskIsAnnounced` `SpaceIsAnnounced` `ShutdownDrains` `EveryCallReturns` `ImplementsFairTaskQueue` |
| `http_safety` | 4 clients, 2 workers, 1 place, 4 descriptors | 268,453 | `TypeOK` `OwnResponse` `NoDescriptorLeak` `ClosedByOwner` `AcceptHasDescriptor` |
| `http_live` | 3 clients, one silent, 1 worker, 2 descriptors | 23,189 | `EveryClientServed` |
| `http_unknown_route` | 2 clients, 2 workers | violation | `OwnResponse` |
| `instance_safety` | 2 handlers, a person at the machine | 3,111,218 | `TypeOK` `StopIsHeard` |
| `instance_live` | 2 handlers, the panel's timer | 576,669 | `StoppedIsShown` `UpIsShown` `BootingIsNotShownRunning` |
| `instance_reboot` | 2 handlers | violation | `AnnouncedStartBoots` |
| `startup` | 2 browsers, 2 handlers, 2 crashes, 1 edit, 1 option a start, 3 names of databases, 2 lengths of a session | 345,324 | `StartupTypeOK` `CookieIsDurable` `SessionsAreDistinct` `NumbersInRange` `NoSessionRefusedEarly` `FilesKeepTheirSessions` `UntouchedIsBuiltin` |
| `accounts_admin` | 2 browsers, 1 crash | violation | `ReadyHasAdmin` |
| `routing` | every path of up to 4 units of 14, longer ones, variants of every route | 506,906 | `RouterTypeOK` `PathsAreChecked` `PlainPathsPass` `BodyIsWhole` `RoutesAsRegistered` `AnonymousOnlyLogsIn` `CheckedPathIsUsed` |
| `manager` | 3 handlers, 3 servers | 429,490 | `TypeOK` `OneInstanceEach` `NoStaleElement` `ServersAreFound` |
| `console` | 2 players, 2 rows of 1 name, 2 lines typed at once | 1,186,246 | `TypeOK` `AnnouncedIsTyped` `OldAnswersFade` |

What each shows, in words, is the `about` of the run in `PROJECT.json`.

Why the bounds are enough:

* `pool`: with one place, two of three callers block; with two workers a
  notification can fall on the wrong one; three tasks fill the queue while both
  workers are busy or asleep. The invariants are proved for every instance
  (section 5), so the run matters for the liveness properties only.
* `http_safety`: the largest number of connections the process can hold is the
  queue, the workers and the one the main thread holds, four here, which is
  `NumFds`; so a number is reused while others are in use. `http_live` has fewer
  descriptors than that, so that EMFILE happens.
* `instance_*`: one handler acts and one polls. Two handlers that act at once can
  spoil each other's commands on the shared console: `StopIsHeard` says what is
  true of one. Both may poll in every way. One detached thread of each kind runs at a time (`MaxStarters`,
  `Stoppers`); a start or stop that would need a second waits.
* `startup`: two browsers are what it takes to share a session; two crashes let
  one fall before and one after the COMMIT, and let a third start come back to
  the file of the first. A session of second 0 is looked at in that second or in
  3601, which is past the built-in 3600 and the very end of 3601, to which an option
  sets the length, so that a session over in one start is not in the next
  (`Expirations`). Every limit of every number is tried from both sides, by an
  edit and by an option. Edits are made before the first crash (every setting is
  then read by the two later starts). Browsers come to starts that differ in the name
  of the database and in the length of a session only (`VisitedSettings`), the two
  settings the code of `Accounts` reads, and where the difference comes from an option
  (`VisitedEdits`); the options of starts after a crash are those two (`LateOptions`).
  `StartupProofs` has none of these bounds' values.
* `routing`: registers of two bytes instead of sixteen and a length limit of nine
  instead of forty, so that paths lie before, on and after both; bytes around
  each comparison (0x1E, 0x1F, 0x20, 0x7F, 0x80); each route with a slash or a
  segment more, a unit less, and each unit escaped; every cut of a request of up
  to six bytes.
* `manager`: three elements grow the vector twice (capacity 1, 2, 4) with two
  handlers that could be inside.
* `console`: with two rows an answer can be followed by another or by anything
  else, and scroll away; two commands make a loop that can fail half-way
  (`Loop`, `Queries`, which are 8 or 6 and 5 in the code); of two players one fits
  a row, so a list is empty, whole or cut. `MaxInput` bounds what is typed and not
  yet read.

### Fairness

* `ThreadPool`: weak fairness of each worker's and each caller's steps and of the
  destructor's: threads are scheduled, an action is a whole critical section, so
  it is enabled whenever its thread competes for the mutex, and a task ends
  (every socket call in a task has a timeout). Nothing is assumed of spurious
  wake-ups or of the 30 s timeout of the workers' wait, nor that anyone calls
  `enqueue` or the destructor.
* `HttpServer`: the main thread and the workers run; `recv()` ends because
  `SO_RCVTIMEO` is what `select()` left of its timeout. If that is zero the call
  waits for ever (`Remaining = {"zero"}`): the runs assume it is not, and
  `EveryClientServed` is false without it.
* `Console`: the server, when up, reads what is typed. Nothing is assumed of polls:
  `OldAnswersFade` is about what they read when they come.
* `ServerInstance`: threads run on, a server that runs answers its console, and a
  timer of the panel that is due is served, however many other requests the thread
  pool serves before it (`SF` of `Ask`: the pool takes requests in order, and a page
  that stays open sends what its timer asks). Nobody has to click, and the panel asks
  no more when its chain of timers has ended (`panel.js:253`): `StoppedIsShown` and
  `UpIsShown` therefore say that the chain ends and that every answer *given* from
  some time on is the true one, not that the page is brought up to date. No server
  ever has to boot, stop or exit.

### Findings

* `http_unknown_route`: a POST to a route that does not exist is answered 404 by
  `dispatch_route`, which closes the descriptor, and answered 404 again by
  `handle_post_request` (`request.cpp:525`) on the same number, which may by then
  be another client's.
* `instance_reboot`: `reboot_instance` (`servers_utils.hpp:205`) calls
  `start_server` while the old session is still there; the start command is typed
  without Enter, and the answer says that the server is initialising.
* `accounts_admin`: a process that ends between the COMMIT of the schema and the
  first user (`db_manager.hpp:98`) leaves a file that every later start takes as
  initialised, with no user at all.

### Differences between comments and code that no run checks

They are one-line facts, visible in the models and not worth a run:

* the cookie has `Max-Age=3600` (`auth.cpp:322`) whatever `login_expiration` is,
  which `utils.hpp:83` calls the duration of the cookie;
* `DB_NAME` and `LOG_FILE` are written (`utils.hpp:350, 353`) but read only under
  the keys `DB_PATH` and `LOG_PATH` (`utils.hpp:420-425`), while `main.cpp:72`
  says that options are kept by editing the file;
* `-threads=` takes any number (`main.cpp:103`) where `utils.hpp:334` gives 2 to 8;
* `-prod` (`main.cpp:92`) moves the database to a tree of directories that may not
  have been created; `-config=` renames the file after it was read;
* a request that fills the buffer is refused (`request.cpp:339`), not truncated as
  `utils.hpp:82` says;
* the route `/api/mob/execute-summon` (`api.cpp:848`) cannot be asked for: its
  path holds the signature `exec`, which `is_path_safe` refuses (an instance of it
  is in `MCRouter`);
* a handler that leaves a status other than 200 makes `dispatch_route` throw, so
  the client gets 500 whatever the status said;
* `player/count` answers with the list of players; `get_count_players` is never
  called; the weather of `world/info` is always empty (`match[1]` of a pattern
  without a group) and the difficulty is the whole pane;
* with nobody online the pattern of the list takes in the line break and shows the
  next line of the console as the players (`NamesShown`);
* some commands answer without the field `success` (`api.cpp:602-745`), and
  `session_console` always answers success;
* files of `public` are served by their raw path to anyone, `/panel/index.html`
  included (`request.cpp:470`): the check of the session is made for the name
  `/panel` only (`AnonymousOnlyLogsIn` allows it);
* `get_general_status` passes over an instance without a session and leaves its flags
  (`servers_utils.hpp:120`), so the list of instances (`short_list`) may call a server
  running that is long gone, until somebody asks for its status;
* the panel ends its chain of timers at an answer that is neither booting nor stopping
  and at an error (`panel.js:253`, `355`); `wait_for_initialization` lowers `running`
  160 s after a start and a stop that found no session raises it, so what the page
  shows may stay wrong until somebody clicks;
* a request whose look-up of the session meets another handler's commit is not answered
  at all, since `validate_token` throws (`auth.cpp:217`, `247`);
* an answer to `list` longer than the 80 columns of a detached session is cut at the
  row (`ServerInstance.hpp:197`, `524`; `utils.hpp:34`), and so is the list of players;
* the request is taken as a string up to its first NUL (`request.cpp:346`): a NUL in
  the head or the body ends it there (the pieces of `RequestParser` hold none);
* `route_tree_map` (`router.cpp:15`) is used by constructors of static objects in
  other files, whose order the language leaves open;
* the vectorised scan (`request.cpp:61-76`) misses 0x1F and takes bytes from 0x80
  on for control characters; the checks after it make up for both
  (`PathsAreChecked`, `PlainPathsPass`).

## 5. Proofs

Every theorem holds for all values of the constants that the named assumptions
allow. The modules:

| module | theorems | property of a run |
|---|---|---|
| `ThreadPoolProofs` | `PoolTypeOK`, `PoolQueueBounded`, `PoolExactlyOnceInOrder`, `PoolShutdownDrains`, `PoolTaskIsAnnounced`, `PoolSpaceIsAnnounced` | the properties of those names |
| | `PoolImplementsTaskQueue` | the refinement of `TaskQueue`, without its fairness |
| `HttpServerProofs` | `ServerTypeOK`, `ServerNoDescriptorLeak`, `ServerAcceptHasDescriptor` | those of `http_safety`, whatever the clients send |
| | `ServerOwnResponse`, `ServerClosedByOwner` | the other two of `http_safety`, if `AnsweredOnce` |
| | `ServerUsesPool` | the server's pool behaves as `TaskQueue` |
| | `ServerHandsOverOnce` | no connection is handed to the pool twice |
| `InstanceManagerProofs` | `ManagerTypeOK`, `ManagerOneInstanceEach`, `ManagerNoStaleElement`, `ManagerServersAreFound` | all of `manager` |
| `RequestParserProofs` | `SafePathsArePlain`, `ParserPlainPathsPass` | `PlainPathsPass` |
| `RouterProofs` | `RouterKeepsTypes`, `RouterPathsAreChecked`, `RouterPlainPathsPass`, `RouterBodyIsWhole`, `RouterRoutesAsRegistered`, `RouterAnonymousOnlyLogsIn`, `RouterCheckedPathIsUsed` | all of `routing` |
| `StartupProofs` | `StartupKeepsTypes`, `StartupCookieIsDurable`, `StartupSessionsAreDistinct`, `StartupNumbersInRange`, `StartupNoSessionRefusedEarly`, `StartupFilesKeepTheirSessions`, `StartupUntouchedIsBuiltin` | all of `startup`, the last if `LOG_PATH` is no key of the file |
| `ServerInstanceProofs` | `InstanceTypeCorrect`, `StopReachesServer` | all of `instance_safety`, the second if `NoStartBesideStop` |
| `ConsoleProofs` | `ConsoleTypeCorrect`, `SuccessIsTyped` | the safety of `console` |

Assumptions:

* `PoolAssumption`, `ServerAssumption`, `ManagerAssumption`, `AccountsAssumption`:
  finitely many workers, callers and clients, at least one worker, place and
  descriptor, and the "none" value is not one of the others. `main.cpp:237-242`
  passes a positive number of threads (a negative `-threads=` becomes a huge
  `size_t`, whose threads cannot be created) and the default of 256 places.
* `AnsweredOnce` (of `ServerOwnResponse` and `ServerClosedByOwner`): no client sends
  a request that is answered twice, a POST to an unknown route. Without it both are
  false, the first as the run `http_unknown_route` shows.
* `NoStartBesideStop` (of `StopReachesServer`): while a handler may stop the
  instance no other starts or reboots it; any number may poll or stop. Two that
  do can spoil each other's line on the shared console, by the command that
  `start_server` types without Enter.
* `"LOG_PATH" \notin FileKeys` (of `StartupUntouchedIsBuiltin`): nobody adds that
  line. The loader takes the log file from it (`utils.hpp:424`) while the setting
  is written as `LOG_FILE`, so with it a setting changes whose own line is
  untouched.
* `ParserAssumption`: the requests are paths of bytes and lengths that are numbers.
* `RouterAssumption`: no two routes of the tables name one node, their methods are
  the two that are dispatched, the login route has the path that
  `handle_post_request` excepts, and no route, page or public file has an escape in
  its name (`auth.cpp:427`, `api.cpp:783`, the folder `public`).
* `ConfigAssumption`: the options carry values of their type, and "not in the file"
  is not a name.

TLC evaluates the named ones of the modules for the instances of the runs. The three
hypotheses of single theorems hold in the instances of `http_safety`,
`instance_safety` and `startup`.

### The arguments

**Pool.** The safety properties are not inductive: that a worker leaves only when
the queue is empty, for instance, needs that `stop` is never lowered and that
nobody accepts afterwards. `PoolInv` adds `ControlInv`, which ties the program
counters to `stop`, to `current` and to `arg`, `ArgInv` (callables in the hands of
callers are new and different from each other) and `RejectedInv`. There is one
lemma per action or group of actions that touch the same variables;
what they need about sequences is stated once at the start of the module.
`PoolSpaceIsAnnounced` counts the callers that woke and have not looked yet
(`Awake`): a notification adds one exactly when a place is freed. The refinement
maps `pending` to `tasks`, `lane` to `current`, `completed` to `finished`,
`refused` to `rejected` and the phase to `stop` and the destructor's place;
waiting, waking and notifying are stutters.

**Connections.** `OwnResponse` alone says nothing of the numbers a response will
be sent to. `ServerInv` says that the kernel's table and the captured numbers
agree while a connection is open (`NumbersAgree`), where a handler's connection
can be (`HandlersHold`), what the main loop and the queue hold (`MainHolds`,
`PoolHolds`), and that an open connection is in one of these hands
(`OpenIsHeld`). It makes no assumption on the requests: a handler that closes a
number a second time may close a stranger's connection, but then that connection is
closed, not lost, so that types, leaks, the supply of descriptors and the use of the
pool do not depend on it. What does is `OnceInv`: whoever holds a connection finds
it open, and its request is his own. `CloseNumber` (closing a number frees at most
the connection that has it) and `OnceCloses` are the lemmas every close rests on.
`ServerAcceptHasDescriptor` is a counting argument on top: if no number is free,
the table is an injection into the queue and the workers' hands.

**Composition.** `PoolImplementsTaskQueue` shows that the pool of `thread_pool.hpp`
does what `TaskQueue` promises; `ServerUsesPool` shows that the server asks no more
of it: each of its steps is a step of `TaskQueue` or leaves the pool alone, and what
it enqueues is always new (`ServerHandsOverOnce`), which `Pool!Enqueue` requires.
Together they justify that `HttpServer` is checked over `TaskQueue`.

**Instance manager.** The vector is used without the mutex, and what makes that
right is `FilledInv`: unless a load found nothing, whoever is past the check is
there when no load can begin any more. `MutexInv` says that a load is alone,
`LoadInv` that it meets each directory once, `DueInv` that a server that was due
is loaded or about to be.

**Paths.** `SafePathsArePlain` is an equivalence: a byte the vectorised scan
misses (0x1F) is refused by the regular expression; a NUL, which would hide the
rest of the path from it, lies either in a whole register or in the tail, and is
caught in both, whatever `Lanes` is; and no safe byte is refused by the scan.

**Routes.** `RouterInv` is the parser's invariant, `TreeInv` and `AnswerInv`.
`TreeInv` says what the trie is between any two registrations: a node holds the
handler of the registered route it is named by, or nothing if it only lies on the
way to one. It is preserved because no two routes name one node, which is why the
order of the batches does not matter. `RouterRoutesAsRegistered` then needs that
nodes tell paths apart exactly as `getline` does, so the lemmas before it say what
segments are: each start has one end (the least place before a slash, by the
well-foundedness of the numbers), the ranks of the starts are 1 to their number
without a gap, and every unit that is no slash is in the segment of some start.
The last gives `RouterCheckedPathIsUsed`: an escape in the request would be in one
of its segments, those are the segments of a route, and routes have none.
`RouterAnonymousOnlyLogsIn` rests on `AnswerInv` and the node of the login
path; `validated` implies a session cookie, wherever the head was cut.

**Settings and sessions.** `SettingsInv` says what a file can hold, so that what
the loader makes of it has its type and limits. `SessionInv` says that handlers
only run in a process that is ready, that a row about to be inserted is not there
and has the lock, that one inserted and not yet answered with is known to its
handler alone (`PendingInv`), and that the file opened last is the one the
settings name (`FilesInv`). `StartupSessionsAreDistinct` needs the last two: a
second login in the same second finds the row and gets nothing.
`StartupFilesKeepTheirSessions` is about every file at once: the one that is opened
comes with the rows it was left with, and the one that is closed keeps its own.
`StartupUntouchedIsBuiltin` rests on `BuiltinFiles`: until the first edit, the file
of each mode is absent or what a first start writes; an edit changes one line, and
the loader treats the lines of different settings independently, but for `LOG_PATH`.

**Stopping an instance.** `StopIsHeard` is about one moment, but the input line may
have been left dirty by anyone before. `StopInv` says that from the `list` that
`is_running` enters until the `stop` is sent, the line of a stopping handler stays
clean (`LineIsClean`), because only `start_server` types without Enter (`WhoTypes`);
and that every handler is at a label of the request it serves and every call of
`is_running` returns to its caller (`InRequest`), which is what rules a starting
handler out.

**Console.** `ConsoleInv` relates a handler's place in its loop to the commands it
has typed (`op.typed`), for every length of the loop: `success` is written in one
place, after the last of them, and a refused command leads to another answer.

### What stays with TLC

* Liveness (`EveryCallReturns`, the fairness of the refinement,
  `EveryClientServed`, `StoppedIsShown`, `UpIsShown`, `BootingIsNotShownRunning`,
  `OldAnswersFade`): out of the prover's reach.
* `ENABLED`, and so that the fairness of `TaskQueue` follows from that of the
  threads.
* The violations of section 4, which a proof could not show.

Every invariant and every action property without fairness that a passing run checks
is stated by a theorem.

## 6. Not modelled

* Handlers of `api.cpp` that only read files of the server (`ops.json`, plugins,
  mods): they change no state. The shape of JSON requests and answers.
* `Panel` (`panel.js`), but for the timer that `ServerInstance` has: a click starts a
  chain of timers, each asks for the instance selected when it ends, and late
  answers overwrite what is shown. In `ServerInstance` there is one instance, and all
  chains are one. It would be a module over an abstraction of its answers. The login page, the theme and the service worker have
  no state that interacts with the rest.
* `ConsolePanel` (`panel_mc.py`): a second front end through `screen`, with waits
  that give up after 60 s and storm threads over one `config.json`; it shares
  nothing with the server but the servers' folders.
* `TaskSlot`, the life of a callable in `FixedFunction` (`thread_pool.hpp:16-42`):
  in `ThreadPool` a callable is an indivisible value.
* Data races on the plain counters of an instance (RAM, CPU, players, the list):
  in `Console` one thread polls. RAM and CPU are only shown.
* tmux's matching of session names by prefix, which would need two instances in
  one model.
* The destruction of static objects while threads run after `std::exit`, and the
  order in which the objects of different files are constructed, but for the two
  batches of routes.
* SQLite's own failures other than a lost race for the write lock, its handles,
  hashes and signatures, third-party code and the Makefile.
