----------------------------- MODULE MCStartup -----------------------------
(* Instances of Startup for TLC: edits and options around every limit.      *)
EXTENDS Startup, TLC

AllKeys == {"DEV_MODE", "DEBUG_MODE", "LOG_MODE", "PORT", "MAX_THREADS", "LOGIN_EXPIRATION",
            "MAX_REQ_BUF_SIZE", "SERVERS_PATH", "DB_NAME", "LOG_FILE", "DB_PATH"}

Plain == {[name |-> n, value |-> 0] : n \in {"-prod", "-nodebug", "-logfile", "-config=", "-help"}}
Valued == [name : {"PORT"}, value : {1023, 1024, 65535, 65536}]
          \cup [name : {"MAX_THREADS"}, value : {-1, 0, 1, 2, 8, 9}]
          \cup [name : {"LOGIN_EXPIRATION"}, value : {1799, 1800, 3601, 172800, 172801}]
          \cup [name : {"MAX_REQ_BUF_SIZE"}, value : {1023, 1024, 65536, 65537}]
          \cup [name : {"SERVERS_PATH", "DB_NAME", "LOG_FILE"}, value : {"given", "long"}]
AllOptions == Plain \cup Valued
(* Those that reach the sessions. *)
SessionOptions ==
  {[name |-> "DB_NAME", value |-> "given"], [name |-> "LOGIN_EXPIRATION", value |-> 3601]}

Symmetry == Permutations(Handlers) \cup Permutations(Browsers)
=============================================================================
