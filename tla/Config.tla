-------------------------------- MODULE Config --------------------------------
(* internal/config, as far as it decides whether the marketplace is written to:
   how the environment of a process and a .env file become a configuration, which
   publisher it builds, and what the process says of that.  Of a value only what
   the code tells apart is kept: absent, empty, a word it knows, any other.    *)
CONSTANT Unset    \* a variable that is not present

Variable == {"MARKET_MODE", "MARKET_API_URL", "MARKET_WRITE_ENABLED"}

Value == {Unset, "", "live", "mock", "true", "false", "other"}

ASSUME ConfigAssumption == Unset \notin {"", "live", "mock", "true", "false", "other"}

(* What a process is started with. *)
Setting == [process: [Variable -> Value], file: [Variable -> Value]]

(* Mutant of LoadDotEnv: the file wins. *)
LoadDotEnvOverriding(s) ==
  [v \in Variable |-> IF s.file[v] # Unset THEN s.file[v] ELSE s.process[v]]

(* The file only adds variables that are not present, be they empty. *)
LoadDotEnv(s) ==
  [v \in Variable |-> IF s.process[v] # Unset THEN s.process[v] ELSE s.file[v]]

(* Every value that is neither word, the empty one included, means auto. *)
ParseMode(value) == IF value \in {"live", "mock"} THEN value ELSE "auto"

EnvBool(value) == value = "true"

Load(s) ==
  LET env == LoadDotEnv(s) IN
  [ mode |-> ParseMode(env["MARKET_MODE"]),
    url |-> env["MARKET_API_URL"] \notin {Unset, ""},
    write |-> EnvBool(env["MARKET_WRITE_ENABLED"]) ]

Resolve(mode, present) == mode = "live" \/ (mode = "auto" /\ present)

(* Mutant of MarketLive: the publisher's own gate is relied on. *)
MarketLiveByURL(c) == Resolve(c.mode, c.url) /\ c.url

(* A mode of live asks for the marketplace, and still needs the flag and a URL. *)
MarketLive(c) == Resolve(c.mode, c.url) /\ c.write /\ c.url

BuildMarketPublisher(c) ==
  IF MarketLive(c) THEN [kind |-> "http", writeEnabled |-> c.write]
  ELSE [kind |-> "log", writeEnabled |-> FALSE]

(* Sources().Market.Mode, for the console and the log. *)
MarketLabel(c) == IF MarketLive(c) THEN "live" ELSE "mock"
===============================================================================
