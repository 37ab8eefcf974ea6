----------------------------- MODULE MCPublisher ------------------------------
(* Three positions, two quotes, and the settings that the configuration tells apart:
   none; the marketplace opted in, by the process or by the file; a mode of live
   that lacks the flag, or the URL; an opt-in of the file that the process revokes,
   with an empty value, with a word that is none, with the mode.               *)
EXTENDS Publisher, TLC

CONSTANTS a, b, c, q1, q2

Vars(mode, url, write) ==
  [v \in Variable |-> CASE v = "MARKET_MODE" -> mode
                        [] v = "MARKET_API_URL" -> url
                        [] v = "MARKET_WRITE_ENABLED" -> write]

Absent == Vars(Unset, Unset, Unset)
OptIn == Vars(Unset, "other", "true")

MCSettings ==
  { [process |-> Absent, file |-> Absent],
    [process |-> OptIn, file |-> Absent],
    [process |-> Vars("other", Unset, Unset), file |-> OptIn],
    [process |-> Vars("live", "other", Unset), file |-> Absent],
    [process |-> Vars("live", "", "true"), file |-> OptIn],
    [process |-> Vars(Unset, Unset, ""), file |-> OptIn],
    [process |-> Vars("live", Unset, "other"), file |-> OptIn],
    [process |-> Vars("mock", Unset, Unset), file |-> OptIn] }

Same == Permutations({a, b, c}) \cup Permutations({q1, q2})
===============================================================================
