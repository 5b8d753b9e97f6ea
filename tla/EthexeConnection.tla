-------------------------- MODULE EthexeConnection --------------------------
(***************************************************************************)
(* The connection of getEthexeApi (src/src/services/vara-eth/api.ts): the  *)
(* validator's socket and the bootstrap of the API start together and race *)
(* one 10 s timer.  Neither half can be cancelled; disconnecting the       *)
(* provider closes a socket that is open and does not stop one that opens. *)
(***************************************************************************)
EXTENDS Naturals

\* ws, bootstrap: "none", "pending", then "open" or "done", or "failed"; result: what the
\* caller sees; socket: a socket is open; late: it opened after the other half had failed.
NoConnection ==
  [ws |-> "none", bootstrap |-> "none", timer |-> "off", result |-> "none",
   socket |-> FALSE, cached |-> FALSE, late |-> FALSE]

\* The cached instance serves every later caller.
Started(c) ==
  IF c.cached THEN c
  ELSE [NoConnection EXCEPT !.ws = "pending", !.bootstrap = "pending", !.timer = "on", !.result = "pending"]

DisconnectWs(c) == [c EXCEPT !.socket = FALSE]

\* Promise.all rejects with its first failure.
Settled(c) ==
  \/ c.ws = "failed" \/ c.bootstrap = "failed"
  \/ c.ws = "open" /\ c.bootstrap = "done"

\* Both halves are in: the timer is cleared, and a timeout's cleanup runs once more.
FinallyOnce(c) ==
  CASE c.result = "timeout" -> c
    [] c.result = "pending" /\ c.ws = "open" /\ c.bootstrap = "done" ->
         [c EXCEPT !.timer = "off", !.result = "ready", !.cached = TRUE]
    [] c.result = "pending" /\ ~(c.ws = "open" /\ c.bootstrap = "done") ->
         DisconnectWs([c EXCEPT !.timer = "off", !.result = "failed"])
Finally(c) ==
  CASE c.result = "timeout" -> DisconnectWs(c)
    [] c.result = "pending" /\ c.ws = "open" /\ c.bootstrap = "done" ->
         [c EXCEPT !.timer = "off", !.result = "ready", !.cached = TRUE]
    [] c.result = "pending" /\ ~(c.ws = "open" /\ c.bootstrap = "done") ->
         DisconnectWs([c EXCEPT !.timer = "off", !.result = "failed"])

After(c, next) == IF Settled(next) /\ ~Settled(c) THEN Finally(next) ELSE next

WsConnects(c, ok) ==
  After(c, [c EXCEPT !.ws = IF ok THEN "open" ELSE "failed", !.socket = ok, !.late = ok /\ Settled(c)])
Bootstraps(c, ok) == After(c, [c EXCEPT !.bootstrap = IF ok THEN "done" ELSE "failed"])
TimesOut(c) == DisconnectWs([c EXCEPT !.timer = "fired", !.result = "timeout"])

\* disconnectEthexeApi knows the cached connection only.
Disconnected(c) == IF c.cached THEN [DisconnectWs(c) EXCEPT !.cached = FALSE] ELSE c
=============================================================================
