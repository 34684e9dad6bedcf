------------------------------- MODULE Result -------------------------------
(***************************************************************************)
(* The result of one decision of a gate: tokenbucket.Result and            *)
(* slidingwin.Result, together with the gate's state afterwards.  The      *)
(* remaining-token and in-window estimates of the Go structs are for       *)
(* display only and are left out.                                          *)
(***************************************************************************)
EXTENDS Integers

Outcomes == {"ok", "deny", "impossible", "panic"}

Accept(s) == [st |-> s, out |-> "ok", wait |-> 0]

Refuse(s, w) == [st |-> s, out |-> "deny", wait |-> w]

\* Wait: -1, Impossible: true.
Impossible(s) == [st |-> s, out |-> "impossible", wait |-> -1]

\* The call does not return: the runtime panics and s is what it leaves behind.
Panic(s) == [st |-> s, out |-> "panic", wait |-> 0]

=============================================================================
