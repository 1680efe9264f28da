----------------------------- MODULE CallService -----------------------------
(***************************************************************************)
(* What a connection promises the application that calls through it.      *)
(*                                                                         *)
(* A call is made once and ends once: it succeeds, only after the callee   *)
(* has run it and with its own results, or it fails.  The callee runs a    *)
(* call at most once.  Calls made through the same promise are run in the  *)
(* order they were made, whether they were sent before or after the        *)
(* promise was resolved (E-order).                                         *)
(***************************************************************************)
EXTENDS Sequences, Functions

CONSTANTS Calls, None

VARIABLES status, \* how the caller sees the call
          made,   \* [through |-> promise, call |-> c], in the order of the calls
          ran     \* the calls the callee ran, in order

vars == <<status, made, ran>>

Init ==
  /\ status = [c \in Calls |-> "idle"]
  /\ made = <<>>
  /\ ran = <<>>

\* Through promise p, or (p = None) as a bootstrap request.
Make(c, p) ==
  /\ status[c] = "idle"
  /\ status' = [status EXCEPT ![c] = "open"]
  /\ made' = Append(made, [through |-> p, call |-> c])
  /\ UNCHANGED ran

\* The promise is broken or the connection closed: nothing is sent.
MakeFails(c) ==
  /\ status[c] = "idle"
  /\ status' = [status EXCEPT ![c] = "failed"]
  /\ UNCHANGED <<made, ran>>

\* No call made later through the same promise has run.
InOrder(i) ==
  \A j \in DOMAIN made :
    j > i /\ made[j].through = made[i].through => made[j].call \notin Range(ran)

\* A call the caller has given up may still run.
Run(i) ==
  /\ made[i].call \notin Range(ran)
  /\ InOrder(i)
  /\ ran' = Append(ran, made[i].call)
  /\ UNCHANGED <<status, made>>

Succeed(c) ==
  /\ status[c] = "open"
  /\ c \in Range(ran)
  /\ status' = [status EXCEPT ![c] = "ok"]
  /\ UNCHANGED <<made, ran>>

\* One connection error fails every open call at once.
Fail(C) ==
  /\ C # {}
  /\ \A c \in C : status[c] = "open"
  /\ status' = [c \in Calls |-> IF c \in C THEN "failed" ELSE status[c]]
  /\ UNCHANGED <<made, ran>>

Next ==
  \/ \E c \in Calls, p \in Calls \cup {None} : Make(c, p)
  \/ \E c \in Calls : MakeFails(c) \/ Succeed(c)
  \/ \E i \in DOMAIN made : Run(i)
  \/ \E C \in SUBSET Calls : Fail(C)

Spec == Init /\ [][Next]_vars
=============================================================================
