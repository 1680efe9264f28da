---------------------------- MODULE OrderedClient ----------------------------
(***************************************************************************)
(* What the interface Client promises its callers (src/rpc/client.ts):     *)
(* calls are delivered to the capability in the order they are made.  A    *)
(* client may hold calls back and hand them over later, it may refuse a    *)
(* call, and it may cancel everything it still holds, but it never lets a  *)
(* call overtake one made before it, and it never delivers a call twice,   *)
(* after refusing it, or after cancelling it.                              *)
(*                                                                         *)
(* This is the abstract specification; QueueClient and LocalPromise are    *)
(* the implementations checked against it.                                 *)
(***************************************************************************)
EXTENDS Sequences, Functions

CONSTANT Calls      \* the calls the program may make, each at most once

VARIABLES waiting,   \* calls accepted and held back, oldest first
          delivered, \* calls delivered to the capability, in delivery order
          dropped    \* calls refused or cancelled before delivery

vars == <<waiting, delivered, dropped>>

\* A call that has not been made yet.
Fresh(c) ==
  c \notin Range(waiting) \cup Range(delivered) \cup dropped

Init ==
  /\ waiting \in Seq(Calls)
  /\ IsInjective(waiting)
  /\ delivered = <<>>
  /\ dropped = {}

\* The call joins the calls that are held back.
Hold(c) ==
  /\ Fresh(c)
  /\ waiting' = Append(waiting, c)
  /\ UNCHANGED <<delivered, dropped>>

\* The call goes straight through: only when nothing waits in front of it.
PassThrough(c) ==
  /\ Fresh(c)
  /\ waiting = <<>>
  /\ delivered' = Append(delivered, c)
  /\ UNCHANGED <<waiting, dropped>>

Refuse(c) ==
  /\ Fresh(c)
  /\ dropped' = dropped \cup {c}
  /\ UNCHANGED <<waiting, delivered>>

Deliver ==
  /\ waiting # <<>>
  /\ delivered' = Append(delivered, Head(waiting))
  /\ waiting' = Tail(waiting)
  /\ UNCHANGED dropped

\* The client is closed or its promise broken: nothing held is delivered.
CancelWaiting ==
  /\ dropped' = dropped \cup Range(waiting)
  /\ waiting' = <<>>
  /\ UNCHANGED delivered

Next ==
  \/ \E c \in Calls : Hold(c) \/ PassThrough(c) \/ Refuse(c)
  \/ Deliver
  \/ CancelWaiting

Spec == Init /\ [][Next]_vars
=============================================================================
