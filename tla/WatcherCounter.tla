--------------------------- MODULE WatcherCounter ---------------------------
(***************************************************************************)
(* What the convergence watcher promises for one family of tools, without   *)
(* any event log: it counts consecutive failures with the same signature.   *)
(* Another signature starts over at one, a success at none; at the          *)
(* threshold the family accepts no more calls until the session ends.       *)
(***************************************************************************)
EXTENDS Naturals

CONSTANTS Signatures, NoSignature, Limit

VARIABLES last, count, blocked

vars == <<last, count, blocked>>

Init == last = NoSignature /\ count = 0 /\ blocked = FALSE

Failure(s) ==
  /\ ~blocked
  /\ last' = s
  /\ count' = IF s = last THEN count + 1 ELSE 1
  /\ blocked' = (count' >= Limit)

Success ==
  /\ ~blocked
  /\ last' = NoSignature
  /\ count' = 0
  /\ UNCHANGED blocked

\* The session ends.
Clear ==
  /\ last' = NoSignature
  /\ count' = 0
  /\ blocked' = FALSE

Next == (\E s \in Signatures : Failure(s)) \/ Success \/ Clear

Spec == Init /\ [][Next]_vars
============================================================================
