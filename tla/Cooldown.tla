------------------------------ MODULE Cooldown ------------------------------
(***************************************************************************)
(* What the deduplicator promises: an event passes unless an event with    *)
(* the same key passed less than the cooldown ago.                         *)
(***************************************************************************)
EXTENDS Naturals

CONSTANTS Keys, Period

VARIABLES
  now,     \* the time
  passed,  \* when events of each key passed
  answer   \* the last answer given

cooldownVars == <<now, passed, answer>>

NoAnswer == [at |-> 0]

CooldownInit ==
  /\ now = 0
  /\ passed = [k \in Keys |-> {}]
  /\ answer = NoAnswer

Recent(k) == \E t \in passed[k] : now - t < Period

Ask(k) ==
  /\ answer' = [key |-> k, at |-> now, duplicate |-> Recent(k)]
  /\ passed' = IF Recent(k) THEN passed ELSE [passed EXCEPT ![k] = @ \union {now}]
  /\ UNCHANGED now

Pass == now' = now + 1 /\ UNCHANGED <<passed, answer>>

CooldownSpec ==
  CooldownInit /\ [][Pass \/ \E k \in Keys : Ask(k)]_cooldownVars
=============================================================================
