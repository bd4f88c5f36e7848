---------------------------- MODULE Deduplicator ----------------------------
(***************************************************************************)
(* events.Deduplicator (dedup.go): the time each key last passed, in a map *)
(* that a goroutine of its own clears of what is long past.  The lock      *)
(* makes each of the two a single step.                                    *)
(***************************************************************************)
EXTENDS Naturals

CONSTANTS
  Keys,      \* the fingerprints of events: type and data, not the time
  Period,    \* Deduplicator.cooldown, 10 seconds in the code
  MaxTime    \* bound: how long time goes on

ASSUME DeduplicatorAssumption == Period \in Nat \ {0} /\ MaxTime \in Nat

VARIABLES
  lastSeen,  \* Deduplicator.seen
  now,       \* the monotonic clock
  passed,    \* history: when events of each key passed
  answer     \* history: the last answer of IsDuplicate

dedupVars == <<lastSeen, now, passed, answer>>

Abstract == INSTANCE Cooldown

DedupInit ==
  /\ lastSeen = [k \in {} |-> 0]
  /\ now = 0
  /\ passed = [k \in Keys |-> {}]
  /\ answer = Abstract!NoAnswer

\* Mutant: whatever is in the map is a duplicate until the next cleanup.
SeenRecentlyInMap(k) == k \in DOMAIN lastSeen

\* Mutant: the comparison the wrong way round.
SeenLongAgo(k) == k \in DOMAIN lastSeen /\ now - lastSeen[k] > Period

SeenRecently(k) == k \in DOMAIN lastSeen /\ now - lastSeen[k] < Period

IsDuplicate(k) ==
  /\ answer' = [key |-> k, at |-> now, duplicate |-> SeenRecently(k)]
  /\ IF SeenRecently(k) THEN UNCHANGED <<lastSeen, passed>>
     ELSE /\ lastSeen' = [j \in DOMAIN lastSeen \union {k} |->
                            IF j = k THEN now ELSE lastSeen[j]]
          /\ passed' = [passed EXCEPT ![k] = @ \union {now}]
  /\ UNCHANGED now

(* Entries older than twice the cooldown are deleted.                      *)
Stale(k) == lastSeen[k] + 2 * Period < now

Cleanup ==
  /\ lastSeen' = [k \in {k \in DOMAIN lastSeen : ~Stale(k)} |-> lastSeen[k]]
  /\ UNCHANGED <<now, passed, answer>>

Tick ==
  /\ now < MaxTime
  /\ now' = now + 1
  /\ UNCHANGED <<lastSeen, passed, answer>>

DedupNext == Cleanup \/ Tick \/ \E k \in Keys : IsDuplicate(k)

DedupSpec == DedupInit /\ [][DedupNext]_dedupVars

DedupTypeOK ==
  /\ DOMAIN lastSeen \subseteq Keys
  /\ \A k \in DOMAIN lastSeen : lastSeen[k] \in 0 .. now
  /\ now \in Nat
  /\ passed \in [Keys -> SUBSET (0 .. now)]
  /\ answer # Abstract!NoAnswer =>
       answer.key \in Keys /\ answer.at \in 0 .. now /\ answer.duplicate \in BOOLEAN
=============================================================================
