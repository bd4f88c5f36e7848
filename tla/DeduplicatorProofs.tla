------------------------- MODULE DeduplicatorProofs -------------------------
(***************************************************************************)
(* The deduplicator, with a map that is cleared behind its back, answers   *)
(* as one that remembers every event would.                                *)
(***************************************************************************)
EXTENDS Deduplicator, TLAPS

(* The map has the last pass of a key, or none if that is long past.       *)
MapIsEnough ==
  \A k \in Keys :
    IF k \in DOMAIN lastSeen
    THEN lastSeen[k] \in passed[k] /\ \A t \in passed[k] : t <= lastSeen[k]
    ELSE \A t \in passed[k] : t + Period <= now

(* Passes of one key are a cooldown apart.                                 *)
PassesApart ==
  \A k \in Keys : \A s, t \in passed[k] : s < t => s + Period <= t

DedupTypes ==
  /\ now \in Nat
  /\ DOMAIN lastSeen \subseteq Keys
  /\ lastSeen = [k \in DOMAIN lastSeen |-> lastSeen[k]]
  /\ \A k \in DOMAIN lastSeen : lastSeen[k] \in Nat
  /\ passed \in [Keys -> SUBSET Nat]
  /\ \A k \in Keys : \A t \in passed[k] : t <= now

DedupInv == DedupTypes /\ MapIsEnough /\ PassesApart

(* The map answers as the history does.                                    *)
LEMMA SeenIsRecent ==
  ASSUME DedupInv, NEW k \in Keys
  PROVE  SeenRecently(k) <=> Abstract!Recent(k)
  <1> USE DeduplicatorAssumption DEF DedupInv, DedupTypes
  <1>1. CASE k \in DOMAIN lastSeen
    <2>1. lastSeen[k] \in passed[k] /\ \A t \in passed[k] : t <= lastSeen[k]
      BY <1>1 DEF MapIsEnough
    <2>2. lastSeen[k] \in Nat /\ passed[k] \subseteq Nat
      BY <1>1
    <2> QED
      BY <1>1, <2>1, <2>2 DEF SeenRecently, Abstract!Recent
  <1>2. CASE k \notin DOMAIN lastSeen
    <2>1. \A t \in passed[k] : t \in Nat /\ t + Period <= now
      BY <1>2 DEF MapIsEnough
    <2> QED
      BY <1>2, <2>1 DEF SeenRecently, Abstract!Recent
  <1> QED
    BY <1>1, <1>2

LEMMA DedupInitial == DedupInit => DedupInv /\ Abstract!CooldownInit
  BY DEF DedupInit, DedupInv, DedupTypes, MapIsEnough, PassesApart,
     Abstract!CooldownInit, Abstract!NoAnswer

LEMMA DuplicateStep ==
  ASSUME DedupInv, NEW k \in Keys, IsDuplicate(k)
  PROVE  DedupInv' /\ Abstract!Ask(k)
  <1> USE DeduplicatorAssumption DEF DedupInv
  <1>1. SeenRecently(k) <=> Abstract!Recent(k)
    BY SeenIsRecent
  <1>2. Abstract!Ask(k)
    <2>1. SeenRecently(k) \in BOOLEAN /\ Abstract!Recent(k) \in BOOLEAN
      BY DEF SeenRecently, Abstract!Recent
    <2>2. SeenRecently(k) = Abstract!Recent(k)
      BY <1>1, <2>1
    <2> QED
      BY <2>2 DEF IsDuplicate, Abstract!Ask
  <1>3. CASE SeenRecently(k)
    <2>1. UNCHANGED <<lastSeen, now, passed>>
      BY <1>3 DEF IsDuplicate
    <2>2. DedupTypes'
      BY <2>1 DEF DedupTypes
    <2>3. MapIsEnough' /\ PassesApart'
      BY <2>1 DEF MapIsEnough, PassesApart
    <2> QED
      BY <1>2, <2>2, <2>3
  <1>4. CASE ~SeenRecently(k)
    <2>1. /\ lastSeen' = [j \in DOMAIN lastSeen \union {k} |->
                            IF j = k THEN now ELSE lastSeen[j]]
          /\ passed' = [passed EXCEPT ![k] = @ \union {now}]
          /\ now' = now
      BY <1>4 DEF IsDuplicate
    <2>2. \A t \in passed[k] : t \in Nat /\ t + Period <= now
      BY <1>1, <1>4 DEF Abstract!Recent, DedupTypes
    <2>3. passed'[k] = passed[k] \union {now}
          /\ \A j \in Keys \ {k} : passed'[j] = passed[j]
      BY <2>1 DEF DedupTypes
    <2>4. DedupTypes'
      BY <2>1, <2>3 DEF DedupTypes
    <2>5. MapIsEnough'
      BY <2>1, <2>3 DEF DedupTypes, MapIsEnough
    <2>6. PassesApart'
      <3> SUFFICES ASSUME NEW j \in Keys, NEW s \in passed'[j], NEW t \in passed'[j], s < t
                   PROVE  s + Period <= t
        BY DEF PassesApart
      <3>1. CASE j # k
        BY <2>3, <3>1 DEF PassesApart
      <3>2. CASE j = k /\ t = now
        BY <2>2, <2>3, <3>2 DEF DedupTypes
      <3>3. CASE j = k /\ t # now
        BY <2>2, <2>3, <3>3 DEF DedupTypes, PassesApart
      <3> QED
        BY <3>1, <3>2, <3>3
    <2> QED
      BY <1>2, <2>4, <2>5, <2>6
  <1> QED
    BY <1>2, <1>3, <1>4

LEMMA CleanupStep ==
  ASSUME DedupInv, Cleanup
  PROVE  DedupInv' /\ UNCHANGED Abstract!cooldownVars
  <1> USE DeduplicatorAssumption DEF DedupInv, Cleanup
  <1>1. DedupTypes' /\ PassesApart'
    BY DEF DedupTypes, PassesApart
  <1>2. MapIsEnough'
    <2> SUFFICES ASSUME NEW k \in Keys
                 PROVE  IF k \in DOMAIN lastSeen'
                        THEN lastSeen'[k] \in passed[k] /\ \A t \in passed[k] : t <= lastSeen'[k]
                        ELSE \A t \in passed[k] : t + Period <= now
      BY DEF MapIsEnough
    <2>1. CASE k \in DOMAIN lastSeen /\ Stale(k)
      BY <2>1 DEF DedupTypes, MapIsEnough, Stale
    <2>2. CASE k \in DOMAIN lastSeen /\ ~Stale(k)
      BY <2>2 DEF DedupTypes, MapIsEnough
    <2>3. CASE k \notin DOMAIN lastSeen
      BY <2>3 DEF DedupTypes, MapIsEnough
    <2> QED
      BY <2>1, <2>2, <2>3
  <1> QED
    BY <1>1, <1>2 DEF Abstract!cooldownVars

LEMMA TickStep ==
  ASSUME DedupInv, Tick
  PROVE  DedupInv' /\ Abstract!Pass
  <1> USE DeduplicatorAssumption DEF DedupInv, Tick
  <1>1. DedupTypes'
    BY DEF DedupTypes
  <1>2. MapIsEnough' /\ PassesApart'
    BY DEF DedupTypes, MapIsEnough, PassesApart
  <1> QED
    BY <1>1, <1>2 DEF Abstract!Pass

LEMMA DedupUnchanged == DedupInv /\ UNCHANGED dedupVars
                        => DedupInv' /\ UNCHANGED Abstract!cooldownVars
  BY DEF DedupInv, DedupTypes, MapIsEnough, PassesApart, dedupVars,
     Abstract!cooldownVars

LEMMA DedupStep == DedupInv /\ [DedupNext]_dedupVars
  => DedupInv' /\ [Abstract!Pass \/ \E k \in Keys : Abstract!Ask(k)]_(Abstract!cooldownVars)
  BY DuplicateStep, CleanupStep, TickStep, DedupUnchanged DEF DedupNext

(* Whatever it is called with, and whenever the cleanup runs, the          *)
(* deduplicator answers as the one of Cooldown does (dedup.go:32-79).      *)
THEOREM DedupImplementsCooldown == DedupSpec => Abstract!CooldownSpec
  BY DedupInitial, DedupStep, PTL DEF DedupSpec, Abstract!CooldownSpec

(* Two events of the same key that pass are a cooldown apart.              *)
THEOREM DedupInvariance == DedupSpec => []PassesApart
  <1>1. DedupInv => PassesApart
    BY DEF DedupInv
  <1> QED
    BY <1>1, DedupInitial, DedupStep, PTL DEF DedupSpec
-----------------------------------------------------------------------------
(* Types, for the modules that have a deduplicator.                        *)
LEMMA DedupTypeInitial == DedupInit => DedupTypeOK
  BY DEF DedupInit, DedupTypeOK

LEMMA DuplicateTypes ==
  ASSUME DedupTypeOK, NEW k \in Keys, IsDuplicate(k)
  PROVE  DedupTypeOK'
  <1>1. now' = now /\ now \in Nat
    BY DEF DedupTypeOK, IsDuplicate
  <1>2. /\ DOMAIN lastSeen' \subseteq Keys
        /\ \A j \in DOMAIN lastSeen' : lastSeen'[j] \in 0 .. now
    BY <1>1 DEF DedupTypeOK, IsDuplicate
  <1>3. passed' \in [Keys -> SUBSET (0 .. now)]
    BY <1>1 DEF DedupTypeOK, IsDuplicate
  <1>4. SeenRecently(k) \in BOOLEAN
    BY DEF SeenRecently
  <1>5. answer'.key \in Keys /\ answer'.at \in 0 .. now /\ answer'.duplicate \in BOOLEAN
    BY <1>1, <1>4 DEF IsDuplicate
  <1> QED
    BY <1>1, <1>2, <1>3, <1>5 DEF DedupTypeOK

LEMMA TimeTypes ==
  ASSUME DedupTypeOK, Tick \/ Cleanup
  PROVE  DedupTypeOK'
  <1>1. CASE Tick
    <2>1. now' = now + 1 /\ now \in Nat /\ UNCHANGED <<lastSeen, passed, answer>>
      BY <1>1 DEF DedupTypeOK, Tick
    <2>2. 0 .. now \subseteq 0 .. now + 1
      BY <2>1
    <2>3. passed \in [Keys -> SUBSET (0 .. now + 1)]
      BY <2>2 DEF DedupTypeOK
    <2> QED
      BY <2>1, <2>2, <2>3 DEF DedupTypeOK, Abstract!NoAnswer
  <1>2. CASE Cleanup
    BY <1>2 DEF DedupTypeOK, Cleanup, Abstract!NoAnswer
  <1> QED
    BY <1>1, <1>2

LEMMA DedupTypesUnchanged == DedupTypeOK /\ UNCHANGED dedupVars => DedupTypeOK'
  BY DEF DedupTypeOK, dedupVars, Abstract!NoAnswer
=============================================================================
