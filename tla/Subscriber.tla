----------------------------- MODULE Subscriber -----------------------------
(***************************************************************************)
(* The subscriber of App.startup (app.go:165) and the window: goroutines   *)
(* that publish an event call it at the same time; what is no duplicate is *)
(* stored and logged (Pipeline has that), buffered and shown.              *)
(***************************************************************************)
EXTENDS Deduplicator, EventFeed, FiniteSets

CONSTANTS
  Publishers,  \* the goroutines that publish
  MaxAccepted  \* bound: events that pass

ASSUME SubscriberAssumption == MaxAccepted \in Nat

VARIABLES
  at,        \* where each publisher is in the subscriber
  entry,     \* the event it carries: events that pass are numbered
  accepted,  \* how many have passed
  crossed    \* history: events met between the buffer and the wire, or one of
             \* them met the window's question

vars == <<at, entry, accepted, crossed, dedupVars, feedVars>>

Init ==
  /\ at = [p \in Publishers |-> "out"]
  /\ entry = [p \in Publishers |-> 0]
  /\ accepted = 0 /\ crossed = FALSE
  /\ DedupInit /\ FeedInit

Filter(p, k) ==
  /\ at[p] = "out"
  /\ SeenRecently(k) \/ accepted < MaxAccepted
  /\ IsDuplicate(k)
  /\ IF SeenRecently(k) THEN UNCHANGED <<at, entry, accepted>>
     ELSE /\ accepted' = accepted + 1
          /\ entry' = [entry EXCEPT ![p] = accepted + 1]
          /\ at' = [at EXCEPT ![p] = "buffer"]
  /\ UNCHANGED <<crossed, feedVars>>

BufferEvent(p) ==
  /\ at[p] = "buffer"
  /\ Buffer(entry[p])
  /\ at' = [at EXCEPT ![p] = "emit"]
  /\ crossed' = (crossed \/ \E q \in Publishers : at[q] = "emit")
  /\ UNCHANGED <<entry, accepted, dedupVars>>

EmitEvent(p) ==
  /\ at[p] = "emit"
  /\ Emit(entry[p])
  /\ at' = [at EXCEPT ![p] = "out"]
  /\ entry' = [entry EXCEPT ![p] = 0]
  /\ crossed' = (crossed \/ window = "copied")
  /\ UNCHANGED <<accepted, dedupVars>>

(* The window's steps.                                                     *)
WindowStep ==
  /\ WindowActs
  /\ crossed' = (crossed \/ (window = "asked" /\ \E p \in Publishers : at[p] = "emit"))
  /\ UNCHANGED <<at, entry, accepted, dedupVars>>

(* The clock and the deduplicator's own goroutine.                         *)
TimeStep ==
  /\ Tick \/ Cleanup
  /\ UNCHANGED <<at, entry, accepted, crossed, feedVars>>

PublisherStep(p) == BufferEvent(p) \/ EmitEvent(p) \/ \E k \in Keys : Filter(p, k)

Next == WindowStep \/ TimeStep \/ \E p \in Publishers : PublisherStep(p)

(* Publishers and window go on with what they have begun.                  *)
Spec ==
  /\ Init /\ [][Next]_vars
  /\ WF_vars(WindowStep)
  /\ \A p \in Publishers : WF_vars(BufferEvent(p) \/ EmitEvent(p))
-----------------------------------------------------------------------------
TypeOK ==
  /\ DedupTypeOK
  /\ \A p \in Publishers : /\ at[p] \in {"out", "buffer", "emit"}
                           /\ entry[p] \in 0 .. accepted
                           /\ at[p] = "out" <=> entry[p] = 0
  /\ accepted \in 0 .. MaxAccepted
  /\ window \in {"unmounted", "asked", "copied", "answered", "shown"}
  /\ Len(ring) <= RingSize /\ Len(feed) <= RingSize
  /\ ToSet(ring) \union ToSet(copy) \union ToSet(feed) \subseteq 1 .. accepted

(* A call of IsDuplicate calls an event a duplicate if and only if one of  *)
(* the same key passed less than the cooldown ago, whatever the cleanup    *)
(* has thrown away and whoever calls (dedup.go:32-79).                     *)
CooldownHolds == Abstract!CooldownSpec

(* The window shows what is buffered, whenever it was opened, unless its   *)
(* question met an event between the buffer and the wire, or two events    *)
(* met there (app.go:199-214, App.jsx:51-66).                              *)
FeedIsRing ==
  /\ window = "shown" /\ wire = <<>> /\ ~crossed
  /\ \A p \in Publishers : at[p] # "emit"
  => feed = ring

(* A window that was opened comes to show what is buffered, if neither its *)
(* question nor another event met one (App.jsx:51-66).                     *)
WindowCatchesUp ==
  []<>(window = "unmounted" \/ crossed \/ (window = "shown" /\ feed = ring))
=============================================================================
