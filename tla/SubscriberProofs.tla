-------------------------- MODULE SubscriberProofs --------------------------
(***************************************************************************)
(* The subscriber keeps the promise of Cooldown whoever publishes, and a   *)
(* window that opens while events pass shows what is buffered, unless an   *)
(* event was between the buffer and the wire when it asked or when another *)
(* one came.                                                               *)
(***************************************************************************)
EXTENDS Subscriber, DeduplicatorProofs, SequenceTheorems

LEMMA InitDedup == Init => DedupInit
  BY DEF Init

LEMMA NextDedup == [Next]_vars => [DedupNext]_dedupVars
  <1> SUFFICES ASSUME [Next]_vars PROVE [DedupNext]_dedupVars
    OBVIOUS
  <1>1. CASE WindowStep
    BY <1>1 DEF WindowStep
  <1>2. CASE TimeStep
    BY <1>2 DEF TimeStep, DedupNext
  <1>3. ASSUME NEW p \in Publishers, PublisherStep(p)
        PROVE  [DedupNext]_dedupVars
    BY <1>3 DEF PublisherStep, BufferEvent, EmitEvent, Filter, DedupNext
  <1>4. CASE UNCHANGED vars
    BY <1>4 DEF vars
  <1> QED
    BY <1>1, <1>2, <1>3, <1>4 DEF Next

(* Events of one key that pass are a cooldown apart, and an event is       *)
(* dropped only for one that passed less than a cooldown before, with the  *)
(* publishers and the cleanup in any order (app.go:165-176, dedup.go).     *)
THEOREM SubscriberKeepsCooldown == Spec => CooldownHolds
  BY InitDedup, NextDedup, DedupInitial, DedupStep, PTL
     DEF Spec, CooldownHolds, Abstract!CooldownSpec
-----------------------------------------------------------------------------
(* s is what a list of at most RingSize has of the first m of h.           *)
Shows(s, h, m) ==
  /\ s \in Seq(Nat)
  /\ Len(s) = IF m <= RingSize THEN m ELSE RingSize
  /\ \A i \in 1 .. Len(s) : s[i] = h[m - Len(s) + i]

LEMMA ShowsUnique ==
  ASSUME NEW h \in Seq(Nat), NEW m \in Nat, NEW s, NEW t, Shows(s, h, m), Shows(t, h, m)
  PROVE  s = t
  <1> USE RingSizeAssumption
  <1>1. s \in Seq(Nat) /\ t \in Seq(Nat) /\ Len(s) = Len(t)
    BY DEF Shows
  <1>2. \A i \in 1 .. Len(s) : s[i] = t[i]
    BY <1>1 DEF Shows
  <1> QED
    BY <1>1, <1>2, SeqEqual

(* A list that shows the first m comes to show one more.                   *)
LEMMA SuffixShows ==
  ASSUME NEW h \in Seq(Nat), NEW m \in Nat, m < Len(h), NEW s, Shows(s, h, m)
  PROVE  Shows(Suffix(s \o <<h[m + 1]>>, RingSize), h, m + 1)
  <1> USE RingSizeAssumption
  <1> DEFINE t == s \o <<h[m + 1]>>
  <1> SUFFICES Shows(Suffix(t, RingSize), h, m + 1)
    OBVIOUS
  <1>1. s \in Seq(Nat) /\ h[m + 1] \in Nat
    BY DEF Shows
  <1>2. /\ t \in Seq(Nat) /\ Len(t) = Len(s) + 1
        /\ \A i \in 1 .. Len(s) : t[i] = s[i]
        /\ t[Len(s) + 1] = h[m + 1]
    BY <1>1
  <1> HIDE DEF t
  <1>3. \A i \in 1 .. Len(t) : t[i] = h[m + 1 - Len(t) + i]
    <2> SUFFICES ASSUME NEW i \in 1 .. Len(t) PROVE t[i] = h[m + 1 - Len(t) + i]
      OBVIOUS
    <2>1. CASE i = Len(s) + 1
      BY <1>1, <1>2, <2>1
    <2>2. CASE i # Len(s) + 1
      <3>1. i \in 1 .. Len(s) /\ m - Len(s) + i = m + 1 - Len(t) + i
        BY <1>1, <1>2, <2>2
      <3> QED
        BY <1>2, <3>1 DEF Shows
    <2> QED
      BY <2>1, <2>2
  <1>4. CASE Len(t) <= RingSize
    <2>1. Suffix(t, RingSize) = t
      BY <1>2, <1>4 DEF Suffix
    <2>2. Len(t) = m + 1
      BY <1>1, <1>2, <1>4 DEF Shows
    <2>3. Len(t) = IF m + 1 <= RingSize THEN m + 1 ELSE RingSize
      BY <1>4, <2>2
    <2>4. \A i \in 1 .. Len(t) : t[i] = h[(m + 1) - Len(t) + i]
      BY <1>3
    <2>5. t \in Seq(Nat)
      BY <1>2
    <2>6. Shows(t, h, m + 1)
      BY <2>3, <2>4, <2>5, SMTT(30) DEF Shows
    <2> QED
      BY <2>1, <2>6
  <1>5. CASE ~(Len(t) <= RingSize)
    <2>1. RingSize <= m /\ Len(t) = RingSize + 1
      BY <1>1, <1>2, <1>5 DEF Shows
    <2> DEFINE u == SubSeq(t, 2, RingSize + 1)
    <2>2. Suffix(t, RingSize) = u
      <3>1. Len(t) - RingSize + 1 = 2
        BY <2>1
      <3> QED
        BY <1>5, <2>1, <3>1 DEF Suffix
    <2>3. u \in Seq(Nat) /\ Len(u) = RingSize /\ \A i \in 1 .. RingSize : u[i] = t[i + 1]
      BY <1>2, <2>1
    <2> HIDE DEF u
    <2>4. \A i \in 1 .. RingSize : u[i] = h[m + 1 - RingSize + i]
      <3> SUFFICES ASSUME NEW i \in 1 .. RingSize PROVE u[i] = h[m + 1 - RingSize + i]
        OBVIOUS
      <3>1. i + 1 \in 1 .. Len(t) /\ m + 1 - Len(t) + (i + 1) = m + 1 - RingSize + i
        BY <2>1
      <3> QED
        BY <1>3, <2>3, <3>1
    <2>5. Len(u) = IF m + 1 <= RingSize THEN m + 1 ELSE RingSize
      BY <2>1, <2>3
    <2>6. \A i \in 1 .. Len(u) : u[i] = h[m + 1 - Len(u) + i]
      BY <2>3, <2>4
    <2>7. u \in Seq(Nat)
      BY <2>3
    <2>8. Shows(u, h, m + 1)
      BY <2>5, <2>6, <2>7, SMTT(30) DEF Shows
    <2> QED
      BY <2>2, <2>8
  <1> QED
    BY <1>4, <1>5

(* What is shown stays so when the history grows.                          *)
LEMMA ShowsKept ==
  ASSUME NEW h \in Seq(Nat), NEW m \in Nat, m <= Len(h), NEW s, Shows(s, h, m), NEW e \in Nat
  PROVE  Shows(s, Append(h, e), m)
  <1> USE RingSizeAssumption
  <1>1. \A j \in 1 .. Len(h) : Append(h, e)[j] = h[j]
    OBVIOUS
  <1>2. \A i \in 1 .. Len(s) : m - Len(s) + i \in 1 .. Len(h)
    BY DEF Shows
  <1>3. \A i \in 1 .. Len(s) : s[i] = Append(h, e)[m - Len(s) + i]
    BY <1>1, <1>2 DEF Shows
  <1> QED
    BY <1>3 DEF Shows

(* Buffer makes room as Suffix does.                                       *)
LEMMA BufferIsSuffix ==
  ASSUME NEW s \in Seq(Nat), Len(s) <= RingSize, NEW e \in Nat
  PROVE  Append(IF Len(s) >= RingSize THEN Tail(s) ELSE s, e) = Suffix(s \o <<e>>, RingSize)
  <1> USE RingSizeAssumption
  <1> DEFINE t == s \o <<e>>
  <1> SUFFICES Append(IF Len(s) >= RingSize THEN Tail(s) ELSE s, e) = Suffix(t, RingSize)
    OBVIOUS
  <1>1. /\ t \in Seq(Nat) /\ Len(t) = Len(s) + 1
        /\ \A i \in 1 .. Len(s) : t[i] = s[i]
        /\ t[Len(s) + 1] = e
    OBVIOUS
  <1> HIDE DEF t
  <1>2. CASE Len(s) < RingSize
    <2>1. Append(s, e) = t
      BY <1>1, SeqEqual, Append(s, e) \in Seq(Nat), Len(Append(s, e)) = Len(t),
         \A i \in 1 .. Len(t) : Append(s, e)[i] = t[i]
    <2>2. Suffix(t, RingSize) = t
      BY <1>1, <1>2 DEF Suffix
    <2> QED
      BY <1>2, <2>1, <2>2
  <1>3. CASE Len(s) = RingSize
    <2> DEFINE u == SubSeq(t, 2, RingSize + 1)
               v == Append(Tail(s), e)
    <2>1. Suffix(t, RingSize) = u
      <3>1. Len(t) - RingSize + 1 = 2 /\ ~(Len(t) <= RingSize)
        BY <1>1, <1>3
      <3> QED
        BY <1>1, <1>3, <3>1 DEF Suffix
    <2>2. v \in Seq(Nat) /\ Len(v) = RingSize
      BY <1>3
    <2>3. u \in Seq(Nat) /\ Len(u) = RingSize
      BY <1>1, <1>3
    <2>4. \A i \in 1 .. RingSize : v[i] = u[i]
      BY <1>1, <1>3
    <2>5. v = u
      BY <2>2, <2>3, <2>4, SeqEqual
    <2> QED
      BY <1>3, <2>1, <2>5
  <1> QED
    BY <1>2, <1>3
-----------------------------------------------------------------------------
Messages == [kind : {"event", "buffer"}, ids : Seq(Nat)]

FeedTypes ==
  /\ at \in [Publishers -> {"out", "buffer", "emit"}]
  /\ entry \in [Publishers -> Nat] /\ accepted \in Nat
  /\ window \in {"unmounted", "asked", "copied", "answered", "shown"}
  /\ copy \in Seq(Nat) /\ feed \in Seq(Nat) /\ buffered \in Seq(Nat)
  /\ wire \in Seq(Messages)

(* The buffer has the last of what was buffered.                           *)
RingShows == Shows(ring, buffered, Len(buffered))

Emitting == \E p \in Publishers : at[p] = "emit"

(* The event last buffered alone may be on its way to the wire.            *)
OneEmits ==
  /\ \A p, q \in Publishers : at[p] = "emit" /\ at[q] = "emit" => p = q
  /\ \A p \in Publishers : at[p] = "emit" =>
       Len(buffered) > 0 /\ entry[p] = buffered[Len(buffered)]

Sent == IF Emitting THEN Len(buffered) - 1 ELSE Len(buffered)

(* From its b-th message on, w has the last of the first n events of h.    *)
Carries(w, b, h, n) ==
  /\ b \in 0 .. Len(w) /\ Len(w) - b <= n
  /\ \A i \in b + 1 .. Len(w) : w[i].kind = "event" /\ w[i].ids = <<h[n - Len(w) + i]>>

(* The answer is the b-th message of w: what it has and what follows it    *)
(* are the first n events of h.                                            *)
Answers(w, b, h, n) ==
  /\ b \in 1 .. Len(w) /\ w[b].kind = "buffer"
  /\ \A i \in 1 .. b - 1 : w[i].kind = "event"
  /\ Carries(w, b, h, n)
  /\ Shows(w[b].ids, h, n - (Len(w) - b))

Catches(w, f, h, n) == Carries(w, 0, h, n) /\ Shows(f, h, n - Len(w))

(* What the window has, with what is on its way, is what was sent.         *)
WindowShows ==
  /\ window = "unmounted" => wire = <<>>
  /\ window \in {"asked", "copied"} => \A i \in 1 .. Len(wire) : wire[i].kind = "event"
  /\ window = "copied" => Shows(copy, buffered, Sent)
  /\ window = "answered" => \E b \in 1 .. Len(wire) : Answers(wire, b, buffered, Sent)
  /\ window = "shown" => Catches(wire, feed, buffered, Sent)

FeedInv == FeedTypes /\ RingShows /\ (~crossed => OneEmits /\ WindowShows)

LEMMA FeedInvEnough == FeedInv => FeedIsRing
  <1> SUFFICES ASSUME FeedInv, window = "shown", wire = <<>>, ~crossed,
                      \A p \in Publishers : at[p] # "emit"
               PROVE  feed = ring
    BY DEF FeedIsRing
  <1>1. buffered \in Seq(Nat) /\ Len(buffered) \in Nat /\ Len(wire) = 0
    BY DEF FeedInv, FeedTypes
  <1>2. Sent = Len(buffered)
    BY DEF Sent, Emitting
  <1>3. Shows(feed, buffered, Sent - Len(wire))
    BY DEF FeedInv, WindowShows, Catches
  <1>4. Sent - Len(wire) = Len(buffered)
    BY <1>1, <1>2
  <1>5. Shows(feed, buffered, Len(buffered))
    BY <1>3, <1>4
  <1> QED
    BY <1>1, <1>5, ShowsUnique DEF FeedInv, RingShows

LEMMA FeedInitial == Init => FeedInv
  <1> SUFFICES ASSUME Init PROVE FeedInv
    OBVIOUS
  <1>1. FeedTypes
    BY <<>> \in Seq(Nat), <<>> \in Seq(Messages) DEF Init, FeedInit, FeedTypes
  <1>2. RingShows
    BY RingSizeAssumption DEF Init, FeedInit, RingShows, Shows
  <1>3. OneEmits /\ WindowShows
    BY DEF Init, FeedInit, OneEmits, WindowShows
  <1> QED
    BY <1>1, <1>2, <1>3 DEF FeedInv

(* An event is buffered: it is not sent yet.                               *)
LEMMA BufferStep ==
  ASSUME FeedInv, NEW p \in Publishers, BufferEvent(p)
  PROVE  FeedInv'
  <1> USE RingSizeAssumption DEF FeedInv
  <1> DEFINE e == entry[p]
             n == Len(buffered)
  <1>1. /\ at[p] = "buffer" /\ at' = [at EXCEPT ![p] = "emit"]
        /\ ring' = Append(IF Len(ring) >= RingSize THEN Tail(ring) ELSE ring, e)
        /\ buffered' = Append(buffered, e)
        /\ UNCHANGED <<window, copy, wire, feed, entry, accepted>>
    BY DEF BufferEvent, Buffer
  <1>2. ~crossed' => ~crossed /\ \A q \in Publishers : at[q] # "emit"
    BY Zenon DEF BufferEvent
  <1>3. e \in Nat /\ n \in Nat /\ buffered \in Seq(Nat) /\ buffered' \in Seq(Nat)
        /\ Len(buffered') = n + 1 /\ buffered'[n + 1] = e
        /\ \A i \in 1 .. n : buffered'[i] = buffered[i]
    BY <1>1 DEF FeedTypes
  <1>4. RingShows'
    <2>1. ring \in Seq(Nat) /\ Len(ring) <= RingSize
      BY <1>3 DEF RingShows, Shows
    <2>2. ring' = Suffix(ring \o <<e>>, RingSize)
      BY <1>1, <1>3, <2>1, BufferIsSuffix
    <2>3. Shows(ring, buffered', n)
      BY <1>1, <1>3, ShowsKept DEF RingShows
    <2>4. Shows(Suffix(ring \o <<buffered'[n + 1]>>, RingSize), buffered', n + 1)
      BY <1>3, <2>3, SuffixShows
    <2> QED
      BY <1>3, <2>2, <2>4 DEF RingShows
  <1>5. FeedTypes'
    BY <1>1, <1>3 DEF FeedTypes
  <1>6. ASSUME ~crossed' PROVE OneEmits' /\ WindowShows'
    <2>1. OneEmits /\ WindowShows /\ \A q \in Publishers : at[q] # "emit"
      BY <1>2, <1>6
    <2>2. \A q \in Publishers : at'[q] = "emit" <=> q = p
      BY <1>1, <2>1 DEF FeedTypes
    <2>3. Sent = n /\ Sent' = n
      BY <1>3, <2>1, <2>2 DEF Sent, Emitting
    <2>4. OneEmits'
      BY <1>1, <1>3, <2>2 DEF OneEmits
    <2>5. ASSUME window = "copied" PROVE Shows(copy, buffered', n)
      <3>1. Shows(copy, buffered, n) /\ n <= Len(buffered)
        BY <1>3, <2>1, <2>3, <2>5 DEF WindowShows
      <3>2. Shows(copy, Append(buffered, e), n)
        BY <1>3, <3>1, ShowsKept
      <3> QED
        BY <1>1, <3>2
    <2>6. ASSUME NEW b \in 0 .. Len(wire), Carries(wire, b, buffered, n)
          PROVE  Carries(wire, b, buffered', n)
      <3>1. Len(wire) \in Nat
        BY DEF FeedTypes
      <3>2. \A i \in b + 1 .. Len(wire) : n - Len(wire) + i \in 1 .. n
        BY <1>3, <2>6, <3>1 DEF Carries
      <3> QED
        BY <1>3, <2>6, <3>2 DEF Carries
    <2>7. ASSUME window = "answered"
          PROVE  \E b \in 1 .. Len(wire) : Answers(wire, b, buffered', n)
      <3>1. PICK b \in 1 .. Len(wire) : Answers(wire, b, buffered, n)
        BY <2>1, <2>3, <2>7 DEF WindowShows
      <3>2. b \in 0 .. Len(wire) /\ n - (Len(wire) - b) \in Nat /\ n - (Len(wire) - b) <= n
        BY <1>3, <3>1 DEF Answers, Carries, FeedTypes
      <3>3. Carries(wire, b, buffered', n)
        BY <2>6, <3>1, <3>2 DEF Answers
      <3>4. Shows(wire[b].ids, buffered', n - (Len(wire) - b))
        BY <1>1, <1>3, <3>1, <3>2, ShowsKept DEF Answers
      <3> QED
        BY <3>1, <3>3, <3>4 DEF Answers
    <2>8. ASSUME window = "shown"
          PROVE  Catches(wire, feed, buffered', n)
      <3>1. Catches(wire, feed, buffered, n)
        BY <2>1, <2>3, <2>8 DEF WindowShows
      <3>2. Len(wire) \in Nat /\ Len(wire) <= n
        BY <3>1 DEF Catches, Carries, FeedTypes
      <3>3. n - Len(wire) \in Nat /\ n - Len(wire) <= Len(buffered)
            /\ Shows(feed, buffered, n - Len(wire))
        BY <1>3, <3>1, <3>2 DEF Catches
      <3>4. Shows(feed, Append(buffered, e), n - Len(wire))
        BY <1>3, <3>3, ShowsKept
      <3> QED
        BY <1>1, <2>6, <3>1, <3>2, <3>4 DEF Catches
    <2>9. WindowShows'
      BY <1>1, <2>1, <2>3, <2>5, <2>7, <2>8 DEF WindowShows
    <2> QED
      BY <2>4, <2>9
  <1> QED
    BY <1>4, <1>5, <1>6

(* The event the wire takes is the one it waited for.                      *)
LEMMA EmitStep ==
  ASSUME FeedInv, NEW p \in Publishers, EmitEvent(p)
  PROVE  FeedInv'
  <1> DEFINE e == entry[p]
             n == Len(buffered)
             k == Len(wire)
             message == [kind |-> "event", ids |-> <<e>>]
  <1>1. /\ at[p] = "emit" /\ at' = [at EXCEPT ![p] = "out"]
        /\ entry' = [entry EXCEPT ![p] = 0]
        /\ wire' = IF window = "unmounted" THEN wire ELSE Append(wire, message)
        /\ UNCHANGED <<ring, window, copy, feed, buffered, accepted>>
    BY DEF EmitEvent, Emit
  <1>2. ~crossed' => ~crossed /\ window # "copied"
    BY Zenon DEF EmitEvent
  <1>3. e \in Nat /\ n \in Nat /\ k \in Nat /\ message \in Messages
    BY DEF FeedInv, FeedTypes, Messages
  <1>4. RingShows'
    BY <1>1 DEF FeedInv, RingShows
  <1>5. FeedTypes'
    BY <1>1, <1>3 DEF FeedInv, FeedTypes
  <1>6. ASSUME ~crossed' PROVE OneEmits' /\ WindowShows'
    <2>1. OneEmits /\ WindowShows /\ window # "copied"
      BY <1>2, <1>6 DEF FeedInv
    <2>2. \A q \in Publishers : at'[q] # "emit"
      BY <1>1, <2>1 DEF FeedInv, FeedTypes, OneEmits
    <2>3. Sent = n - 1 /\ Sent' = n /\ n > 0 /\ e = buffered[n]
      BY <1>1, <1>3, <2>1, <2>2 DEF Sent, Emitting, OneEmits
    <2>4. OneEmits'
      BY <2>2 DEF OneEmits
    <2>5. ASSUME window # "unmounted"
          PROVE  /\ wire' = Append(wire, message) /\ Len(wire') = k + 1
                 /\ \A i \in 1 .. k : wire'[i] = wire[i]
                 /\ wire'[k + 1] = message
      BY <1>1, <1>3, <2>5 DEF FeedInv, FeedTypes
    <2>6. ASSUME window # "unmounted", NEW b \in 0 .. k, Carries(wire, b, buffered, n - 1)
          PROVE  Carries(wire', b, buffered, n)
      <3>1. b \in 0 .. Len(wire') /\ Len(wire') - b <= n
        BY <1>3, <2>3, <2>5, <2>6 DEF Carries
      <3>2. ASSUME NEW i \in b + 1 .. k
            PROVE  wire'[i].kind = "event" /\ wire'[i].ids = <<buffered[n - Len(wire') + i]>>
        <4>1. i \in 1 .. k /\ i \in Nat
          BY <1>3, <3>2
        <4>2. wire'[i] = wire[i]
          BY <2>5, <2>6, <4>1
        <4>3. n - Len(wire') + i = n - 1 - Len(wire) + i
          BY <1>3, <2>5, <2>6, <4>1
        <4> QED
          BY <2>6, <3>2, <4>2, <4>3 DEF Carries
      <3>3. wire'[k + 1].kind = "event"
            /\ wire'[k + 1].ids = <<buffered[n - Len(wire') + (k + 1)]>>
        <4>1. n - Len(wire') + (k + 1) = n
          BY <1>3, <2>5, <2>6
        <4> QED
          BY <2>3, <2>5, <2>6, <4>1
      <3>4. \A i \in b + 1 .. Len(wire') : i \in b + 1 .. k \/ i = k + 1
        BY <1>3, <2>5, <2>6
      <3> QED
        BY <3>1, <3>2, <3>3, <3>4 DEF Carries
    <2>7. window \in {"asked", "copied"} => \A i \in 1 .. Len(wire') : wire'[i].kind = "event"
      <3> SUFFICES ASSUME window \in {"asked", "copied"}, NEW i \in 1 .. Len(wire')
                   PROVE  wire'[i].kind = "event"
        OBVIOUS
      <3>1. i \in 1 .. k \/ i = k + 1
        BY <1>3, <2>5
      <3> QED
        BY <2>1, <2>5, <3>1 DEF WindowShows
    <2>8. ASSUME window = "answered"
          PROVE  \E b \in 1 .. Len(wire') : Answers(wire', b, buffered, n)
      <3>1. PICK b \in 1 .. k : Answers(wire, b, buffered, n - 1)
        BY <2>1, <2>3, <2>8 DEF WindowShows
      <3>2. b \in 0 .. k /\ b \in 1 .. Len(wire') /\ wire'[b] = wire[b]
            /\ n - (Len(wire') - b) = n - 1 - (Len(wire) - b)
        BY <1>3, <2>5, <2>8
      <3>3. Carries(wire', b, buffered, n)
        BY <2>6, <2>8, <3>1, <3>2 DEF Answers
      <3>4. Shows(wire'[b].ids, buffered, n - (Len(wire') - b))
        BY <3>1, <3>2 DEF Answers
      <3>5. wire'[b].kind = "buffer" /\ \A i \in 1 .. b - 1 : wire'[i].kind = "event"
        BY <1>3, <2>5, <2>8, <3>1, <3>2 DEF Answers
      <3> QED
        BY <3>2, <3>3, <3>4, <3>5 DEF Answers
    <2>9. ASSUME window = "shown" PROVE Catches(wire', feed, buffered, n)
      <3>1. Catches(wire, feed, buffered, n - 1)
        BY <2>1, <2>3, <2>9 DEF WindowShows
      <3>2. Carries(wire', 0, buffered, n)
        BY <1>3, <2>6, <2>9, <3>1 DEF Catches
      <3>3. n - Len(wire') = n - 1 - Len(wire)
        BY <1>3, <2>5, <2>9
      <3> QED
        BY <3>1, <3>2, <3>3 DEF Catches
    <2>10. WindowShows'
      BY <1>1, <2>1, <2>3, <2>7, <2>8, <2>9 DEF WindowShows
    <2> QED
      BY <2>4, <2>10
  <1> QED
    BY <1>4, <1>5, <1>6 DEF FeedInv

LEMMA SentBounded ==
  ASSUME FeedTypes, OneEmits
  PROVE  Sent \in Nat /\ Sent <= Len(buffered)
  BY DEF FeedTypes, OneEmits, Sent, Emitting

LEMMA SuffixInSeq ==
  ASSUME NEW s \in Seq(Nat), NEW n \in Nat
  PROVE  Suffix(s, n) \in Seq(Nat)
  <1>1. CASE Len(s) <= n
    BY <1>1 DEF Suffix
  <1>2. CASE ~(Len(s) <= n)
    <2>1. SubSeq(s, Len(s) - n + 1, Len(s)) \in Seq(Nat)
      BY <1>2
    <2> QED
      BY <1>2, <2>1 DEF Suffix
  <1> QED
    BY <1>1, <1>2

(* A message less before the b-th leaves what comes behind it.             *)
LEMMA TailCarries ==
  ASSUME NEW w \in Seq(Messages), NEW b \in 1 .. Len(w), NEW h, NEW n \in Nat,
         Carries(w, b, h, n)
  PROVE  Carries(Tail(w), b - 1, h, n)
  <1> DEFINE t == Tail(w)
  <1>1. /\ Len(w) \in Nat /\ Len(w) > 0 /\ Len(t) = Len(w) - 1
        /\ \A i \in 1 .. Len(t) : t[i] = w[i + 1]
    OBVIOUS
  <1> HIDE DEF t
  <1>2. b - 1 \in 0 .. Len(t) /\ Len(t) - (b - 1) <= n
    BY <1>1 DEF Carries
  <1>3. ASSUME NEW i \in b - 1 + 1 .. Len(t)
        PROVE  t[i].kind = "event" /\ t[i].ids = <<h[n - Len(t) + i]>>
    <2>1. i \in 1 .. Len(t) /\ i + 1 \in b + 1 .. Len(w)
      BY <1>1
    <2>2. n - Len(w) + (i + 1) = n - Len(t) + i
      BY <1>1, <2>1
    <2> QED
      BY <1>1, <2>1, <2>2 DEF Carries
  <1>4. Carries(t, b - 1, h, n)
    BY <1>2, <1>3 DEF Carries
  <1> QED
    BY <1>4 DEF t

(* The window asks, the buffer is copied, the copy is sent.                *)
LEMMA AskStep ==
  ASSUME FeedInv, WindowStep, Mount \/ GetRecentEvents \/ Answer
  PROVE  FeedInv'
  <1> DEFINE k == Len(wire)
             message == [kind |-> "buffer", ids |-> copy]
  <1>1. UNCHANGED <<at, entry, accepted, ring, feed, buffered>>
    BY DEF WindowStep, Mount, GetRecentEvents, Answer
  <1>2. ~crossed' => ~crossed /\ ~(window = "asked" /\ Emitting)
    BY Zenon DEF WindowStep, Emitting
  <1>3. RingShows'
    BY <1>1 DEF FeedInv, RingShows
  <1>4. k \in Nat /\ message \in Messages /\ ring \in Seq(Nat)
    BY DEF FeedInv, FeedTypes, Messages, RingShows, Shows
  <1>5. FeedTypes'
    <2>1. CASE Mount
      BY <1>1, <2>1 DEF FeedInv, FeedTypes, Mount
    <2>2. CASE GetRecentEvents
      BY <1>1, <1>4, <2>2 DEF FeedInv, FeedTypes, GetRecentEvents
    <2>3. CASE Answer
      <3>1. wire' = Append(wire, message) /\ wire' \in Seq(Messages) /\ copy' = <<>>
        BY <1>4, <2>3 DEF Answer, FeedInv, FeedTypes
      <3>2. <<>> \in Seq(Nat) /\ window' = "answered"
        BY <2>3 DEF Answer
      <3> QED
        BY <1>1, <3>1, <3>2 DEF FeedInv, FeedTypes
    <2> QED
      BY <2>1, <2>2, <2>3
  <1>6. ASSUME ~crossed' PROVE OneEmits' /\ WindowShows'
    <2>1. OneEmits /\ WindowShows
      BY <1>2, <1>6 DEF FeedInv
    <2>2. OneEmits' /\ Sent' = Sent
      BY <1>1, <2>1 DEF OneEmits, Sent, Emitting
    <2>3. CASE Mount
      BY <2>1, <2>2, <2>3 DEF Mount, WindowShows
    <2>4. CASE GetRecentEvents
      <3>1. Sent = Len(buffered)
        BY <1>2, <1>6, <2>4 DEF GetRecentEvents, Sent
      <3>2. Shows(ring, buffered, Sent)
        BY <3>1 DEF FeedInv, RingShows
      <3> QED
        BY <1>1, <2>1, <2>2, <2>4, <3>2 DEF GetRecentEvents, WindowShows
    <2>5. CASE Answer
      <3>1. /\ wire' = Append(wire, message) /\ window = "copied" /\ window' = "answered"
            /\ Len(wire') = k + 1 /\ wire'[k + 1] = message
            /\ \A i \in 1 .. k : wire'[i] = wire[i]
        BY <1>4, <2>5 DEF Answer, FeedInv, FeedTypes
      <3>2. Sent \in Nat
        BY <2>1, SentBounded DEF FeedInv
      <3>3. Carries(wire', k + 1, buffered, Sent)
        BY <1>4, <3>1, <3>2 DEF Carries
      <3>4. Sent - (Len(wire') - (k + 1)) = Sent
        BY <1>4, <3>1, <3>2
      <3>5. Shows(wire'[k + 1].ids, buffered, Sent - (Len(wire') - (k + 1)))
        BY <2>1, <3>1, <3>4 DEF WindowShows
      <3>6. wire'[k + 1].kind = "buffer" /\ \A i \in 1 .. k + 1 - 1 : wire'[i].kind = "event"
        BY <1>4, <2>1, <3>1 DEF WindowShows
      <3>7. k + 1 \in 1 .. Len(wire')
        BY <1>4, <3>1
      <3>8. Answers(wire', k + 1, buffered, Sent)
        BY <3>3, <3>5, <3>6, <3>7 DEF Answers
      <3> QED
        BY <1>1, <2>2, <3>1, <3>7, <3>8 DEF WindowShows
    <2> QED
      BY <2>2, <2>3, <2>4, <2>5
  <1> QED
    BY <1>3, <1>5, <1>6 DEF FeedInv

(* The window takes the next message: the answer, or an event to add.      *)
LEMMA ReceiveStep ==
  ASSUME FeedInv, WindowStep, Receive
  PROVE  FeedInv'
  <1> USE RingSizeAssumption
  <1> DEFINE k == Len(wire)
             first == Head(wire)
             isEvent == first.kind = "event"
  <1>1. /\ wire # <<>> /\ wire' = Tail(wire)
        /\ feed' = IF isEvent THEN Suffix(feed \o first.ids, RingSize) ELSE first.ids
        /\ window' = IF isEvent THEN window ELSE "shown"
        /\ UNCHANGED <<at, entry, accepted, ring, copy, buffered>>
    BY DEF WindowStep, Receive
  <1>2. ~crossed' => ~crossed
    BY Zenon DEF WindowStep
  <1>3. /\ k \in Nat /\ k > 0 /\ first = wire[1] /\ first \in Messages /\ first.ids \in Seq(Nat)
        /\ Tail(wire) \in Seq(Messages) /\ Len(wire') = k - 1
        /\ \A i \in 1 .. k - 1 : wire'[i] = wire[i + 1]
    <2>1. wire \in Seq(Messages) /\ wire # <<>>
      BY <1>1 DEF FeedInv, FeedTypes
    <2>2. k \in Nat /\ k > 0 /\ first = wire[1] /\ first \in Messages
      BY <2>1
    <2>3. first.ids \in Seq(Nat)
      BY <2>2 DEF Messages
    <2>4. /\ Tail(wire) \in Seq(Messages) /\ Len(Tail(wire)) = k - 1
          /\ \A i \in 1 .. k - 1 : Tail(wire)[i] = wire[i + 1]
      BY <2>1
    <2> QED
      BY <1>1, <2>2, <2>3, <2>4
  <1>4. RingShows'
    BY <1>1 DEF FeedInv, RingShows
  <1>5. FeedTypes'
    <2>1. feed \o first.ids \in Seq(Nat)
      BY <1>3 DEF FeedInv, FeedTypes
    <2>2. feed' \in Seq(Nat)
      BY <1>1, <1>3, <2>1, SuffixInSeq
    <2> QED
      BY <1>1, <1>3, <2>2 DEF FeedInv, FeedTypes
  <1>6. ASSUME ~crossed' PROVE OneEmits' /\ WindowShows'
    <2>1. OneEmits /\ WindowShows /\ buffered \in Seq(Nat) /\ wire \in Seq(Messages)
      BY <1>2, <1>6 DEF FeedInv, FeedTypes
    <2>2. OneEmits' /\ Sent' = Sent
      BY <1>1, <2>1 DEF OneEmits, Sent, Emitting
    <2>3. Sent \in Nat /\ Sent <= Len(buffered)
      BY <2>1, SentBounded DEF FeedInv
    <2>4. CASE window \in {"asked", "copied"}
      <3>1. isEvent /\ \A i \in 1 .. k - 1 : wire'[i].kind = "event"
        BY <1>3, <2>1, <2>4 DEF WindowShows
      <3> QED
        BY <1>1, <1>3, <2>1, <2>2, <2>4, <3>1 DEF WindowShows
    <2>5. CASE window = "answered"
      <3>1. PICK b \in 1 .. k : Answers(wire, b, buffered, Sent)
        BY <2>1, <2>5 DEF WindowShows
      <3>2. Carries(wire', b - 1, buffered, Sent)
        BY <1>1, <2>1, <2>3, <3>1, TailCarries DEF Answers
      <3>3. Sent - (k - b) = Sent - (Len(wire') - (b - 1))
        BY <1>3, <2>3
      <3>4. CASE b = 1
        <4>1. ~isEvent /\ feed' = wire[b].ids /\ window' = "shown"
          BY <1>1, <1>3, <3>1, <3>4 DEF Answers
        <4>2. Sent - (k - b) = Sent - Len(wire')
          BY <1>3, <2>3, <3>4
        <4>3. Catches(wire', feed', buffered, Sent)
          BY <3>1, <3>2, <3>4, <4>1, <4>2 DEF Answers, Catches
        <4> QED
          BY <1>1, <2>2, <4>1, <4>3 DEF WindowShows
      <3>5. CASE b # 1
        <4>1. b - 1 \in 1 .. Len(wire') /\ wire'[b - 1] = wire[b]
          BY <1>3, <3>5
        <4>2. isEvent /\ \A i \in 1 .. b - 1 - 1 : wire'[i].kind = "event"
          <5>1. 1 \in 1 .. b - 1 /\ \A i \in 1 .. b - 1 - 1 : i + 1 \in 1 .. b - 1
            BY <1>3, <3>5
          <5>2. \A i \in 1 .. b - 1 : wire[i].kind = "event"
            BY <3>1 DEF Answers
          <5>3. isEvent
            BY <1>3, <5>1, <5>2
          <5>4. \A i \in 1 .. b - 1 - 1 : wire'[i] = wire[i + 1]
            BY <1>3, <3>5
          <5> QED
            BY <5>1, <5>2, <5>3, <5>4
        <4>3. window' = "answered"
          BY <1>1, <2>5, <4>2
        <4>4. Answers(wire', b - 1, buffered, Sent)
          BY <3>1, <3>2, <3>3, <4>1, <4>2 DEF Answers
        <4> QED
          BY <1>1, <2>2, <4>1, <4>3, <4>4 DEF WindowShows
      <3> QED
        BY <3>4, <3>5
    <2>6. CASE window = "shown"
      <3> DEFINE m == Sent - k
      <3>1. Carries(wire, 0, buffered, Sent) /\ Shows(feed, buffered, m)
        BY <2>1, <2>6 DEF WindowShows, Catches
      <3>2. m \in Nat /\ m < Len(buffered)
        BY <1>3, <2>3, <3>1 DEF Carries
      <3>3. isEvent /\ first.ids = <<buffered[m + 1]>>
        BY <1>3, <3>1 DEF Carries
      <3>4. Shows(Suffix(feed \o <<buffered[m + 1]>>, RingSize), buffered, m + 1)
        BY <2>1, <3>1, <3>2, SuffixShows
      <3>5. m + 1 = Sent - Len(wire')
        BY <1>3, <2>3
      <3>6. Carries(wire, 1, buffered, Sent)
        BY <1>3, <2>3, <3>1 DEF Carries
      <3>7. Carries(wire', 0, buffered, Sent)
        <4>1. Carries(Tail(wire), 1 - 1, buffered, Sent)
          BY <1>3, <2>1, <2>3, <3>6, TailCarries
        <4> QED
          BY <1>1, <4>1
      <3>8. feed' = Suffix(feed \o <<buffered[m + 1]>>, RingSize) /\ window' = "shown"
        BY <1>1, <2>6, <3>3
      <3>9. Catches(wire', feed', buffered, Sent)
        BY <3>4, <3>5, <3>7, <3>8 DEF Catches
      <3> QED
        BY <1>1, <2>2, <3>8, <3>9 DEF WindowShows
    <2>7. window # "unmounted"
      BY <1>1, <2>1 DEF WindowShows
    <2> QED
      BY <2>2, <2>4, <2>5, <2>6, <2>7 DEF FeedInv, FeedTypes
  <1> QED
    BY <1>4, <1>5, <1>6 DEF FeedInv

(* An event that passes, a duplicate and the clock disturb none of it.     *)
LEMMA OtherStep ==
  ASSUME FeedInv, UNCHANGED feedVars, ~crossed' => ~crossed,
         accepted' \in Nat, at' \in [Publishers -> {"out", "buffer", "emit"}],
         entry' \in [Publishers -> Nat],
         \A p \in Publishers : at[p] = "emit" => entry'[p] = entry[p],
         \A p \in Publishers : at[p] = "emit" <=> at'[p] = "emit"
  PROVE  FeedInv'
  <1>1. FeedTypes' /\ RingShows'
    BY DEF FeedInv, FeedTypes, RingShows, feedVars
  <1>2. ASSUME ~crossed' PROVE OneEmits' /\ WindowShows'
    <2>1. OneEmits /\ WindowShows
      BY <1>2 DEF FeedInv
    <2>2. OneEmits'
      BY <2>1 DEF OneEmits, feedVars
    <2>3. Sent' = Sent
      BY DEF Sent, Emitting, feedVars
    <2>4. WindowShows'
      BY <2>1, <2>3 DEF WindowShows, feedVars
    <2> QED
      BY <2>2, <2>4
  <1> QED
    BY <1>1, <1>2 DEF FeedInv

LEMMA FeedStep == FeedInv /\ [Next]_vars => FeedInv'
  <1> SUFFICES ASSUME FeedInv, [Next]_vars PROVE FeedInv'
    OBVIOUS
  <1>1. CASE WindowStep
    BY <1>1, AskStep, ReceiveStep DEF WindowStep, WindowActs
  <1>2. CASE TimeStep
    <2>1. UNCHANGED <<at, entry, accepted, crossed, feedVars>>
      BY <1>2 DEF TimeStep
    <2> QED
      BY <2>1, OtherStep DEF FeedInv, FeedTypes
  <1>3. ASSUME NEW p \in Publishers, NEW c \in Keys, Filter(p, c)
        PROVE  FeedInv'
    <2>1. UNCHANGED <<crossed, feedVars>>
      BY <1>3 DEF Filter
    <2>2. CASE UNCHANGED <<at, entry, accepted>>
      BY <2>1, <2>2, OtherStep DEF FeedInv, FeedTypes
    <2>3. CASE /\ at[p] = "out" /\ accepted' = accepted + 1
               /\ entry' = [entry EXCEPT ![p] = accepted + 1]
               /\ at' = [at EXCEPT ![p] = "buffer"]
      <3>1. /\ accepted' \in Nat /\ at' \in [Publishers -> {"out", "buffer", "emit"}]
            /\ entry' \in [Publishers -> Nat]
        BY <2>3 DEF FeedInv, FeedTypes
      <3>2. \A q \in Publishers : at[q] = "emit" <=> at'[q] = "emit"
        BY <2>3 DEF FeedInv, FeedTypes
      <3>3. \A q \in Publishers : at[q] = "emit" => entry'[q] = entry[q]
        BY <2>3 DEF FeedInv, FeedTypes
      <3> QED
        BY <2>1, <3>1, <3>2, <3>3, OtherStep
    <2> QED
      BY <1>3, <2>2, <2>3 DEF Filter
  <1>4. CASE UNCHANGED vars
    BY <1>4, OtherStep DEF vars, FeedInv, FeedTypes
  <1> QED
    BY <1>1, <1>2, <1>3, <1>4, BufferStep, EmitStep DEF Next, PublisherStep

(* With any number of publishers and a buffer of any length, a window that *)
(* has received everything shows the buffer, in its order, however many    *)
(* events passed while it opened, if none of them was between the buffer   *)
(* and the wire when it asked, or together with another                    *)
(* (app.go:199-214, App.jsx:51-66).                                        *)
THEOREM WindowShowsTheBuffer == Spec => []FeedIsRing
  BY FeedInitial, FeedStep, FeedInvEnough, PTL DEF Spec
-----------------------------------------------------------------------------
(* Numbers are only of events that passed, wherever they are on their way. *)
Numbered(s) == s \in Seq(1 .. accepted)

SubscriberTypes ==
  /\ DedupTypeOK
  /\ at \in [Publishers -> {"out", "buffer", "emit"}]
  /\ accepted \in 0 .. MaxAccepted
  /\ entry \in [Publishers -> 0 .. accepted]
  /\ \A p \in Publishers : at[p] = "out" <=> entry[p] = 0
  /\ window \in {"unmounted", "asked", "copied", "answered", "shown"}
  /\ Numbered(ring) /\ Numbered(copy) /\ Numbered(feed)
  /\ wire \in Seq([kind : {"event", "buffer"}, ids : Seq(1 .. accepted)])
  /\ Len(ring) <= RingSize /\ Len(copy) <= RingSize /\ Len(feed) <= RingSize
  /\ \A i \in 1 .. Len(wire) : wire[i].kind = "buffer" => Len(wire[i].ids) <= RingSize

LEMMA SubscriberTypesEnough == SubscriberTypes => TypeOK
  BY DEF SubscriberTypes, TypeOK, ToSet, Numbered

LEMMA SubscriberInitial == Init => SubscriberTypes
  <1> SUFFICES ASSUME Init PROVE SubscriberTypes
    OBVIOUS
  <1>1. \A S : <<>> \in Seq(S)
    OBVIOUS
  <1> QED
    BY <1>1, DedupTypeInitial, SubscriberAssumption, RingSizeAssumption
       DEF Init, FeedInit, SubscriberTypes, Numbered
LEMMA WiderSeq ==
  ASSUME NEW S, NEW T, S \subseteq T
  PROVE  Seq(S) \subseteq Seq(T)
  OBVIOUS

LEMMA SuffixBounded ==
  ASSUME NEW S, NEW s \in Seq(S), NEW n \in Nat
  PROVE  Suffix(s, n) \in Seq(S) /\ Len(Suffix(s, n)) <= n
  <1>1. CASE Len(s) <= n
    BY <1>1 DEF Suffix
  <1>2. CASE ~(Len(s) <= n)
    <2>1. /\ SubSeq(s, Len(s) - n + 1, Len(s)) \in Seq(S)
          /\ Len(SubSeq(s, Len(s) - n + 1, Len(s))) = n
      BY <1>2
    <2> QED
      BY <1>2, <2>1 DEF Suffix
  <1> QED
    BY <1>1, <1>2

LEMMA FilterTypes ==
  ASSUME SubscriberTypes, NEW p \in Publishers, NEW k \in Keys, Filter(p, k)
  PROVE  SubscriberTypes'
  <1>1. DedupTypeOK'
    BY DuplicateTypes DEF SubscriberTypes, Filter
  <1>2. CASE SeenRecently(k)
    <2>1. UNCHANGED <<at, entry, accepted>> /\ UNCHANGED feedVars
      BY <1>2 DEF Filter
    <2> QED
      BY <1>1, <2>1 DEF SubscriberTypes, Numbered, feedVars
  <1>3. CASE ~SeenRecently(k)
    <2>1. /\ at[p] = "out" /\ accepted < MaxAccepted /\ accepted' = accepted + 1
          /\ entry' = [entry EXCEPT ![p] = accepted + 1]
          /\ at' = [at EXCEPT ![p] = "buffer"]
          /\ UNCHANGED <<ring, window, copy, wire, feed>>
      BY <1>3 DEF Filter, feedVars
    <2>2. accepted \in Nat /\ accepted' \in 0 .. MaxAccepted
      BY <2>1, SubscriberAssumption DEF SubscriberTypes
    <2>3. 1 .. accepted \subseteq 1 .. accepted' /\ 0 .. accepted \subseteq 0 .. accepted'
      BY <2>1, <2>2
    <2>4. Seq(1 .. accepted) \subseteq Seq(1 .. accepted')
      BY <2>3, WiderSeq
    <2>5. Numbered(ring)' /\ Numbered(copy)' /\ Numbered(feed)'
      BY <2>1, <2>4 DEF SubscriberTypes, Numbered
    <2> DEFINE M == [kind : {"event", "buffer"}, ids : Seq(1 .. accepted)]
               N == [kind : {"event", "buffer"}, ids : Seq(1 .. accepted')]
    <2>6. M \subseteq N
      BY <2>4
    <2>7. wire \in Seq(M)
      BY DEF SubscriberTypes
    <2> HIDE DEF M, N
    <2>8. wire' \in Seq(N)
      BY <2>1, <2>6, <2>7, WiderSeq
    <2>9. /\ entry' \in [Publishers -> 0 .. accepted']
          /\ at' \in [Publishers -> {"out", "buffer", "emit"}]
          /\ \A q \in Publishers : at'[q] = "out" <=> entry'[q] = 0
      BY <2>1, <2>2, <2>3 DEF SubscriberTypes
    <2> USE DEF N
    <2> QED
      BY <1>1, <2>1, <2>2, <2>5, <2>8, <2>9 DEF SubscriberTypes
  <1> QED
    BY <1>2, <1>3

LEMMA PublishTypes ==
  ASSUME SubscriberTypes, NEW p \in Publishers, BufferEvent(p) \/ EmitEvent(p)
  PROVE  SubscriberTypes'
  <1>1. UNCHANGED dedupVars /\ DedupTypeOK' /\ accepted' = accepted /\ accepted \in Nat
    BY DedupTypesUnchanged, SubscriberAssumption DEF SubscriberTypes, BufferEvent, EmitEvent
  <1>2. /\ at' \in [Publishers -> {"out", "buffer", "emit"}]
        /\ entry' \in [Publishers -> 0 .. accepted]
        /\ \A q \in Publishers : at'[q] = "out" <=> entry'[q] = 0
    <2>1. CASE BufferEvent(p)
      BY <1>1, <2>1 DEF SubscriberTypes, BufferEvent
    <2>2. CASE EmitEvent(p)
      BY <1>1, <2>2 DEF SubscriberTypes, EmitEvent
    <2> QED
      BY <2>1, <2>2
  <1>3. entry[p] \in 1 .. accepted
    BY <1>1 DEF SubscriberTypes, BufferEvent, EmitEvent
  <1>4. CASE BufferEvent(p)
    <2>1. /\ ring' = Append(IF Len(ring) >= RingSize THEN Tail(ring) ELSE ring, entry[p])
          /\ UNCHANGED <<window, copy, wire, feed>>
      BY <1>4 DEF BufferEvent, Buffer
    <2>2. ring \in Seq(1 .. accepted) /\ Len(ring) <= RingSize
      BY DEF SubscriberTypes, Numbered
    <2>3. ring' \in Seq(1 .. accepted) /\ Len(ring') <= RingSize
      <3>1. CASE Len(ring) >= RingSize
        <4>1. Tail(ring) \in Seq(1 .. accepted) /\ Len(Tail(ring)) = Len(ring) - 1
          BY <2>2, <3>1, RingSizeAssumption
        <4> QED
          BY <1>3, <2>1, <2>2, <3>1, <4>1
      <3>2. CASE ~(Len(ring) >= RingSize)
        BY <1>3, <2>1, <2>2, <3>2, RingSizeAssumption
      <3> QED
        BY <3>1, <3>2
    <2> QED
      BY <1>1, <1>2, <2>1, <2>3 DEF SubscriberTypes, Numbered
  <1>5. CASE EmitEvent(p)
    <2> DEFINE M == [kind : {"event", "buffer"}, ids : Seq(1 .. accepted)]
               m == [kind |-> "event", ids |-> <<entry[p]>>]
    <2>1. UNCHANGED <<ring, window, copy, feed>> /\ (wire' = wire \/ wire' = Append(wire, m))
      BY <1>5 DEF EmitEvent, Emit
    <2>2. m \in M /\ m.kind = "event"
      BY <1>3
    <2>3. wire \in Seq(M)
      BY DEF SubscriberTypes
    <2> HIDE DEF M, m
    <2>4. wire' \in Seq(M)
      BY <2>1, <2>2, <2>3
    <2>5. \A i \in 1 .. Len(wire') : wire'[i].kind = "buffer" => Len(wire'[i].ids) <= RingSize
      <3>1. \A i \in 1 .. Len(wire') :
              (i \in 1 .. Len(wire) /\ wire'[i] = wire[i]) \/ wire'[i] = m
        BY <2>1, <2>3
      <3> QED
        BY <2>2, <3>1 DEF SubscriberTypes
    <2> USE DEF M
    <2> QED
      BY <1>1, <1>2, <2>1, <2>4, <2>5 DEF SubscriberTypes, Numbered
  <1> QED
    BY <1>4, <1>5

LEMMA WindowTypes ==
  ASSUME SubscriberTypes, WindowStep
  PROVE  SubscriberTypes'
  <1>1. /\ UNCHANGED <<at, entry, accepted, ring>> /\ accepted \in Nat /\ DedupTypeOK'
    BY DedupTypesUnchanged, SubscriberAssumption DEF SubscriberTypes, WindowStep, WindowActs,
       Mount, GetRecentEvents, Answer, Receive
  <1> DEFINE M == [kind : {"event", "buffer"}, ids : Seq(1 .. accepted)]
  <1>2. wire \in Seq(M)
    BY DEF SubscriberTypes
  <1>3. CASE Mount \/ GetRecentEvents
    BY <1>1, <1>3, RingSizeAssumption DEF SubscriberTypes, Numbered, Mount, GetRecentEvents
  <1>4. CASE Answer
    <2> DEFINE m == [kind |-> "buffer", ids |-> copy]
    <2>1. UNCHANGED feed /\ wire' = Append(wire, m) /\ copy' = <<>> /\ window' = "answered"
      BY <1>4 DEF Answer
    <2>2. m \in M /\ Len(m.ids) <= RingSize
      BY DEF SubscriberTypes, Numbered
    <2> HIDE DEF M, m
    <2>3. wire' \in Seq(M)
      BY <1>2, <2>1, <2>2
    <2>4. \A i \in 1 .. Len(wire') : wire'[i].kind = "buffer" => Len(wire'[i].ids) <= RingSize
      BY <1>2, <2>1, <2>2 DEF SubscriberTypes
    <2>5. Numbered(copy)' /\ Len(copy') <= RingSize
      BY <2>1, RingSizeAssumption DEF Numbered
    <2> USE DEF M
    <2> QED
      BY <1>1, <2>1, <2>3, <2>4, <2>5 DEF SubscriberTypes, Numbered
  <1>5. CASE Receive
    <2>1. /\ wire # <<>> /\ wire' = Tail(wire) /\ UNCHANGED copy
          /\ window' = window \/ window' = "shown"
          /\ feed' = IF Head(wire).kind = "event" THEN Suffix(feed \o Head(wire).ids, RingSize)
                     ELSE Head(wire).ids
      BY <1>5 DEF Receive
    <2> DEFINE m == Head(wire)
    <2> HIDE DEF M
    <2>2. m \in M /\ m = wire[1] /\ 1 \in 1 .. Len(wire)
      BY <1>2, <2>1
    <2> HIDE DEF m
    <2>3. m.ids \in Seq(1 .. accepted) /\ m.kind \in {"event", "buffer"}
          /\ (m.kind = "buffer" => Len(m.ids) <= RingSize)
      BY <2>2 DEF SubscriberTypes, M
    <2>4. feed \o m.ids \in Seq(1 .. accepted)
      BY <2>3 DEF SubscriberTypes, Numbered
    <2>5. feed' \in Seq(1 .. accepted) /\ Len(feed') <= RingSize
      <3>1. feed' = IF m.kind = "event" THEN Suffix(feed \o m.ids, RingSize) ELSE m.ids
        BY <2>1 DEF m
      <3>2. RingSize \in Nat
        BY RingSizeAssumption
      <3>3. CASE m.kind = "event"
        BY <2>4, <3>1, <3>2, <3>3, SuffixBounded
      <3>4. CASE m.kind = "buffer"
        BY <2>3, <3>1, <3>4
      <3> QED
        BY <2>3, <3>3, <3>4
    <2>6. /\ wire' \in Seq(M) /\ Len(wire') = Len(wire) - 1
          /\ \A i \in 1 .. Len(wire') : wire'[i] = wire[i + 1] /\ i + 1 \in 1 .. Len(wire)
      <3>1. Tail(wire) \in Seq(M) /\ Len(wire) \in Nat \ {0}
        BY <1>2, <2>1
      <3>2. Len(Tail(wire)) = Len(wire) - 1
        BY <1>2, <2>1
      <3>3. \A i \in 1 .. Len(wire) - 1 : Tail(wire)[i] = wire[i + 1] /\ i + 1 \in 1 .. Len(wire)
        BY <1>2, <2>1, <3>1
      <3> QED
        BY <2>1, <3>1, <3>2, <3>3
    <2>7. \A i \in 1 .. Len(wire') : wire'[i].kind = "buffer" => Len(wire'[i].ids) <= RingSize
      BY <2>6 DEF SubscriberTypes
    <2> USE DEF M
    <2> QED
      BY <1>1, <2>1, <2>5, <2>6, <2>7 DEF SubscriberTypes, Numbered
  <1> QED
    BY <1>3, <1>4, <1>5 DEF WindowStep, WindowActs

LEMMA SubscriberStep == SubscriberTypes /\ [Next]_vars => SubscriberTypes'
  <1> SUFFICES ASSUME SubscriberTypes, [Next]_vars PROVE SubscriberTypes'
    OBVIOUS
  <1>1. CASE TimeStep \/ UNCHANGED vars
    <2>1. DedupTypeOK'
      BY <1>1, TimeTypes, DedupTypesUnchanged DEF SubscriberTypes, TimeStep, vars
    <2>2. UNCHANGED <<at, entry, accepted>> /\ UNCHANGED feedVars
      BY <1>1 DEF TimeStep, vars
    <2> QED
      BY <2>1, <2>2 DEF SubscriberTypes, Numbered, feedVars
  <1> QED
    BY <1>1, FilterTypes, PublishTypes, WindowTypes DEF Next, PublisherStep

(* Neither the buffer nor the window's list outgrows its bound, whoever    *)
(* appends and whenever the answer comes, and neither has an event that    *)
(* has not passed (app.go:199-211, App.jsx:51-57).                         *)
THEOREM SubscriberTypeCorrect == Spec => []TypeOK
  BY SubscriberInitial, SubscriberStep, SubscriberTypesEnough, PTL DEF Spec
=============================================================================
