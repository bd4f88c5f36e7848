---------------------------- MODULE ParserProofs ----------------------------
(***************************************************************************)
(* Whatever lines it is given, the parser joins each second line to the    *)
(* first line it belongs to.                                               *)
(***************************************************************************)
EXTENDS Parser, TLAPS

LEMMA HeaderFacts ==
  /\ Continuations = {"money_amount", "party_join_continuation",
                      "party_left_continuation"}
  /\ Headers = {"money_sent", "party_member_joined", "party_member_left"}
  /\ HeaderOf["money_amount"] = "money_sent"
  /\ HeaderOf["party_join_continuation"] = "party_member_joined"
  /\ HeaderOf["party_left_continuation"] = "party_member_left"
  BY DEF Continuations, Headers, HeaderOf

LEMMA NoMatchIsNoPattern == NoMatch \notin Patterns
  BY DEF NoMatch, Patterns, PatternTables, TravelPatterns, ZonePatterns,
     ServicePatterns, MissionPatterns, AreaPatterns, PartyPatterns

(* Kinds of lines exclude one another.                                     *)
LEMMA KindsDiffer ==
  /\ Headers \cap Continuations = {}
  /\ Singles \cap (Headers \union Continuations) = {}
  /\ NoMatch \notin Headers \union Continuations \union Singles
  /\ None \notin Headers
  /\ \A c \in Continuations : HeaderOf[c] \in Headers
  <1>1. NoMatch \notin Singles
    BY NoMatchIsNoPattern DEF Singles
  <1>2. NoMatch \notin Headers \union Continuations
    BY HeaderFacts DEF NoMatch
  <1> QED
    BY <1>1, <1>2, HeaderFacts DEF Singles, None
-----------------------------------------------------------------------------
ParserTypeOK ==
  /\ seen \in Seq(Patterns \union {NoMatch})
  /\ pendingType \in Headers \union {None}
  /\ pendingData \in Nat
  /\ published \in Seq([type : Headers \union Singles, header : Nat, line : Nat])

(* The first line still waiting after all of seen, if any, is the one that *)
(* the parser keeps pending, under its own type.                           *)
PendingIsWaiting ==
  /\ \A h \in Nat : Waiting(h, Len(seen) + 1)
                     <=> pendingType # None /\ h = pendingData
  /\ pendingType # None =>
       pendingData \in 1 .. Len(seen) /\ seen[pendingData] = pendingType

ParserInv == ParserTypeOK /\ PendingIsWaiting /\ PairsTheRightLines

LEMMA ParserInitial == ParserInit => ParserInv
  BY KindsDiffer DEF ParserInit, ParserInv, ParserTypeOK, PendingIsWaiting,
     PairsTheRightLines, Waiting

(* A further line changes nothing about the lines before it.               *)
LEMMA OldLinesKept ==
  ASSUME ParserTypeOK, NEW n \in Nat, n = Len(seen),
         NEW p \in Patterns \union {NoMatch}, seen' = Append(seen, p)
  PROVE  /\ Len(seen') = n + 1
         /\ \A i \in 1 .. n : seen'[i] = seen[i]
         /\ seen'[n + 1] = p
         /\ \A h \in Nat : \A i \in 1 .. n + 1 : Waiting(h, i)' <=> Waiting(h, i)
         /\ \A i \in 1 .. n : Expected(i)' = Expected(i)
  <1>1. /\ Len(seen') = n + 1
        /\ \A i \in 1 .. n : seen'[i] = seen[i]
        /\ seen'[n + 1] = p
    BY DEF ParserTypeOK
  <1>2. ASSUME NEW h \in 1 .. n, NEW k \in 1 .. n
        PROVE  Ends(k, h)' <=> Ends(k, h)
    <2>1. seen'[h] = seen[h] /\ seen'[k] = seen[k]
      BY <1>1
    <2> QED
      BY <2>1 DEF Ends
  <1>3. ASSUME NEW h \in Nat, NEW i \in 1 .. n + 1
        PROVE  Waiting(h, i)' <=> Waiting(h, i)
    <2>1. CASE h \in 1 .. i - 1
      <3>1. h \in 1 .. n /\ seen'[h] = seen[h]
        BY <1>1, <2>1
      <3>2. \A k \in h + 1 .. i - 1 : Ends(k, h)' <=> Ends(k, h)
        BY <1>2, <2>1, <3>1
      <3> QED
        BY <3>1, <3>2 DEF Waiting
    <2>2. CASE h \notin 1 .. i - 1
      BY <2>2 DEF Waiting
    <2> QED
      BY <2>1, <2>2
  <1>4. ASSUME NEW i \in 1 .. n
        PROVE  Expected(i)' = Expected(i)
    <2> DEFINE Firsts == {h \in 1 .. i - 1 : /\ seen[i] \in Continuations
                                             /\ seen[h] = HeaderOf[seen[i]]
                                             /\ Waiting(h, i)}
    <2>1. seen'[i] = seen[i] /\ \A h \in 1 .. i - 1 : seen'[h] = seen[h]
      BY <1>1
    <2>2. Firsts' = Firsts
      BY <1>3, <2>1
    <2>3. \A h \in Firsts : seen'[h] = seen[h]
      BY <2>1
    <2> HIDE DEF Firsts
    <2>4. {[type |-> seen[h], header |-> h, line |-> i] : h \in Firsts}'
          = {[type |-> seen[h], header |-> h, line |-> i] : h \in Firsts}
      BY <2>2, <2>3
    <2> QED
      BY <2>1, <2>4 DEF Expected, Firsts
  <1> QED
    BY <1>1, <1>3, <1>4

(* What still waits after the new line.                                    *)
LEMMA WaitingAfter ==
  ASSUME ParserTypeOK, NEW n \in Nat, n = Len(seen),
         NEW p \in Patterns \union {NoMatch}, seen' = Append(seen, p),
         NEW h \in Nat
  PROVE  Waiting(h, n + 2)' <=>
           \/ (h = n + 1 /\ p \in Headers)
           \/ (/\ Waiting(h, n + 1)
               /\ p \notin Headers \union Singles
               /\ p \in Continuations => HeaderOf[p] # seen[h])
  <1>1. seen'[n + 1] = p /\ \A i \in 1 .. n : seen'[i] = seen[i]
    BY OldLinesKept
  <1>2. CASE h = n + 1
    <2>1. ~Waiting(h, n + 1)
      BY <1>2 DEF Waiting
    <2> QED
      BY <1>1, <1>2, <2>1 DEF Waiting
  <1>3. CASE h \in 1 .. n
    <2>1. Waiting(h, n + 2)' <=> Waiting(h, n + 1)' /\ ~Ends(n + 1, h)'
      BY <1>3 DEF Waiting
    <2>2. Ends(n + 1, h)' <=> (\/ p \in Headers \union Singles
                               \/ (p \in Continuations /\ HeaderOf[p] = seen[h]))
      BY <1>1, <1>3 DEF Ends
    <2>3. Waiting(h, n + 1)' <=> Waiting(h, n + 1)
      BY OldLinesKept
    <2> QED
      BY <1>3, <2>1, <2>2, <2>3
  <1>4. CASE h \notin 1 .. n + 1
    BY <1>4 DEF Waiting
  <1> QED
    BY <1>2, <1>3, <1>4

(* The event the new line is to yield.                                     *)
LEMMA ExpectedNow ==
  ASSUME ParserTypeOK, PendingIsWaiting, NEW n \in Nat, n = Len(seen),
         NEW p \in Patterns \union {NoMatch}, seen' = Append(seen, p)
  PROVE  Expected(n + 1)' =
           {[type |-> p, header |-> 0, line |-> n + 1] : x \in {p} \cap Singles}
           \union
           {[type |-> pendingType, header |-> pendingData, line |-> n + 1] :
              x \in {p} \cap {c \in Continuations : HeaderOf[c] = pendingType}}
  <1> DEFINE Firsts == {h \in 1 .. n : /\ p \in Continuations
                                       /\ seen[h] = HeaderOf[p]
                                       /\ Waiting(h, n + 1)}
             OldFirsts == {h \in 1 .. n + 1 - 1 : /\ seen[n + 1] \in Continuations
                                       /\ seen[h] = HeaderOf[seen[n + 1]]
                                       /\ Waiting(h, n + 1)}
  <1>1. seen'[n + 1] = p /\ \A i \in 1 .. n : seen'[i] = seen[i]
    BY OldLinesKept
  <1>2. OldFirsts' = Firsts
    <2>1. \A h \in 1 .. n : Waiting(h, n + 1)' <=> Waiting(h, n + 1)
      BY OldLinesKept
    <2> QED
      BY <1>1, <2>1
  <1>3. Firsts = {h \in {pendingData} : p \in Continuations /\ HeaderOf[p] = pendingType}
    BY KindsDiffer DEF PendingIsWaiting
  <1>4. \A h \in Firsts : seen'[h] = pendingType
    BY <1>1, <1>3, KindsDiffer DEF PendingIsWaiting
  <1> HIDE DEF Firsts, OldFirsts
  <1>5. {[type |-> seen[h], header |-> h, line |-> n + 1] : h \in OldFirsts}'
        = {[type |-> pendingType, header |-> h, line |-> n + 1] : h \in Firsts}
    BY <1>2, <1>4
  <1>6. {[type |-> pendingType, header |-> h, line |-> n + 1] : h \in Firsts}
        = {[type |-> pendingType, header |-> pendingData, line |-> n + 1] :
             x \in {p} \cap {c \in Continuations : HeaderOf[c] = pendingType}}
    BY <1>3
  <1>7. {[type |-> seen[n + 1], header |-> 0, line |-> n + 1] :
            x \in {seen[n + 1]} \cap Singles}'
        = {[type |-> p, header |-> 0, line |-> n + 1] : x \in {p} \cap Singles}
    BY <1>1
  <1> QED
    BY <1>5, <1>6, <1>7 DEF Expected, OldFirsts

LEMMA AppendRange ==
  ASSUME NEW S, NEW s \in Seq(S), NEW e
  PROVE  {Append(s, e)[k] : k \in DOMAIN Append(s, e)}
         = {s[k] : k \in DOMAIN s} \union {e}
  <1>1. /\ DOMAIN Append(s, e) = DOMAIN s \union {Len(s) + 1}
        /\ Append(s, e)[Len(s) + 1] = e
        /\ \A k \in DOMAIN s : Append(s, e)[k] = s[k]
    OBVIOUS
  <1> QED
    BY <1>1

(* The events stay the expected ones if the new line yields its own.       *)
LEMMA PairsGrow ==
  ASSUME ParserTypeOK, PairsTheRightLines, NEW n \in Nat, n = Len(seen),
         NEW p \in Patterns \union {NoMatch}, seen' = Append(seen, p),
         {published[k] : k \in DOMAIN published}'
           = {published[k] : k \in DOMAIN published} \union Expected(n + 1)'
  PROVE  PairsTheRightLines'
  <1>1. DOMAIN seen = 1 .. n /\ DOMAIN seen' = 1 .. n + 1
    BY DEF ParserTypeOK
  <1>2. \A i \in 1 .. n : Expected(i)' = Expected(i)
    BY OldLinesKept
  <1>3. (UNION {Expected(i) : i \in DOMAIN seen})'
        = (UNION {Expected(i) : i \in DOMAIN seen}) \union Expected(n + 1)'
    <2> DEFINE New(i) == Expected(i)'
    <2>1. (UNION {Expected(i) : i \in DOMAIN seen})' = UNION {New(i) : i \in 1 .. n + 1}
      BY <1>1
    <2>2. \A i \in 1 .. n : New(i) = Expected(i)
      BY <1>2
    <2> HIDE DEF New
    <2>3. UNION {New(i) : i \in 1 .. n + 1}
          = (UNION {New(i) : i \in 1 .. n}) \union New(n + 1)
      <3>1. 1 .. n + 1 = (1 .. n) \union {n + 1}
        OBVIOUS
      <3> QED
        BY <3>1
    <2>4. UNION {New(i) : i \in 1 .. n} = UNION {Expected(i) : i \in 1 .. n}
      BY <2>2
    <2> QED
      BY <1>1, <2>1, <2>3, <2>4 DEF New
  <1> QED
    BY <1>3 DEF PairsTheRightLines

LEMMA ParseStep == ParserInv /\ (\E p \in Patterns \union {NoMatch} : Parse(p))
                   => ParserInv'
  <1> SUFFICES ASSUME ParserInv, NEW p \in Patterns \union {NoMatch}, Parse(p),
                      NEW n \in Nat, n = Len(seen)
               PROVE  ParserInv'
    <2>1. Len(seen) \in Nat
      BY DEF ParserInv, ParserTypeOK
    <2> QED
      BY <2>1
  <1> DEFINE event(type, header) == [type |-> type, header |-> header, line |-> n + 1]
             StillWaiting ==
               /\ \A h \in Nat : Waiting(h, n + 2)'
                                  <=> pendingType' # None /\ h = pendingData'
               /\ pendingType' # None =>
                    pendingData' \in 1 .. n + 1 /\ seen'[pendingData'] = pendingType'
             events == {published[k] : k \in DOMAIN published}
  <1> USE DEF ParserInv
  <1>0. /\ seen' = Append(seen, p) /\ Len(seen') = n + 1
        /\ seen'[n + 1] = p /\ \A i \in 1 .. n : seen'[i] = seen[i]
        /\ seen' \in Seq(Patterns \union {NoMatch})
    BY DEF Parse, ParserTypeOK
  <1>1. Expected(n + 1)' = {event(p, 0) : x \in {p} \cap Singles}
          \union {event(pendingType, pendingData) :
                    x \in {p} \cap {c \in Continuations : HeaderOf[c] = pendingType}}
    BY <1>0, ExpectedNow
  <1>2. \A h \in Nat : Waiting(h, n + 2)' <=>
          \/ (h = n + 1 /\ p \in Headers)
          \/ (/\ Waiting(h, n + 1)
              /\ p \notin Headers \union Singles
              /\ p \in Continuations => HeaderOf[p] # seen[h])
    BY <1>0, WaitingAfter
  <1>3. \A h \in Nat : Waiting(h, n + 1) <=> pendingType # None /\ h = pendingData
    BY DEF PendingIsWaiting
  <1>4. ASSUME NEW type \in Headers \union Singles, NEW header \in Nat, Emit(type, header)
        PROVE  /\ published' \in Seq([type : Headers \union Singles, header : Nat, line : Nat])
               /\ events' = events \union {event(type, header)}
    <2> DEFINE Event == [type : Headers \union Singles, header : Nat, line : Nat]
    <2>1. PICK e : e = event(type, header)
      OBVIOUS
    <2>2. e \in Event /\ published' = Append(published, e)
      BY <1>4, <2>1 DEF Emit, This
    <2>3. published \in Seq(Event)
      BY DEF ParserTypeOK
    <2> HIDE DEF event, Event
    <2>4. published' \in Seq(Event)
      BY <2>2, <2>3
    <2>5. events' = events \union {e}
      BY <2>2, <2>3, AppendRange
    <2> QED
      BY <2>1, <2>4, <2>5 DEF Event
  <1>5. SUFFICES /\ pendingType' \in Headers \union {None} /\ pendingData' \in Nat
                 /\ published' \in Seq([type : Headers \union Singles,
                                        header : Nat, line : Nat])
                 /\ StillWaiting
                 /\ events' = events \union Expected(n + 1)'
    <2>1. PendingIsWaiting'
      <3>1. Len(seen') + 1 = n + 2
        BY <1>0
      <3> QED
        BY <1>0, <1>5, <3>1 DEF PendingIsWaiting
    <2> QED
      BY <1>0, <1>5, <2>1, PairsGrow DEF ParserTypeOK
  <1>6. CASE ParseNothing(p)
    <2>1. Expected(n + 1)' = {}
      BY <1>1, <1>6, KindsDiffer DEF ParseNothing
    <2> QED
      BY <1>0, <1>2, <1>3, <1>6, <2>1, KindsDiffer DEF ParseNothing, PendingIsWaiting, ParserTypeOK
  <1>7. CASE ParseHeader(p)
    <2>1. Expected(n + 1)' = {}
      BY <1>1, <1>7, KindsDiffer DEF ParseHeader
    <2> QED
      BY <1>0, <1>2, <1>3, <1>7, <2>1, KindsDiffer DEF ParseHeader, PendingIsWaiting, ParserTypeOK, This
  <1>8. CASE ParseContinuation(p)
    <2>1. Expected(n + 1)' = {event(pendingType, pendingData)}
      BY <1>1, <1>8, KindsDiffer DEF ParseContinuation
    <2>2. pendingType \in Headers /\ pendingData \in Nat
      BY <1>8, KindsDiffer DEF ParseContinuation, ParserTypeOK
    <2>3. StillWaiting
      BY <1>0, <1>2, <1>3, <1>8, KindsDiffer DEF ParseContinuation, clearPending, PendingIsWaiting
    <2> QED
      BY <1>4, <1>8, <2>1, <2>2, <2>3 DEF ParseContinuation, clearPending
  <1>9. CASE ParseOrphan(p)
    <2>1. Expected(n + 1)' = {}
      BY <1>1, <1>9, KindsDiffer DEF ParseOrphan
    <2>2. StillWaiting
      BY <1>0, <1>2, <1>3, <1>9, KindsDiffer DEF ParseOrphan, PendingIsWaiting
    <2> QED
      BY <1>9, <2>1, <2>2 DEF ParseOrphan, ParserTypeOK
  <1>10. CASE ParseSingle(p)
    <2>1. Expected(n + 1)' = {event(p, 0)}
      BY <1>1, <1>10, KindsDiffer DEF ParseSingle
    <2>2. StillWaiting
      BY <1>0, <1>2, <1>3, <1>10, KindsDiffer DEF ParseSingle, clearPending, PendingIsWaiting
    <2> QED
      BY <1>4, <1>10, <2>1, <2>2 DEF ParseSingle, clearPending
  <1> QED
    BY <1>6, <1>7, <1>8, <1>9, <1>10 DEF Parse

LEMMA ParserUnchanged == ParserInv /\ UNCHANGED parserVars => ParserInv'
  <1> SUFFICES ASSUME ParserInv, UNCHANGED parserVars
               PROVE  ParserInv'
    OBVIOUS
  <1>1. ParserTypeOK'
    BY DEF ParserInv, ParserTypeOK, parserVars
  <1>2. PendingIsWaiting'
    BY DEF ParserInv, PendingIsWaiting, parserVars, Waiting, Ends
  <1>3. PairsTheRightLines'
    BY DEF ParserInv, PairsTheRightLines, parserVars, Expected, Waiting, Ends
  <1> QED
    BY <1>1, <1>2, <1>3 DEF ParserInv

(* Parse keeps the first line that still waits, and none other.            *)
THEOREM ParserInvariance == ParserSpec => []ParserInv
  BY ParserInitial, ParseStep, ParserUnchanged, PTL DEF ParserSpec

(* For any lines whatever Parse returns the expected events and no others  *)
(* (parser.go:690-762).                                                    *)
THEOREM ParserPairs == ParserSpec => []PairsTheRightLines
  BY ParserInvariance, PTL DEF ParserInv
-----------------------------------------------------------------------------
(* The tables.                                                             *)

LEMMA PatternsByTable ==
  Patterns = DOMAIN TravelPatterns \union DOMAIN ZonePatterns \union DOMAIN ServicePatterns
             \union DOMAIN MissionPatterns \union DOMAIN AreaPatterns
             \union DOMAIN PartyPatterns
  BY DEF Patterns, PatternTables

LEMMA HeadersAreEmitted ==
  /\ Headers \union Continuations \subseteq Patterns
  /\ EmittedTypes = Patterns \ Continuations
  <1>1. Headers \union Continuations \subseteq Patterns
    BY HeaderFacts, PatternsByTable DEF ZonePatterns, PartyPatterns
  <1> QED
    BY <1>1, KindsDiffer DEF EmittedTypes, Singles

(* The coalescer has nothing to hold back.                                 *)
LEMMA NothingToCoalesce == EmittedTypes \cap CoalescedTypes = {}
  BY HeadersAreEmitted, PatternsByTable, HeaderFacts DEF CoalescedTypes, TravelPatterns,
     ZonePatterns, ServicePatterns, MissionPatterns, AreaPatterns, PartyPatterns

(* What the parser publishes the coalescer passes on as it is, which is why*)
(* Pipeline has no coalescer (dedup.go:95-130).                            *)
LEMMA CoalescerPassesAll ==
  ASSUME ParserInv, NEW n \in DOMAIN published
  PROVE  published[n].type \notin CoalescedTypes
  <1> DEFINE R == [type : Headers \union Singles, header : Nat, line : Nat]
  <1>1. published \in Seq(R)
    BY DEF ParserInv, ParserTypeOK
  <1> HIDE DEF R
  <1>2. published[n] \in R
    BY <1>1
  <1> QED
    BY <1>2, NothingToCoalesce DEF R, EmittedTypes
=============================================================================
