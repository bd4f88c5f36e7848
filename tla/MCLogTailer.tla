---------------------------- MODULE MCLogTailer ----------------------------
(* Small instances of LogTailer for TLC. *)
EXTENDS LogTailer

Whole(p) == [pattern |-> p, split |-> FALSE]
Split(p) == [pattern |-> p, split |-> TRUE]

\* Two kinds of two-line notification, a login to seek, an event between.
ReplayKinds == {Whole(p) : p \in {"player_login", "money_sent", "money_amount",
                                  "party_member_joined", "party_join_continuation",
                                  "qt_arrived"}}
\* One notification that closes its quote and one that goes on in the next line.
SplitKinds == {Whole("crime_committed"), Split("crime_committed"), Whole("qt_arrived")}
=============================================================================
