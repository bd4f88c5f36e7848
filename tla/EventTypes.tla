----------------------------- MODULE EventTypes -----------------------------
(***************************************************************************)
(* The tables of event types: the parser's patterns and what it makes of   *)
(* them (parser.go), and the types the coalescer waits for (dedup.go).     *)
(*                                                                         *)
(* A regular expression is reduced to how much of a line it has to see:    *)
(*   bare    a fixed text and no data                                      *)
(*   closed  the data is delimited by text behind it                       *)
(*   open    the last datum runs as far as the line does                   *)
(*   end     closed by a quote, or else by the end of the text ("$")       *)
(* The fixed texts exclude one another, so the order of the patterns does  *)
(* not matter; a line is named for the pattern its fixed text belongs to.  *)
(***************************************************************************)
EXTENDS Naturals, FiniteSets

TravelPatterns ==
  [player_login |-> "open", ship_boarded |-> "closed", ship_exited |-> "closed",
   contract_accepted |-> "closed", contract_completed |-> "closed",
   contract_failed |-> "closed", qt_target_selected |-> "closed",
   qt_arrived |-> "bare", location_change |-> "closed",
   jurisdiction_entered |-> "closed"]

ZonePatterns ==
  [armistice_entered |-> "bare", armistice_exited |-> "bare",
   monitored_space_entered |-> "bare", monitored_space_exited |-> "bare",
   crimestat_increased |-> "bare", fined |-> "closed",
   money_sent |-> "closed", money_amount |-> "closed", injury |-> "open",
   incapacitated |-> "bare", insurance_claim |-> "open"]

ServicePatterns ==
  [insurance_claim_complete |-> "open", blueprint_received |-> "closed",
   refinery_complete |-> "closed", transaction_complete |-> "bare",
   vehicle_impounded |-> "closed", fatal_collision |-> "open",
   server_joined |-> "closed", rewards_earned |-> "closed"]

MissionPatterns ==
  [mission_ended |-> "open", end_mission |-> "closed", new_objective |-> "closed",
   contract_available |-> "closed", hangar_ready |-> "bare",
   ship_list_fetched |-> "closed", ships_loaded |-> "closed",
   qt_fuel_requested |-> "open", emergency_services |-> "bare",
   entitlement_reconciliation |-> "open"]

AreaPatterns ==
  [contract_shared |-> "closed", objective_complete |-> "end",
   objective_withdrawn |-> "closed", armistice_exiting |-> "bare",
   private_property_entered |-> "bare", private_property_exited |-> "bare",
   restricted_area_warning |-> "bare", restricted_area_exited |-> "bare",
   monitored_space_down |-> "bare", monitored_space_restored |-> "bare"]

PartyPatterns ==
  [crime_committed |-> "end", party_member_joined |-> "bare",
   party_join_continuation |-> "closed", party_member_left |-> "bare",
   party_left_continuation |-> "closed", party_disbanded |-> "bare",
   low_fuel |-> "bare", journal_entry_added |-> "closed",
   player_spawned |-> "bare", actor_death |-> "closed", med_bed_heal |-> "closed"]

PatternTables == {TravelPatterns, ZonePatterns, ServicePatterns,
                  MissionPatterns, AreaPatterns, PartyPatterns}

(* The names of the patterns, and what each needs to see of its line.      *)
Patterns == UNION {DOMAIN table : table \in PatternTables}
Anatomy(p) == (CHOOSE table \in PatternTables : p \in DOMAIN table)[p]

(* A line no pattern knows.                                                *)
NoMatch == "no_match"

(* The notifications of two lines: the pattern of the second line, and of  *)
(* the first line that Parse keeps pending for it.                         *)
HeaderOf ==
  [money_amount |-> "money_sent",
   party_join_continuation |-> "party_member_joined",
   party_left_continuation |-> "party_member_left"]
Continuations == DOMAIN HeaderOf
Headers == {HeaderOf[c] : c \in Continuations}
Singles == Patterns \ (Headers \union Continuations)

(* The types of the events Parse returns.                                  *)
EmittedTypes == Headers \union Singles

(* The types the coalescer waits with or joins (dedup.go); the rest passes.*)
CoalescedTypes == {"money_sent_pending", "money_amount"}
=============================================================================
