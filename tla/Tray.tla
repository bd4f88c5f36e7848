-------------------------------- MODULE Tray --------------------------------
(***************************************************************************)
(* tray.Controller (tray.go): what handleEvent makes of the events.  It    *)
(* takes no lock: the goroutine of each tailer calls it, and reads the     *)
(* list of ships before it writes it back.  The handle, the location, the  *)
(* jurisdiction and the count of events, which are shown and never read    *)
(* otherwise, are left out.                                                *)
(***************************************************************************)
EXTENDS Sequences, SequencesExt, FiniteSets

VARIABLES
  activeShips,  \* Controller.activeShips
  currentShip   \* Controller.status.CurrentShip

trayVars == <<activeShips, currentShip>>

Empty == ""

TrayInit == activeShips = <<>> /\ currentShip = Empty

(* What a list keeps when one ship is left out, in the order it is in.     *)
Kept(ships, ship) == {i \in DOMAIN ships : ships[i] # ship}
Place(kept, i) == Cardinality({j \in kept : j <= i})
Without(ships, ship) ==
  LET kept == Kept(ships, ship)
  IN  [n \in 1 .. Cardinality(kept) |-> ships[CHOOSE i \in kept : Place(kept, i) = n]]

(* The list that handleEvent makes of the list it read.                    *)
\* Mutant: leaving any ship takes the last one off the list.
LeaveLastShip(ships, e) ==
  IF e.type = "ship_boarded"
  THEN IF e.ship \in ToSet(ships) THEN ships ELSE Append(ships, e.ship)
  ELSE IF e.type = "ship_exited" /\ ships # <<>> THEN Front(ships)
  ELSE ships

ShipsAfter(ships, e) ==
  IF e.type = "ship_boarded"
  THEN IF e.ship \in ToSet(ships) THEN ships ELSE Append(ships, e.ship)
  ELSE IF e.type = "ship_exited" THEN Without(ships, e.ship)
  ELSE ships

(* A ship that is in the list already is not added to it.                  *)
Writes(ships, e) ==
  \/ e.type = "ship_boarded" /\ e.ship \notin ToSet(ships)
  \/ e.type = "ship_exited"

(* handleEvent writes what it makes of the list it read before.            *)
HandleEvent(ships, e) ==
  /\ activeShips' = IF Writes(ships, e) THEN ShipsAfter(ships, e) ELSE activeShips
  /\ currentShip' = IF e.type = "ship_boarded" THEN e.ship
                    ELSE IF e.type # "ship_exited" THEN currentShip
                    ELSE IF ShipsAfter(ships, e) = <<>> THEN Empty
                    ELSE Last(ShipsAfter(ships, e))

(* The ships aboard which a log of events leaves the player.               *)
Aboard(log) ==
  {e.ship : e \in {log[i] : i \in {i \in DOMAIN log :
     /\ log[i].type = "ship_boarded"
     /\ \A j \in i + 1 .. Len(log) :
          ~(log[j].type = "ship_exited" /\ log[j].ship = log[i].ship)}}}
=============================================================================
