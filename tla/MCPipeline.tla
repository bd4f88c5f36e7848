---------------------------- MODULE MCPipeline ----------------------------
(* Small instances of Pipeline for TLC. *)
EXTENDS Pipeline

Board(s) == [type |-> "ship_boarded", ship |-> s]
Exit(s) == [type |-> "ship_exited", ship |-> s]

\* Two ships, one of which the player leaves.
ShipEvents == {Board("a"), Exit("a"), Board("b")}

(* Without is what the loop of tray.go:94-101 computes.                    *)
ASSUME WithoutIsSelectSeq ==
  LET Ships == {"aurora", "cutlass", "hammerhead"}
  IN  \A n \in 0 .. 4 : \A list \in [1 .. n -> Ships] : \A ship \in Ships :
        Without(list, ship) = SelectSeq(list, LAMBDA s : s # ship)
=============================================================================
