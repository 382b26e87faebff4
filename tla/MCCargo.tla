------------------------------ MODULE MCCargo ------------------------------
(***************************************************************************)
(* A miner with two bays and a harvester, a field with some ore and gas    *)
(* without end that goes when it is depleted, a well that generates gas,   *)
(* and a warehouse.                                                        *)
(***************************************************************************)
EXTENDS Cargo

CONSTANTS miner, field, well, fore, aft, drill, ore, gas, depot, pod

MCOwner == [x \in Bays \cup Harvesters |-> miner]
MCPosition == [b \in Bays |-> IF b = fore THEN 1 ELSE 2]
MCSpace == [b \in Bays |-> IF b = fore THEN 2 ELSE 1]
MCStock == [r \in Resources |-> [c \in Commods |->
             CASE r = field /\ c = ore -> 4 [] r = field -> -1 [] OTHER -> 0]]
MCGenerates == [r \in Resources |-> [c \in Commods |-> IF r = well /\ c = gas THEN 2 ELSE 0]]
MCMines == [h \in Harvesters |-> Commods]
=============================================================================
