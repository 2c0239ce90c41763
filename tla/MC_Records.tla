---------------------------- MODULE MC_Records ----------------------------
(* Two people in the files: one with a driver, a vehicle and a ride.        *)
EXTENDS Records
CONSTANTS p1, p2
MCPeople == {p1, p2}
MCSeed == [t \in Tables |-> CASE t \in {"user", "passenger"} -> {p1, p2}
                              [] t \in {"driver", "vehicle", "ride"} -> {p1}
                              [] OTHER -> {}]
(* The repository's files beside one that is skipped, some of them, some    *)
(* that depend on one that is not there, and one of a table that            *)
(* entityDependencies does not have.                                        *)
MCDirectories == {
    <<"driver", "passenger", "passengerOnRide", "ride", "user", "vehicle">>,
    <<"driver", "user", "vehicle">>,
    <<"driver", "vehicle">>,
    <<"driver", "passenger", "passengersOnRide", "ride", "user", "vehicle">>}
=============================================================================
