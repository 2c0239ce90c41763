---------------------------- MODULE BookingLedger ----------------------------
(***************************************************************************)
(* What the ride service promises about bookings, without its handlers,    *)
(* callbacks, crashes and retries: rides are opened and, while nobody is   *)
(* booked on them, deleted for good; a booking ties one passenger to one   *)
(* existing ride and is never moved or lost; a passenger is told of an     *)
(* acceptance only once the booking is in the ledger.  RideBooking is      *)
(* shown to implement this module.                                         *)
(***************************************************************************)
CONSTANTS
    Rides,          \* ride ids
    Passengers,     \* passenger ids
    Rows,           \* ids of bookings
    None            \* the absent booking

VARIABLES
    life,           \* life[r]: "unused", "open" or "deleted"
    booked,         \* booked[i]: the ride and passenger of booking i, or None
    accepted        \* the acceptances passengers have been told of

ledgerVars == <<life, booked, accepted>>

Entry == [ride: Rides, passenger: Passengers]

Booked(r, p) == \E i \in Rows: booked[i] = [ride |-> r, passenger |-> p]

Init ==
    /\ life = [r \in Rides |-> "unused"]
    /\ booked = [i \in Rows |-> None]
    /\ accepted = {}

Open(r) ==
    /\ life[r] = "unused"
    /\ life' = [life EXCEPT ![r] = "open"]
    /\ UNCHANGED <<booked, accepted>>

Delete(r) ==
    /\ life[r] = "open"
    /\ \A p \in Passengers: ~Booked(r, p)
    /\ life' = [life EXCEPT ![r] = "deleted"]
    /\ UNCHANGED <<booked, accepted>>

Book(i, r, p) ==
    /\ life[r] = "open"
    /\ booked[i] = None
    /\ booked' = [booked EXCEPT ![i] = [ride |-> r, passenger |-> p]]
    /\ UNCHANGED <<life, accepted>>

TellAccepted(r, p) ==
    /\ Booked(r, p)
    /\ accepted' = accepted \cup {[ride |-> r, passenger |-> p]}
    /\ UNCHANGED <<life, booked>>

Next ==
    \E r \in Rides:
        \/ Open(r)
        \/ Delete(r)
        \/ \E p \in Passengers: TellAccepted(r, p)
        \/ \E i \in Rows, p \in Passengers: Book(i, r, p)

Spec == Init /\ [][Next]_ledgerVars
==============================================================================
