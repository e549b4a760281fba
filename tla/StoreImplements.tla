--------------------------- MODULE StoreImplements --------------------------
(***************************************************************************)
(* Store implements Booking.  While the process runs the state is what it  *)
(* holds in memory; while it is down, what the file holds.                 *)
(***************************************************************************)
EXTENDS Store

\* A ride without its counters of free seats and its prices.
CarsOf(rd) ==
  [r \in DOMAIN rd |-> [driver |-> rd[r].driver, cities |-> rd[r].cities, date |-> rd[r].date,
                        capacity |-> rd[r].capacity, status |-> rd[r].status]]

accounts == IF up THEN users ELSE disk.users

cars == CarsOf(IF up THEN rides ELSE disk.rides)

bookings == IF up THEN reservations ELSE disk.reservations

B == INSTANCE Booking WITH accounts <- accounts, cars <- cars, bookings <- bookings

\* Counters, index and file are nothing a caller can see: every call, failed
\* write, crash and start of the store is a step of Booking or none.
ImplementsBooking == B!Spec
=============================================================================
