# VAIJUNTO in TLA+

VAIJUNTO is a ride-sharing service in Go: one TCP server that keeps accounts,
rides and reservations in memory and in one JSON file, terminals for drivers
and passengers, and a client library they share. This directory holds its
specifications: TLA+ modules, the TLC configurations that check them on small
instances, and TLAPS proofs about the store, the search, the sessions, the
terminals and the life cycle of the server for every instance.

All paths below are relative to `src/`.

## The system

| Component | State | Operations | Interacts with |
|---|---|---|---|
| domain (`internal/domain`) | none | `SegmentIndexesBetween`, copies | used by store and search |
| store (`internal/store`) | `users`, `rides`, `reservations`, `confirmIndex`, the file | `New`, `Register`, `PublishRide`, `ConfirmReservation`, `CancelReservation`, `CancelRide`, listings | called by every connection, one `RWMutex` |
| search (`internal/search`) | none | `Search` | a copy of the rides, taken under the read lock |
| service (`internal/service`) | limits | `Search`, views | store and search |
| server (`internal/server`, `cmd/server`) | listener, connections, one `Session` for each | accept, `dispatch`, `Close` | one goroutine per connection |
| protocol (`internal/protocol`) | none | frames and envelopes | client and server |
| client (`internal/client`) | socket, identity, counter | `Call`, `Login`, `Logout`, `Reconnect` | one call open at a time |
| terminals (`cmd/passenger`, `cmd/driver`, `internal/cliui`) | last search, last listings | menus | client library |
| rest (`internal/config`, `cmd/smoke`, `cmd/loadtest`, `docker`, `scripts`, `examples`) | none | | |

What makes each of them correct, and what is hard about it:

- **Store.** Seats are conserved: free seats and passengers on a segment add
  up to the capacity, through multi-leg reservations, cancellations from
  either side, retries, failed writes and restarts. A requestId buys once. The
  file is never behind the memory in anything that was promised. Hard: what
  each method undoes when the write fails, the early returns of repeated
  calls, what a restart rebuilds.
- **Search.** Each answer is a journey one can book, at its price; nothing
  cheaper is left out, unless the walk was cut off. Hard: the visited set of
  each branch, compaction of segments into legs, the cut-off before the sort,
  the order of a Go map.
- **Search and store together.** Two pieces of code cut a route into segments
  and check seats; what one shows the other must book, long after.
- **Sessions.** The identity of a client is kept twice, in the client and in
  the `Session` of its connection. Hard: read timeouts leave the connection in
  use, answers get lost, connections break at any point.
- **Life cycle.** `Serve`, `Close`, the signal goroutine and every connection
  share the listener and the map of connections. Hard: each holds the mutex
  only for single steps, so a connection can be accepted, tracked, closed and
  untracked in any order with a `Close`.
- **Terminals.** They show lists and answers of the past and act on them by
  number, and turn typed prices into integers. Hard: what is on the screen may
  have been cancelled or sold since.

## Modules

| Module | Models |
|---|---|
| `Domain` | statuses, segment arithmetic, Go maps |
| `DomainProofs` | lemmas about these, and about numbers and sequences |
| `Store` | `store.go`, `reserve.go`: the state machine, its properties, `IInv`, `JInv` |
| `StoreProofs` | the proofs of `IInv` and `JInv`, and what follows from them |
| `Booking` | the abstract store: accounts, cars, bookings |
| `StoreImplements` | the refinement mapping from `Store` to `Booking` |
| `StoreImplementsProofs` | the proof of the refinement |
| `Search` | `graph.go`: the walk, compaction, order; and the journeys an answer is compared with |
| `PathProofs` | lemmas about these: paths and the journeys they show, what the recursive walk computes, the order of itineraries |
| `SearchSpec` | one request, call by call of the walk, and what its answer promises |
| `SearchProofs` | the proofs about `SearchSpec` |
| `Money` | `money.go`: a typed price in centavos, with integers of a given width |
| `Trip` | `Store`, `Search` and `Money` with what each terminal has on its screen |
| `TripProofs` | the proofs about `Trip` |
| `Session` | client library, passenger's menu and the server's connection goroutine |
| `SessionProofs` | the proofs about `Session` |
| `Lifecycle` | accept loop, connection goroutines, signals and `Close` |
| `LifecycleProofs` | the proofs about `Lifecycle` |
| `MCStore`, `MCSearch`, `MCTrip`, `MCSession` | instances for TLC |

Definitions named `...Twice`, `...NoUndo` and the like, under a comment that
begins with "Mutant:", are variants of the definition that follows them with a
plausible bug. No specification uses them; `PROJECT.json` says which property
notices which.

### Store

Every mutating method holds `Store.mu` from its first to its last line, so a
call is one action, with the write of the file in it; `os.Rename` makes the
file the old or the new one. Each method therefore has an alternative for a
write that succeeds and one for a write that fails, with what the code undoes
then: `Register`, `PublishRide` and `ConfirmReservation` undo everything (the
failing call changes nothing), `CancelReservation` and `CancelRide` nothing.
`Crash` clears the memory at any point between calls; a crash inside a call is
a crash before it (the rename has not happened) or after it. `New` loads, or
seeds a missing or blank file. `reply` is what the last caller was told.

Abstractions: an account's id is its name; passwords are left out (a wrong one
changes nothing); a city is a class of spellings under `CitiesEqual`; a date
that does not parse is `None`; the time of day is not used by any decision;
`newID` draws an unused id; the indexes of a leg are a set, since
`SegmentIndexesBetween` returns an interval (segments count from 1 here, from
0 in the code). Prices of a ride are kept, because the search adds them up; a
reservation's total is left to `Trip`, which compares it.

### Search

The walk is there twice. `Search!WalkOf` is the closure `walk` as a recursive
function: a call along a path takes the paths found so far to those found when
it ends, and `Loop` is its loop over the rides, from any place of the order on;
`Trip` takes a whole answer from it. `SearchSpec` goes call by call: `path` is
the path of the innermost open call, `next` a stack with the place in the order
at which each open call goes on, and `Arrive`, `Descend`, `Return`, `Sort` and
`Answer` are what can happen next. Likewise the sort: `Sorted` defines the
place of an itinerary by counting the better ones, `Sort` inserts one at a time.
`SameAsSearch` says that both answer the same, and is proved (see below).
The order in which the copy lists the rides is a parameter, chosen by `Init`.

A leg is defined by its steps (`LegSteps`: those between two changes of the
ride), not by the loop that appends to it. `NormalizeCity` is the identity on
the classes of cities; `itineraryKey` is reduced to what decides a comparison:
the first leg in which two itineraries differ (`KeyLess`), with `Rank` for the
order of ids and cities as strings, which tells different ones apart (`Ranked`).

`Journeys` defines the answer without a walk: sequences of hops
that connect, change the car, and pass no city twice.

### Booking and StoreImplements

`Booking` says what the store promises, without counters of free seats, an
index of requestIds or a file: a car takes at most `capacity` passengers on a
segment, a booking is a journey of one day over active cars, a passenger's
requestId books once, withdrawing a car withdraws all its bookings in the same
step, and a crash may at worst revive cancellations (`Revive`), never so that
somebody has no seat or sits in a car that does not drive (`Fits`).

The mapping: `cars` are the rides without `avail` and prices, `bookings` the
reservations; while the process is down, both are those of the file. A failed
write is a stutter, or a cancellation. A crash is a stutter when memory and
file agree and a `Revive` otherwise; `New` is always a stutter, except when it
founds the accounts. `Booking` has no notion of a replayed CONFIRM: the store
answers it from the index and changes nothing.

### Money

`ParseBRLToCents` on texts reduced to what it looks at: the number before the
separator, whether there is one, the digits after it. `MaxInt` is the largest
`int64`, and `uint64` goes to twice that and one; it is a parameter, at least
127, because TLC counts with 32 bits itself. The code checks the reais and adds the centavos afterwards, so the
largest reais with the largest centavos wrap (`AsInt`); `PublishedAsTyped` says
that no such price gets into the store.

### Trip

The actions of `Store`, with the menus of the terminals in front of them:
`SearchItineraries`, `ConfirmShown`, `PublishTyped`, `List`, `CancelListed`,
`Logout`. `shown` is `lastSearch`, `listed` the ids of `lastRides` or
`lastReservations`. The copy of the rides is taken atomically under the read
lock and the answer may be confirmed at any later time, so making the search
one action loses nothing. `List` is also the reload of `ensureRides` and
`ensureReservations` when nothing is on the screen; a pick from an old list is
`CancelListed` without a `List` before it.

### Session

A connection is a pair of queues and a handler that reads, dispatches and
writes. The client sends one call at a time and ends it with the next frame of
the connection (`Receive`), with its read timeout (`Timeout`, after which it
goes on using the connection), or with an error (`ReadError`). `Break` stands
for the network, a panic caught by `recover` or the server process; `Quit` for
the end of the terminal. `TimeoutMidFrame` is a deadline that passes when part
of a frame has been read: the part is lost, the stream is `torn`, and the next
read takes bytes of a payload for a length (`Garbled`). Four bytes of JSON are
a length of more than 500 MB, so the call fails at once, unless bytes of the
true header are among them, when it may swallow some of what follows. A call
never returns with an answer from such a read, because what it would have
swallowed is no JSON text. `dead` are the connections of which a call has met
the end. The store is reduced to its reservations, each with a number of
its own (the `reservationId`), so that a journey booked twice is there twice;
`Book` looks for the passenger's requestId, as `ConfirmReservation` looks into
`confirmIndex`, and otherwise adds a reservation or refuses. A wrong password is `None`; PING stands for the
operations without a role that do not touch the session, CONFIRM for those
with one.

`ResendSameId` chooses between two users of `Client.Call`: the one of
`docs/CONCURRENCY.md:93`, who passes the requestId of the first try again (as
`TestRepeatedConfirmSameRequestIDOverTCP` does, `server_test.go:421`), and
`cmd/passenger`, for whom every call draws a new one. It is TRUE in the run
that passes and FALSE in `session_fresh_ids`. `OneBookingPerWish` takes both
halves, a client that keeps the requestId and a server that knows it again:
the first CONFIRM may have been executed without an answer, or still be read
from the old connection when it is repeated on the new one.

### Lifecycle

One step for each critical section of `Server.mu` and for each call of the
kernel between them: `StoreListener`, `Accept`, `Track`, `Go` of the accept
loop; `Leave` (the loop ends, `conn.Close`) and `Untrack` of each connection;
`TakeListener`, `CloseListener`, `CloseConns` of `Close`. The process is that
of `cmd/server`, in which one goroutine waits for a signal and which ends when
`Serve` returns (`Exit`: the kernel closes everything), or that of a test,
which lives on and may call `Close` again. What a connection does before it
ends is the matter of `Session`.

## Runs

| Run | Question | Size |
|---|---|---|
| `store_seats` | Are seats conserved and requests sold once and as one journey, in memory and in the file? | 94,000 states |
| `store_accounts` | Does what was answered with OK survive, is a reservation one journey, does the store implement `Booking`? | 31,000 |
| `search_answers` | Is an answer right, for every order of the rides? | 330,000 states, from 6,144 inputs |
| `trip` | Is what was typed, shown or listed what is published, booked or cancelled? | 201,000 |
| `session` | Do client and server agree, is a repeated CONFIRM booked once, and do connections end? | 234,000 |
| `lifecycle` | Does the server know its connections, and does it stop when told to? | 82,000 |
| `cancel_reservation_persisted` | violated: is a cancellation that was answered with OK in the file? | |
| `cancel_ride_persisted` | violated: the same for a ride | |
| `session_fresh_ids` | violated: does repeating a confirmation book once? | |
| `session_late_answer` | violated: does OK mean booked? | |
| `dead_login` | violated: does a login go out on a connection that may be answered? | |
| `early_signal` | violated: does nobody listen after a SIGINT? | |

Bounds, and why they suffice for the cases that matter:

- `store_seats`: two rides (a one-seat route of two segments and the two-seat
  way back), two passengers, two reservations, one requestId and none at all.
  One seat makes every conflict happen; two rides make composite itineraries,
  round trips and a cancelled ride inside somebody's journey happen. The check
  for a segment bought twice in one request matters only for round trips:
  overlapping legs of one ride cannot connect otherwise. `OneJourney` meets
  here the round trip and legs that do not connect (the mutant leaves out the
  checks of `planConfirmLocked` but the one for seats).
- `store_accounts`: two drivers and a passenger who have to register, each
  malformed argument once, rides of two days, which is what `OneJourney` meets
  here. `ImplementsBooking` is checked
  here; it also holds of the instance of `store_seats`, where two passengers
  compete for the seats (not a run, it takes two and a half minutes).
- `search_answers`: three routes over four cities, full segments, two days, a
  cancelled ride, one or two results. With one result the walk is cut off at
  four paths, and the instance has queries with more journeys than that.
- `trip`: a direct ride and a second half of it, on one day or two; one
  reservation; one search. The prices typed include every way a text can be
  refused and, with integers of 10 bits, the largest real with too many
  centavos and a price that is small again modulo the width. Sums of prices
  stay below the width.
- `session`: one client, two connections, five calls, one wish, a passenger's
  and a driver's account. Clients meet only in `bookings`, and there under
  their own requestIds, so a second client adds no behaviour of the first.
  Login, a confirmation, its retry after a logout and a new login take five
  calls and both connections.
- `lifecycle`: three connections: one the map holds when `Close` walks it, one
  in the hand of `Serve`, one in the queue of the kernel.

`CHECK_DEADLOCK FALSE` appears where the system may stop: after the answer of
`SearchSpec`, when a client of `Session` has quit, and when the process of
`Lifecycle` has ended.

Symmetry is used in `store_seats` (reservation ids and passengers) and `trip`
(passengers), in runs without liveness.

Fairness. `Session`: weak fairness of `Handle`, `Write` and `EndOfFile` for
every connection. `Lifecycle`: of the accept loop, of the steps of a `Close`
that was called, and of `Hear` and `Untrack` for every connection. A goroutine
that can run is run by the Go scheduler; a socket closed at either end is
reported to a blocked read; writes have a deadline; nobody holds `Server.mu`
across a call that blocks. Nothing is assumed of clients, of signals, of idle
timeouts or of the network. The liveness properties:

- `LetGo`: a connection which the client has closed is let go of; without
  fairness of `EndOfFile` only the idle timeout would do it.
- `ForgetsTheGone`: the same for the map `Server.conns`, and the socket.
- `StopsWhenTold`: a `Close` that finds the listener ends the accept loop, and
  with it the process. The `early_signal` run shows the `Close` that does not.

## Proofs

`StoreProofs` proves of `Store!Spec`, for all sets of names, cities, dates,
ids and requests, and routes of any length:

- `Invariant`: `[]IInv`, and from it
- `TypeCorrect`, `SeatsConserved`, `SeatsBounded`, `NobodyLeftBehind`,
  `Idempotence`, `CrashSafety`, `CreationDurable`: the invariants of that
  subject that the runs check;
- `FileNeverForgets`: the action property `FileOnlyGrows`.

Assumptions: `IdsFinite` (what `newID` can return is finite, 8 random bytes;
needed to count seats and to list the rides), `NoneIsNoValue`, and the types of
the constants. The life cycle needs only that `None` is no connection. The
search needs that different ride ids and cities have different numbers in
`Rank` (`RanksType`): strings that fit a frame are finitely many, so their
order has such a numbering.

The argument. `SeatConservation` is not inductive: cancelling a ride keeps the
count on the other rides only if every passenger of the ride is reached
(`NobodyOnCancelledRide`) and if giving a seat back is never capped at the
capacity (`Bounded`); a restart replaces the memory by the file, so all of it
must hold of the file as well; and replacing `confirmIndex` by the rebuilt one
is harmless only if there is one reservation for a key (`OncePerRequest`,
`IndexExact`). `IInv` is the conjunction: types, `Sound` of memory and of file,
`IndexExact`, and how memory and file may differ. The steps that write the
file copy the memory (`SaveStep`), those that fail leave the file alone, and
`New` copies it back, so only the four steps that move seats need an argument
about counting: `BookSound` (one seat for each segment, because `Seen` and the
interval of a leg exclude a second one: `OneSeatPerSegment`) and `CancelSound`
(the seats of disjoint sets of reservations add up: `SeatsAdd`).

`FileNeverForgets` needs the invariant too: the file is overwritten as a
whole, and only because memory extends file does the overwriting lose nothing.

`StoreProofs` has `JourneysInvariant` (`[]JInv`) and `OneJourneyEach`
(`OneJourney`) as well. A leg is stored as segments, and the check of the connection
compares cities; that both say the same needs the first and the last segment
of an interval (`SegmentsJoin`), and it stays so because no step changes a
route. `JInv` says it of memory and file, because a restart brings the file
back.

`StoreImplementsProofs` proves `Refinement`: `Spec => ImplementsBooking`. It
rests on both invariants. A CONFIRM looks at counters: `SeatConservation` turns
a free counter into fewer passengers than seats (`RidersSeated`). A crash may
revive cancellations, and nobody is without a seat then, because the file is
sound by itself (`SoundFits`) and differs from the memory in cancellations only
(`CrashLosesOnlyCancellations`). Every other step is one lemma: which action
of `Booking` it is, or that it leaves the mapped variables alone.

`LifecycleProofs` proves `LifecycleInvariant`, `MapExact` (`ConnsExact`) and
`OneSurvivor` (`AtMostOneSurvives`) for any set of connections. The invariant
adds where the connection in the hand of `Serve` is in its life (`HandExact`)
and that a goroutine closes before it untracks (`HandlerExact`).

`SearchProofs` proves `SearchInvariant`, and from it `AnswersReal`
(`RealJourneys`), `AnswersSorted` (`CheapestFirst`) and `NothingLeftOut`
(`NothingBetterLeftOut`), for routes, walks and answers of any length. Its
invariant has four parts:

- `Walking`: `path` and the stack `next` belong together, each call has tried
  the rides before its place in the order, and the path passes no city twice.
- `FoundKept`: every path found arrives (`Arrives`), is found once, and, unless
  the walk was cut off, each path that arrives and whose turn is past is among
  them.
- `SortedKept`: `best` holds the itineraries of the first paths found, each
  once, in the order of `Better`.
- `AnswerKept`: an answer is the beginning of `best`.

What makes it work is a fact about two representations: a path is a sequence
of segments, a journey a sequence of hops, and `PathShowsJourney` says that
the legs of a path are a journey, at its price; `PathsShowApart` that different
paths show different legs, which is why no itinerary appears twice. `NothingLeftOut`
needs the way back as well: every journey is the legs of a path that arrives
(`JourneyHasPath`, by counting its hops out into segments: `PathOf`), and
there are finitely many (`JourneysFinite`), so the paths found by a walk that
was not cut off are as many as the journeys (`FoundJourneys`).

`WalksAgree` (`SameAsSearch`) ties the steps to the function. First the function
has to be what its definition says: TLA+ takes a recursive function for some
function with that equation, if there is one. `PathProofs` shows that there is
(`WalkEquation`): a longer path has fewer cities left to visit, so the calls from a
path are decided by those from longer ones. The same argument gives what
each call keeps (`WalkKeeps`): its results are paths that arrive. Then the
invariant `WalkedKept` says of each state of the walk that the open calls, when
each of them goes on where its loop is, will have found what the function finds
from the start: there is a sequence of results (`Finishes`), from what is found
so far to `Walk`, that the loops of the stack connect, innermost first. `Arrive`
and `Descend` move the innermost loop behind its next call (`LoopCalls`,
`NextCall`), `Return` drops a loop with nothing left to do (`LoopEnds`). For
the sort, a list that holds the same itineraries, each better than those behind
it, is the one `Sorted` counts out (`SortedOnce`); that one of two itineraries
is always better needs that the key tells journeys apart (`BetterTotal`).

`SessionProofs` proves `SessionInvariant`, `TypeCorrect`, `InStep`, `Mirrors`,
`OkIsBooked`, `SoldOnce` and `BookedOnce`, for any number of clients, accounts, wishes,
connections and calls. The invariant follows a call through the queues
(`Exchange`): while no call has timed out on a connection at most one frame is
under way on it, anywhere, it belongs to the open call, and if it is an answer
what it says is so in the `Session` and in the store. A connection that was
not opened is `Untouched`, a client without a connection is `Idle`, and
`IdsOK` says that a requestId is used for one wish by one client: this is what
"unique enough" in `client.go` must mean. `SoldOnce` is the server's half of
`OneBookingPerWish` and holds of every client: a passenger's requestId makes
one reservation (`OncePerRequest`), because `Book` adds one only when none has
it. `BookedOnce` is `[](ResendSameId => OneBookingPerWish)`. It joins `SoldOnce`
and the client's half, `KeptIds`: whatever is on its way or in the store for a
wish carries the requestId the client keeps for it. Of `cmd/passenger`, which
keeps none, only `SoldOnce` is true, and `session_fresh_ids` shows it.

`TripProofs` proves that terminals in front of the store disturb nothing
(`TripInvariant`, `FileGrowsWithTerminals`), that a line of a list stays good
however old it is (`ListsStay`), and that prices in the store are the prices
that were typed, for integers of any width of at least 8 bits (`Published`).
The lists rest on `FileGrowsWithTerminals`: an id on a screen came from a file.
All this holds whatever a search answers.

What search and store have to do with each other:

- `ShownInvariant`: `IInv`, the whole invariant of `Store`, holds with terminals
  in front of it. Nothing a screen makes them send is outside of what the store
  was proved for: forms with prices that wrap, old itineraries, picks from old
  lists (`StoreStep`).
- `AnswersShowJourneys` (`AnswersAreJourneys`): in each state, whatever was sold
  and cancelled, every itinerary that `Search` may answer shows (`Shows`) one of
  the `Journeys` of the rides in that state. The rides of the store are what the
  search takes for granted (`StoreSearchable`: routes of distinct cities, a
  counter and a price for each segment), and then `PathProofs` says what the
  function answers (`SearchShowsJourneys`). Of `Trip` this needs no step; it
  holds of each state of the invariant.
- `AnswersBookable` (`FreshIsBookable`): what a passenger confirms at once is
  booked as it was shown. The search works with stops of routes, the store looks
  cities up and takes segments, so the proof finds each stop again
  (`StopFound`, by the distinct cities of a route), and excludes that a journey
  uses one segment twice (`SharedSegment`, because no city is passed twice).
- `SeatsGoStale` (`OnlySeatsGoStale`) and `SoldAsShown` (`BookedAsShown`): the
  same at any later time, but for seats and cancelled rides. `ShownKept` says of
  a screen what depends on routes, days and prices only, which no step changes
  (`ShownStays`).

Induction. The library's theorems for it take an operator as parameter and
cannot be used here; where a proof needs it (walks, sums, the recursive walk,
the rank of an itinerary), it takes a least counterexample
(`DomainProofs!LeastNatural`).

Model-checked only: liveness (`LetGo`, `StopsWhenTold`, `ForgetsTheGone`), which
is out of the prover's reach, and the properties that do not hold (Findings).
Every other property of a passing run is a theorem.

## Findings

1. A cancellation whose write fails is answered with an error, but stays in
   memory; its retry returns early with OK and writes nothing. After a restart
   the reservation (`reserve.go:173`) or the ride (`reserve.go:220`) is active
   again, contrary to INV-10 of `docs/CONCURRENCY.md`. The next successful
   write of any call repairs the file.
2. `cmd/passenger` draws a new requestId for each confirmation, so a retry
   after a lost answer books twice, contrary to `docs/CONCURRENCY.md:93`.
3. `Client.Call` does not compare the requestId of the answer. After a read
   timeout a late answer is taken for the answer of the next call.
   `InStepUntilTimeout`, `MirrorsUntilTimeout` and `OkMeansBookedUntilTimeout`
   hold because they ask for no more than the time before the first timeout.
4. `Client.Login` dials again only when there is no connection at all, and the
   menu before the login has no logout. A terminal that is left at that menu
   for longer than `IDLE_TIMEOUT`, or across a restart of the server, fails
   every login until it is started again, contrary to `docs/PROTOCOL.md:112`.
5. `cmd/server` can receive a SIGINT after it has asked for signals and before
   `Serve` has stored the listener. `Close` then closes nothing, the server
   comes up, and no later SIGINT or SIGTERM stops it, contrary to `cmd/server/main.go:5`.

Not divergences, but worth knowing. `ReadFrame` leaves the connection to its
caller when a frame is too large (`frame.go:48`), and `Client.Call` does not
close it, so after a read that was given up in the middle of a frame every
call fails until a logout. `ParseBRLToCents` can wrap to a negative price, which
`PublishRide` refuses. And the walk stops at four times
`MAX_RESULTS` paths, in the order of a map iteration. Beyond that an answer
can miss the cheapest journey and differ from one call to the next;
`NothingBetterLeftOut` says what still holds.

## Not modelled

- An unsynced file. `persistLocked` does not call `Sync`; after a power failure
  the renamed file may be empty, and `New` fails on it. `Store` takes
  `os.Rename` for atomic and durable, as the code's comment does. What a file
  system does to unsynced data is not decided by this code.
- Sums of prices beyond `int64`. Search and store add the same numbers, so
  their agreement is not affected; the order of an answer would be.
- Requests cut off by the client's write deadline, and malformed JSON or
  envelopes: they are answered with an error, or end the goroutine, and change
  nothing else.
- The answer of a REGISTER carries an account, as that of a LOGIN does, and one
  that is read late for a LOGIN would name it. In `Session` REGISTER goes the
  way of PING; the properties that mention the client's name end with the
  first timeout of a connection.
- Spellings of a city. `Search` folds case with `strings.ToLower`, the store
  compares with `EqualFold`, and both trim; the models have one value for a
  city, and the few letters on which the two differ are left out.
- Dates, cities, prompts and layout of `cliui`, the views of `service` and the
  payloads of `protocol`: no state and no decision that a property is about.
- Configuration, the smoke and load tests, packaging and examples.
  `PROJECT.json` gives the reason for each.

## Plan

The lock, the temporary file and the rename of `persistLocked` as steps of
their own, with `Store` as their abstraction.
