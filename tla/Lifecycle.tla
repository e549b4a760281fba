------------------------------ MODULE Lifecycle -------------------------------
(***************************************************************************)
(* The life of the server process (src/internal/server, cmd/server): the   *)
(* accept loop of Serve, one goroutine per connection, the goroutine that  *)
(* waits for SIGINT or SIGTERM, and Close, which the latter calls.         *)
(*                                                                         *)
(* They share Server.ln and Server.conns under Server.mu; each critical    *)
(* section is one step.  The process is that of cmd/server, which ends when *)
(* Serve returns, or that of a test (StartTestServer), which goes on and    *)
(* may call Close more than once.                                          *)
(*                                                                         *)
(* An Accept error other than net.ErrClosed leads back to Accept and       *)
(* changes nothing.                                                        *)
(***************************************************************************)
CONSTANTS
  Conns, \* the connections clients open
  None   \* no connection

ASSUME NoneIsNoConn == None \notin Conns

VARIABLES
  process,  \* "main", "test", or "ended"
  serve,    \* where ListenAndServe and Serve are
  hand,     \* the connection Serve has accepted and not started a goroutine for
  ln,       \* Server.ln is set
  listener, \* the listening socket
  conns,    \* Server.conns
  socket,   \* the server's end of each connection
  handler,  \* the goroutine of each connection
  gone,     \* connections whose client has hung up
  closer,   \* where the caller of Close is
  found,    \* the listener Close has taken is not nil
  signal    \* a signal waits in the channel of signal.Notify

serving == <<serve, hand, ln, listener>>

connections == <<conns, socket, handler, gone>>

closing == <<closer, found, signal>>

vars == <<process, serving, connections, closing>>

TypeOK ==
  /\ process \in {"main", "test", "ended"}
  /\ serve \in {"binding", "bound", "accepting", "tracking", "starting", "returned"}
  /\ hand \in Conns \cup {None}
  /\ ln \in BOOLEAN
  /\ listener \in {"none", "open", "closed"}
  /\ conns \subseteq Conns
  /\ socket \in [Conns -> {"none", "queued", "open", "closed"}]
  /\ handler \in [Conns -> {"none", "serving", "closing", "ended"}]
  /\ gone \subseteq Conns
  /\ closer \in {"idle", "starting", "waiting", "called", "took", "closing", "done"}
  /\ found \in BOOLEAN
  /\ signal \in BOOLEAN

Init ==
  /\ process \in {"main", "test"}
  /\ serve = "binding"
  /\ hand = None
  /\ ln = FALSE
  /\ listener = "none"
  /\ conns = {}
  /\ socket = [c \in Conns |-> "none"]
  /\ handler = [c \in Conns |-> "none"]
  /\ gone = {}
  /\ closer = IF process = "main" THEN "starting" ELSE "idle"
  /\ found = FALSE
  /\ signal = FALSE

Up == process # "ended"

-----------------------------------------------------------------------------
(***************************************************************************)
(* ListenAndServe and Serve.                                               *)
(***************************************************************************)
\* The process ends, and the kernel closes what it had open.
Exit ==
  /\ process' = "ended"
  /\ serve' = "returned"
  /\ hand' = None
  /\ ln' = FALSE
  /\ listener' = "closed"
  /\ conns' = {}
  /\ socket' = [c \in Conns |-> IF socket[c] = "none" THEN "none" ELSE "closed"]
  /\ handler' = [c \in Conns |-> IF handler[c] = "none" THEN "none" ELSE "ended"]
  /\ UNCHANGED <<gone, closing>>

\* net.Listen: from here on the kernel takes connections.
Listen ==
  /\ Up
  /\ serve = "binding"
  /\ \/ /\ serve' = "bound"
        /\ listener' = "open"
        /\ UNCHANGED <<process, hand, ln, connections, closing>>
     \/ process = "main" /\ Exit

\* Serve stores the listener where Close will look for it.
StoreListener ==
  /\ Up
  /\ serve = "bound"
  /\ serve' = "accepting"
  /\ ln' = TRUE
  /\ UNCHANGED <<process, hand, listener, connections, closing>>

Accept(c) ==
  /\ Up
  /\ serve = "accepting"
  /\ listener = "open"
  /\ socket[c] = "queued"
  /\ serve' = "tracking"
  /\ hand' = c
  /\ socket' = [socket EXCEPT ![c] = "open"]
  /\ UNCHANGED <<process, ln, listener, conns, handler, gone, closing>>

\* Mutant: the loop goes on after every error of Accept.
AcceptOnAndOn == Up /\ serve = "accepting" /\ listener = "closed" /\ UNCHANGED vars

\* net.ErrClosed ends the loop.
AcceptClosed ==
  /\ Up
  /\ serve = "accepting"
  /\ listener = "closed"
  /\ serve' = "returned"
  /\ UNCHANGED <<process, hand, ln, listener, connections, closing>>

\* Mutant: the connection is not registered.
TrackDropped ==
  /\ Up
  /\ serve = "tracking"
  /\ serve' = "starting"
  /\ UNCHANGED <<process, hand, ln, listener, connections, closing>>

\* track(conn, true)
Track ==
  /\ Up
  /\ serve = "tracking"
  /\ serve' = "starting"
  /\ conns' = conns \cup {hand}
  /\ UNCHANGED <<process, hand, ln, listener, socket, handler, gone, closing>>

\* go s.handleConnection(conn)
Go ==
  /\ Up
  /\ serve = "starting"
  /\ serve' = "accepting"
  /\ handler' = [handler EXCEPT ![hand] = "serving"]
  /\ hand' = None
  /\ UNCHANGED <<process, ln, listener, conns, socket, gone, closing>>

\* main returns after ListenAndServe, whatever the other goroutines do.
MainReturns ==
  /\ process = "main"
  /\ serve = "returned"
  /\ Exit

-----------------------------------------------------------------------------
(***************************************************************************)
(* The goroutine of a connection and its deferred calls.                   *)
(***************************************************************************)
\* Mutant: the deferred calls in the other order.
LeaveUntracking(c) ==
  /\ Up
  /\ handler[c] = "serving"
  /\ handler' = [handler EXCEPT ![c] = "closing"]
  /\ conns' = conns \ {c}
  /\ UNCHANGED <<process, serving, socket, gone, closing>>

\* The loop ends and conn.Close is called.
Leave(c) ==
  /\ Up
  /\ handler[c] = "serving"
  /\ handler' = [handler EXCEPT ![c] = "closing"]
  /\ socket' = [socket EXCEPT ![c] = "closed"]
  /\ UNCHANGED <<process, serving, conns, gone, closing>>

\* Mutant: only a socket that was closed here ends the loop.
HearClose(c) == socket[c] = "closed" /\ Leave(c)

\* A read or a write fails.
Hear(c) == (c \in gone \/ socket[c] = "closed") /\ Leave(c)

\* The idle timeout, the answer to a LOGOUT, a frame that is too long, a panic.
Finish(c) == c \notin gone /\ socket[c] = "open" /\ Leave(c)

\* track(conn, false)
Untrack(c) ==
  /\ Up
  /\ handler[c] = "closing"
  /\ handler' = [handler EXCEPT ![c] = "ended"]
  /\ conns' = conns \ {c}
  /\ UNCHANGED <<process, serving, socket, gone, closing>>

-----------------------------------------------------------------------------
(***************************************************************************)
(* Clients.                                                                *)
(***************************************************************************)
Connect(c) ==
  /\ listener = "open"
  /\ socket[c] = "none"
  /\ socket' = [socket EXCEPT ![c] = "queued"]
  /\ UNCHANGED <<process, serving, conns, handler, gone, closing>>

HangUp(c) ==
  /\ socket[c] \in {"queued", "open"}
  /\ c \notin gone
  /\ gone' = gone \cup {c}
  /\ UNCHANGED <<process, serving, conns, socket, handler, closing>>

-----------------------------------------------------------------------------
(***************************************************************************)
(* Signals and Close.                                                      *)
(***************************************************************************)
\* signal.Notify in the goroutine of main.
Notify ==
  /\ Up
  /\ closer = "starting"
  /\ closer' = "waiting"
  /\ UNCHANGED <<process, serving, connections, found, signal>>

\* SIGINT or SIGTERM: deadly before signal.Notify; the channel keeps one, and
\* after the first nobody reads it.
Signal ==
  /\ process = "main"
  /\ \/ closer = "starting" /\ Exit
     \/ /\ closer # "starting"
        /\ ~signal
        /\ signal' = TRUE
        /\ UNCHANGED <<process, serving, connections, closer, found>>

\* The goroutine of main goes on to Close, or a test calls it.
CallClose ==
  /\ Up
  /\ \/ closer = "waiting" /\ signal
     \/ process = "test" /\ closer \in {"idle", "done"}
  /\ closer' = "called"
  /\ signal' = FALSE
  /\ UNCHANGED <<process, serving, connections, found>>

\* The first critical section of Close.
TakeListener ==
  /\ Up
  /\ closer = "called"
  /\ closer' = "took"
  /\ found' = ln
  /\ ln' = FALSE
  /\ UNCHANGED <<process, serve, hand, listener, connections, signal>>

\* ln.Close, if there was one; connections nobody has accepted are reset.
CloseListener ==
  /\ Up
  /\ closer = "took"
  /\ closer' = "closing"
  /\ \/ /\ found
        /\ listener' = "closed"
        /\ socket' = [c \in Conns |-> IF socket[c] = "queued" THEN "closed" ELSE socket[c]]
     \/ ~found /\ UNCHANGED <<listener, socket>>
  /\ UNCHANGED <<process, serve, hand, ln, conns, handler, gone, found, signal>>

\* The second critical section: close what the map holds.
CloseConns ==
  /\ Up
  /\ closer = "closing"
  /\ closer' = "done"
  /\ socket' = [c \in Conns |-> IF c \in conns THEN "closed" ELSE socket[c]]
  /\ UNCHANGED <<process, serving, conns, handler, gone, found, signal>>

-----------------------------------------------------------------------------
ServeNext == Listen \/ StoreListener \/ AcceptClosed \/ Track \/ Go \/ MainReturns

CloseNext == TakeListener \/ CloseListener \/ CloseConns

Next ==
  \/ ServeNext
  \/ Notify
  \/ Signal
  \/ CallClose
  \/ CloseNext
  \/ \E c \in Conns :
       \/ Accept(c) \/ Hear(c) \/ Finish(c) \/ Untrack(c)
       \/ Connect(c) \/ HangUp(c)

\* Goroutines that can run do run, and a blocked read is told of a socket that
\* was closed at either end.  Clients and signals come or do not come.
Fairness ==
  /\ WF_vars(ServeNext)
  /\ WF_vars(CloseNext)
  /\ \A c \in Conns : WF_vars(Hear(c)) /\ WF_vars(Untrack(c))

Spec == Init /\ [][Next]_vars /\ Fairness

-----------------------------------------------------------------------------
\* Server.conns and the goroutines agree: Close reaches every open connection
\* but the one Serve has in its hand, and no entry stays behind without a
\* goroutine that will remove it.
ConnsExact ==
  /\ \A c \in Conns : socket[c] = "open" => c \in conns \cup {hand}
  /\ \A c \in conns : c = hand \/ handler[c] \in {"serving", "closing"}

\* When Close has closed the listener and returned, at most one connection is
\* open: the one Serve had accepted and not yet tracked.
AtMostOneSurvives ==
  closer = "done" /\ listener = "closed" =>
    \A c, d \in Conns : socket[c] = "open" /\ socket[d] = "open" => c = d

\* A Close that finds the listener ends the accept loop, and the process.
StopsWhenTold ==
  closer = "took" /\ found ~> serve = "returned" /\ process # "main"

\* The server forgets every connection that was accepted and whose client has
\* hung up.
ForgetsTheGone ==
  \A c \in Conns : c \in gone /\ socket[c] = "open" ~> c \notin conns /\ socket[c] = "closed"

\* SIGINT and SIGTERM close the listener and the connections: when Close has
\* returned, nobody listens.  (Not if Close comes before Serve has stored the
\* listener.)
CloseEndsListening == process = "main" /\ closer = "done" => listener # "open"

-----------------------------------------------------------------------------
(***************************************************************************)
(* The inductive invariant.                                                *)
(***************************************************************************)
\* What Serve has in its hand has no goroutine, and is tracked before it gets one.
HandExact ==
  /\ serve \in {"tracking", "starting"} =>
       hand \in Conns /\ handler[hand] = "none" /\ socket[hand] \in {"open", "closed"}
  /\ serve = "starting" => hand \in conns
  /\ serve \notin {"tracking", "starting"} => hand = None

\* A goroutine exists for accepted connections only, and closes before it untracks.
HandlerExact ==
  \A c \in Conns :
    /\ socket[c] \in {"none", "queued"} => handler[c] = "none"
    /\ handler[c] = "closing" => socket[c] = "closed"

IInv == TypeOK /\ HandExact /\ HandlerExact /\ ConnsExact /\ AtMostOneSurvives
=============================================================================
