--------------------------- MODULE LifecycleProofs --------------------------
(***************************************************************************)
(* The safety properties of Lifecycle, for any set of connections.         *)
(***************************************************************************)
EXTENDS Lifecycle, TLAPS

\* Nothing is tracked and nothing is open when the process starts.
LEMMA InitInvariant == Init => IInv
  BY NoneIsNoConn DEF Init, IInv, TypeOK, HandExact, HandlerExact, ConnsExact, AtMostOneSurvives

\* The end of the process closes everything.
LEMMA ExitStep == IInv /\ Exit => IInv'
<1> SUFFICES ASSUME TypeOK, HandExact, HandlerExact, Exit
             PROVE  IInv'
  BY DEF IInv
<1>1. TypeOK'
  BY NoneIsNoConn DEF Exit, closing, TypeOK
<1>2. \A c \in Conns : socket'[c] \in {"none", "closed"}
  BY DEF Exit, TypeOK
<1>3. HandExact' /\ ConnsExact' /\ AtMostOneSurvives'
  BY <1>2 DEF Exit, HandExact, ConnsExact, AtMostOneSurvives
<1>4. HandlerExact'
  BY NoneIsNoConn DEF Exit, TypeOK, HandlerExact
<1> QED
  BY <1>1, <1>3, <1>4 DEF IInv

\* The steps of Serve hand a connection from the kernel to the map and to a
\* goroutine, in this order.
LEMMA ServeStep == IInv /\ (ServeNext \/ \E c \in Conns : Accept(c)) => IInv'
<1> SUFFICES ASSUME IInv, ServeNext \/ \E c \in Conns : Accept(c)
             PROVE  IInv'
  OBVIOUS
<1> USE NoneIsNoConn DEF IInv, TypeOK, HandExact, HandlerExact, ConnsExact, AtMostOneSurvives,
                         connections, closing
<1>1. CASE Exit
  BY <1>1, ExitStep
<1>2. CASE Listen
  BY <1>1, <1>2 DEF Listen
<1>3. CASE StoreListener
  BY <1>3 DEF StoreListener
<1>4. CASE AcceptClosed
  BY <1>4 DEF AcceptClosed
<1>5. CASE Track
  BY <1>5 DEF Track
<1>6. CASE Go
  <2> USE <1>6 DEF Go
  <2>1. hand \in conns /\ handler[hand] = "none" /\ socket[hand] \in {"open", "closed"}
    OBVIOUS
  <2>2. TypeOK' /\ HandExact' /\ AtMostOneSurvives'
    BY <2>1
  <2>3. HandlerExact'
    BY <2>1
  <2>4. ConnsExact'
    BY <2>1
  <2> QED
    BY <2>2, <2>3, <2>4
<1>7. CASE MainReturns
  BY <1>1, <1>7 DEF MainReturns
<1>8. ASSUME NEW c \in Conns, Accept(c)
      PROVE  IInv'
  BY <1>8 DEF Accept
<1> QED
  BY <1>2, <1>3, <1>4, <1>5, <1>6, <1>7, <1>8 DEF ServeNext

\* A goroutine closes its connection before it takes it out of the map.
LEMMA HandlerStep ==
  ASSUME IInv, NEW c \in Conns, Hear(c) \/ Finish(c) \/ Untrack(c)
  PROVE  IInv'
<1> USE NoneIsNoConn DEF IInv, TypeOK, HandExact, HandlerExact, ConnsExact, AtMostOneSurvives,
                         serving, closing
<1>1. CASE Leave(c)
  BY <1>1 DEF Leave
<1>2. CASE Untrack(c)
  BY <1>2 DEF Untrack
<1> QED
  BY <1>1, <1>2 DEF Hear, Finish

\* Clients only add to the queue of the listener.
LEMMA ClientStep ==
  ASSUME IInv, NEW c \in Conns, Connect(c) \/ HangUp(c)
  PROVE  IInv'
<1> USE NoneIsNoConn DEF IInv, TypeOK, HandExact, HandlerExact, ConnsExact, AtMostOneSurvives,
                         serving, closing
<1>1. CASE Connect(c)
  BY <1>1 DEF Connect
<1>2. CASE HangUp(c)
  BY <1>2 DEF HangUp
<1> QED
  BY <1>1, <1>2

\* Signals and Close: when the connections of the map are closed, what is still
\* open is in the hand of Serve.
LEMMA CloseStep ==
  ASSUME IInv, Notify \/ Signal \/ CallClose \/ CloseNext
  PROVE  IInv'
<1> USE NoneIsNoConn DEF IInv, TypeOK, HandExact, HandlerExact, ConnsExact, AtMostOneSurvives,
                         serving, connections
<1>1. CASE Notify
  BY <1>1 DEF Notify
<1>2. CASE Signal
  <2>1. CASE Exit
    BY <2>1, ExitStep
  <2>2. CASE signal' = TRUE /\ UNCHANGED <<process, serving, connections, closer, found>>
    <3>1. TypeOK'
      BY <2>2
    <3>2. HandExact' /\ HandlerExact' /\ ConnsExact' /\ AtMostOneSurvives'
      BY <2>2
    <3> QED
      BY <3>1, <3>2
  <2> QED
    BY <1>2, <2>1, <2>2 DEF Signal
<1>3. CASE CallClose
  <2>1. TypeOK'
    BY <1>3 DEF CallClose
  <2>2. HandExact' /\ HandlerExact' /\ ConnsExact' /\ AtMostOneSurvives'
    BY <1>3 DEF CallClose
  <2> QED
    BY <2>1, <2>2
<1>4. CASE TakeListener
  <2>1. TypeOK'
    BY <1>4 DEF TakeListener
  <2>2. HandExact' /\ HandlerExact' /\ ConnsExact' /\ AtMostOneSurvives'
    BY <1>4 DEF TakeListener
  <2> QED
    BY <2>1, <2>2
<1>5. CASE CloseListener
  <2>1. TypeOK'
    BY <1>5 DEF CloseListener
  <2>2. HandExact' /\ HandlerExact' /\ ConnsExact' /\ AtMostOneSurvives'
    BY <1>5 DEF CloseListener
  <2> QED
    BY <2>1, <2>2
<1>6. CASE CloseConns
  BY <1>6 DEF CloseConns
<1> QED
  BY <1>1, <1>2, <1>3, <1>4, <1>5, <1>6 DEF CloseNext

LEMMA StutterStep == IInv /\ UNCHANGED vars => IInv'
  BY DEF vars, serving, connections, closing, IInv, TypeOK, HandExact, HandlerExact, ConnsExact,
         AtMostOneSurvives

LEMMA NextInvariant == IInv /\ [Next]_vars => IInv'
  BY ServeStep, HandlerStep, ClientStep, CloseStep, StutterStep DEF Next

\* The invariant holds of every behaviour, fair or not.
THEOREM LifecycleInvariant == Spec => []IInv
<1>1. Init => IInv
  BY InitInvariant
<1>2. IInv /\ [Next]_vars => IInv'
  BY NextInvariant
<1> QED
  BY <1>1, <1>2, PTL DEF Spec

\* The map and the goroutines agree, and Close reaches every open connection
\* but the one in the hand of Serve.
THEOREM MapExact == Spec => []ConnsExact
<1>1. IInv => ConnsExact
  BY DEF IInv
<1> QED
  BY <1>1, LifecycleInvariant, PTL

\* A Close that has closed the listener leaves at most one connection open.
THEOREM OneSurvivor == Spec => []AtMostOneSurvives
<1>1. IInv => AtMostOneSurvives
  BY DEF IInv
<1> QED
  BY <1>1, LifecycleInvariant, PTL
=============================================================================
