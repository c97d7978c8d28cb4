--------------------------- MODULE ConnLoggerProofs ---------------------------
(***************************************************************************)
(* Proofs about ConnLogger, for any addresses, any bound on connections    *)
(* and any set of goroutines, of which one logs alone.                     *)
(*                                                                         *)
(* None of the properties is inductive.  Place says, for every point of    *)
(* LogWrite, what is known there of the connection, the flag and the       *)
(* deferred call; Recovering says what is known after an error while       *)
(* nothing but the next message happens: the message reconnects, dials     *)
(* the addresses in order, and writes to a connection that is alive.       *)
(***************************************************************************)
EXTENDS ConnLogger, FiniteSetTheorems, TLAPS

Points == {"idle", "hangingUp", "dialing", "reconnected", "connected", "printing", "panicked"}
            \cup Outcomes

Place(w) ==
  /\ open \subseteq {innerWriter} \ {Nil}
  /\ pc[w] \in {"idle", "hangingUp", "dialing", "reconnected", "connected"} => deferred[w] = Nil
  /\ pc[w] \in {"idle", "hangingUp"} => addr[w] = 1
  /\ pc[w] \in {"idle", "hangingUp"} /\ reconnectOnMsg => open = {}
  /\ pc[w] = "dialing" => open = {} /\ innerWriter = Nil
  /\ pc[w] \in {"reconnected", "connected", "printing"} \cup Outcomes => innerWriter # Nil /\ addr[w] = 1
  /\ pc[w] \in {"connected", "printing"} => ~illNetFlag
  /\ pc[w] \in {"printing"} \cup Outcomes /\ reconnectOnMsg => deferred[w] = innerWriter
  /\ pc[w] = "error" => illNetFlag
  /\ pc[w] \notin {"dropped", "panicked"}

Recovering(w) ==
  failed =>
    /\ pc[w] = "idle" => illNetFlag \/ innerWriter = Nil
    /\ pc[w] = "dialing" => \A i \in 1 .. Len(Addrs) : i < addr[w] => Addrs[i] \notin up
    /\ pc[w] \in {"reconnected", "connected", "printing"} => innerWriter \in live
    /\ pc[w] \in Outcomes => pc[w] = "received"

Typed ==
  /\ TypeOK
  /\ pc \in [active -> Points]
  /\ failed \in BOOLEAN /\ illNetFlag \in BOOLEAN
  /\ reconnect \in BOOLEAN /\ reconnectOnMsg \in BOOLEAN

IInv == Typed /\ (Alone => \A w \in active : Place(w) /\ Recovering(w))

\* What a step of one goroutine that is alone does once a message has failed.
Recovers ==
  Alone /\ failed /\ up # {} =>
    \A w \in active : pc[w] # "idle" /\ pc'[w] = "idle" => pc[w] = "received"

-----------------------------------------------------------------------------
\* One goroutine that is alone is the only one.
LEMMA OnlyOne ==
  ASSUME Typed, Alone, NEW v \in active, NEW w \in active
  PROVE  v = w
  <1>1. IsFiniteSet(active)
    BY ConnAssumption, FS_Subset DEF Typed, TypeOK
  <1>2. PICK x : active = {x}
    BY <1>1, FS_Singleton DEF Alone
  <1>3. QED
    BY <1>2

\* The nil connection is none.
LEMMA NilIsNone == Nil \notin Conns
  BY ConnAssumption DEF Nil, Conns

\* The connection that Dial makes.
LEMMA NewConnection ==
  ASSUME Unused # {}
  PROVE  (CHOOSE c \in Unused : TRUE) \in Conns /\ (CHOOSE c \in Unused : TRUE) # Nil
  BY NilIsNone DEF Unused

LEMMA Initially == Init => IInv
  <1> SUFFICES ASSUME Init PROVE IInv
    OBVIOUS
  <1>1. Typed
    <2>1. active \subseteq Writers /\ up \subseteq Servers /\ open = {} /\ live = {}
      BY DEF Init
    <2>2. addr \in [active -> 1 .. Len(Addrs)]
      BY ConnAssumption DEF Init
    <2>3. deferred \in [active -> Conns \cup {Nil}] /\ innerWriter \in Conns \cup {Nil}
      BY DEF Init
    <2>4. pc \in [active -> Points]
      BY DEF Init, Points
    <2>5. QED
      BY <2>1, <2>2, <2>3, <2>4 DEF Init, Typed, TypeOK
  <1>2. \A w \in active : Place(w) /\ Recovering(w)
    BY DEF Init, Place, Recovering, Outcomes
  <1>3. QED
    BY <1>1, <1>2 DEF IInv

\* The goroutine whose step it is, when it is alone.
LEMMA Single ==
  ASSUME IInv, Typed', UNCHANGED active, NEW w \in active,
         Alone => Place(w)' /\ Recovering(w)'
  PROVE  IInv'
  <1> SUFFICES ASSUME Alone', NEW v \in active PROVE Place(v)' /\ Recovering(v)'
    BY DEF IInv
  <1>1. Alone
    BY DEF Alone
  <1>2. v = w
    BY <1>1, OnlyOne DEF IInv
  <1>3. QED
    BY <1>1, <1>2

LEMMA BeginStep == ASSUME IInv, NEW w \in active, Begin(w) PROVE IInv' /\ Recovers
  <1>1. Typed'
    BY DEF Begin, Goto, IInv, Typed, TypeOK, Points
  <1>2. pc[w] = "idle" /\ pc'[w] = IF NeedToConnectOnMsg THEN "hangingUp" ELSE "connected"
    BY DEF Begin, At, Goto, IInv, Typed
  <1>3. ASSUME Alone PROVE Place(w)' /\ Recovering(w)'
    <2>1. Place(w) /\ Recovering(w)
      BY <1>3 DEF IInv
    <2>2. QED
      BY <1>2, <2>1 DEF Begin, Place, Recovering, NeedToConnectOnMsg, Outcomes
  <1>4. Recovers
    BY <1>2, OnlyOne DEF Recovers, IInv
  <1>5. QED
    BY <1>1, <1>3, <1>4, Single DEF Begin

LEMMA StartConnectStep == ASSUME IInv, NEW w \in active, StartConnect(w) PROVE IInv' /\ Recovers
  <1>1. Typed'
    BY DEF StartConnect, HangUp, Closed, Goto, IInv, Typed, TypeOK, Points, config
  <1>2. pc[w] = "hangingUp" /\ pc'[w] = "dialing"
    BY DEF StartConnect, At, Goto, IInv, Typed
  <1>3. ASSUME Alone PROVE Place(w)' /\ Recovering(w)'
    <2>1. Place(w) /\ Recovering(w)
      BY <1>3 DEF IInv
    <2>2. Place(w)'
      BY <1>2, <2>1 DEF StartConnect, HangUp, Closed, Place, Outcomes, config
    <2>3. Recovering(w)'
      BY <1>2, <2>1 DEF StartConnect, Place, Recovering, Outcomes
    <2>4. QED
      BY <2>2, <2>3
  <1>4. Recovers
    BY <1>2, OnlyOne DEF Recovers, IInv
  <1>5. QED
    BY <1>1, <1>3, <1>4, Single DEF StartConnect

LEMMA DialStep == ASSUME IInv, NEW w \in active, Dial(w) PROVE IInv' /\ Recovers
  <1>1. pc[w] = "dialing" /\ ~Panicked /\ IInv /\ addr[w] \in 1 .. Len(Addrs) /\ Len(Addrs) \in Nat
    BY ConnAssumption DEF Dial, At, IInv, Typed, TypeOK
  <1>2. CASE Addrs[addr[w]] \in up
    <2> DEFINE c == CHOOSE d \in Unused : TRUE
    <2>1. /\ Unused # {} /\ innerWriter' = c /\ open' = Kept(open) \cup {c}
          /\ live' = Kept(live) \cup {c} /\ pc' = [pc EXCEPT ![w] = "reconnected"]
          /\ addr' = [addr EXCEPT ![w] = 1]
          /\ UNCHANGED <<active, up, config, illNetFlag, deferred, failed>>
      BY <1>2 DEF Dial, Goto
    <2>2. c \in Conns /\ c # Nil
      BY <2>1, NewConnection
    <2>3. Kept(live) \subseteq Kept(open) /\ Kept(open) \subseteq open
      BY DEF IInv, Typed, TypeOK, Kept
    <2>4. pc' \in [active -> Points] /\ addr' \in [active -> 1 .. Len(Addrs)] /\ pc'[w] = "reconnected"
          /\ addr'[w] = 1
      BY <1>1, <2>1 DEF IInv, Typed, TypeOK, Points
    <2>5. open' \subseteq Conns /\ live' \subseteq open' /\ innerWriter' \in Conns
      BY <2>1, <2>2, <2>3 DEF IInv, Typed, TypeOK
    <2>6. Typed'
      BY <2>1, <2>4, <2>5 DEF IInv, Typed, TypeOK, config
    <2>7. ASSUME Alone PROVE Place(w)' /\ Recovering(w)'
      <3>1. Place(w) /\ Recovering(w)
        BY <2>7 DEF IInv
      <3>2. open = {} /\ deferred[w] = Nil
        BY <1>1, <3>1 DEF Place
      <3>3. open' = {c} /\ c \in live'
        BY <2>1, <2>3, <3>2
      <3>4. QED
        BY <2>1, <2>2, <2>4, <3>2, <3>3 DEF Place, Recovering, Outcomes
    <2>8. QED
      BY <1>1, <2>1, <2>4, <2>6, <2>7, Single, OnlyOne DEF Recovers, IInv
  <1>3. CASE Addrs[addr[w]] \notin up
    <2>1. DialFails(w) /\ UNCHANGED <<innerWriter, open, live, active, up, config, illNetFlag, deferred>>
      BY <1>3 DEF Dial
    <2>2. CASE addr[w] < Len(Addrs) /\ addr' = [addr EXCEPT ![w] = @ + 1] /\ UNCHANGED <<pc, failed>>
      <3>1. addr' \in [active -> 1 .. Len(Addrs)] /\ addr'[w] = addr[w] + 1
        BY <1>1, <2>2 DEF IInv, Typed, TypeOK
      <3>2. Typed'
        BY <2>1, <2>2, <3>1 DEF IInv, Typed, TypeOK, config
      <3>3. ASSUME Alone PROVE Place(w)' /\ Recovering(w)'
        <4>1. Place(w) /\ Recovering(w)
          BY <3>3 DEF IInv
        <4>2. Place(w)'
          BY <1>1, <2>1, <2>2, <3>1, <4>1 DEF Place, Outcomes, config
        <4>3. failed => \A i \in 1 .. Len(Addrs) : i < addr'[w] => Addrs[i] \notin up
          <5> SUFFICES ASSUME failed, NEW i \in 1 .. Len(Addrs), i < addr[w] + 1
                       PROVE  Addrs[i] \notin up
            BY <3>1
          <5>1. i < addr[w] \/ i = addr[w]
            BY <1>1
          <5>2. QED
            BY <1>1, <1>3, <4>1, <5>1 DEF Recovering
        <4>4. QED
          BY <1>1, <2>1, <2>2, <4>2, <4>3 DEF Recovering, Outcomes
      <3>4. QED
        BY <1>1, <2>1, <2>2, <3>2, <3>3, Single, OnlyOne DEF Recovers, IInv
    <2>3. CASE /\ ~(addr[w] < Len(Addrs)) /\ addr' = [addr EXCEPT ![w] = 1]
               /\ pc' = [pc EXCEPT ![w] = "idle"] /\ failed' = TRUE
      <3>1. addr' \in [active -> 1 .. Len(Addrs)] /\ addr'[w] = 1
            /\ pc' \in [active -> Points] /\ pc'[w] = "idle"
        BY <1>1, <2>3 DEF IInv, Typed, TypeOK, Points
      <3>2. Typed'
        BY <2>1, <2>3, <3>1 DEF IInv, Typed, TypeOK, config
      <3>3. ASSUME Alone PROVE Place(w)' /\ Recovering(w)'
        <4>1. Place(w) /\ Recovering(w)
          BY <3>3 DEF IInv
        <4>2. open = {} /\ innerWriter = Nil /\ deferred[w] = Nil
          BY <1>1, <4>1 DEF Place
        <4>3. QED
          BY <2>1, <3>1, <4>2 DEF Place, Recovering, Outcomes
      <3>4. Recovers
        <4> SUFFICES ASSUME Alone, failed PROVE up = {}
          BY <1>1, <2>3, OnlyOne DEF Recovers, IInv
        <4>1. addr[w] = Len(Addrs)
          BY <1>1, <2>3
        <4>2. Recovering(w)
          BY DEF IInv
        <4>3. \A i \in 1 .. Len(Addrs) : i < Len(Addrs) => Addrs[i] \notin up
          BY <1>1, <4>1, <4>2 DEF Recovering
        <4>4. \A i \in 1 .. Len(Addrs) : Addrs[i] \notin up
          <5> SUFFICES ASSUME NEW i \in 1 .. Len(Addrs) PROVE Addrs[i] \notin up
            OBVIOUS
          <5>1. i < Len(Addrs) \/ i = Len(Addrs)
            BY <1>1
          <5>2. QED
            BY <1>3, <4>1, <4>3, <5>1
        <4>5. QED
          BY <4>4 DEF IInv, Typed, TypeOK, Servers
      <3>5. QED
        BY <1>1, <2>1, <3>2, <3>3, <3>4, Single
    <2>4. QED
      BY <2>1, <2>2, <2>3 DEF DialFails, Return, Goto
  <1>4. QED
    BY <1>2, <1>3

LEMMA ReconnectedStep == ASSUME IInv, NEW w \in active, Reconnected(w) PROVE IInv' /\ Recovers
  <1>1. Typed'
    BY DEF Reconnected, Goto, IInv, Typed, TypeOK, Points, Outcomes, config
  <1>2. pc[w] = "reconnected" /\ pc'[w] = "connected"
    BY DEF Reconnected, Goto, At, IInv, Typed
  <1>3. ASSUME Alone PROVE Place(w)' /\ Recovering(w)'
    <2>1. Place(w) /\ Recovering(w)
      BY <1>3 DEF IInv
    <2>2. Place(w)'
      BY <1>2, <2>1 DEF Reconnected, Goto, IInv, Typed, TypeOK, Place, Outcomes, config
    <2>3. Recovering(w)'
      BY <1>2, <2>1 DEF Reconnected, Goto, IInv, Typed, TypeOK, Place, Recovering, Outcomes, config
    <2>4. QED
      BY <2>2, <2>3
  <1>4. Recovers
    BY <1>2, OnlyOne DEF Recovers, IInv, Outcomes
  <1>5. QED
    BY <1>1, <1>3, <1>4, Single DEF Reconnected, Goto

LEMMA DeferCloseStep == ASSUME IInv, NEW w \in active, DeferClose(w) PROVE IInv' /\ Recovers
  <1>1. /\ pc[w] = "connected" /\ UNCHANGED <<active, up, open, live, innerWriter, config, illNetFlag, addr, failed>>
        /\ deferred' = [deferred EXCEPT ![w] = Deferred]
        /\ pc' = [pc EXCEPT ![w] = IF reconnectOnMsg /\ innerWriter = Nil THEN "panicked" ELSE "printing"]
    BY DEF DeferClose, At, Goto
  <1>2. Deferred \in Conns \cup {Nil}
    BY DEF Deferred, IInv, Typed, TypeOK
  <1>3. pc' \in [active -> Points] /\ deferred' \in [active -> Conns \cup {Nil}]
    BY <1>1, <1>2 DEF IInv, Typed, TypeOK, Points
  <1>4. Typed'
    BY <1>1, <1>3 DEF IInv, Typed, TypeOK, config
  <1>5. ASSUME Alone PROVE pc'[w] = "printing" /\ Place(w)' /\ Recovering(w)'
    <2>1. Place(w) /\ Recovering(w)
      BY <1>5 DEF IInv
    <2>2. pc'[w] = "printing" /\ deferred'[w] = Deferred
      BY <1>1, <2>1 DEF IInv, Typed, TypeOK, Place
    <2>3. QED
      BY <1>1, <2>1, <2>2 DEF Place, Recovering, Outcomes, Deferred, config
  <1>6. Recovers
    BY <1>5, OnlyOne DEF Recovers, IInv
  <1>7. QED
    BY <1>1, <1>4, <1>5, <1>6, Single

\* The four ends of println; alone, the goroutine does not meet the other two.
Writes(w) ==
  \/ WriteDropped(w) \/ WriteReceived(w) \/ WriteSwallowed(w) \/ WriteFails(w) \/ WritePanics(w)

LEMMA WriteStep == ASSUME IInv, NEW w \in active, Writes(w) PROVE IInv' /\ Recovers
  <1>1. /\ pc[w] = "printing"
        /\ UNCHANGED <<active, up, open, live, innerWriter, config, addr, deferred, failed>>
    BY DEF Writes, WriteDropped, WriteReceived, WriteSwallowed, WriteFails, WritePanics, Println, At
  <1>2. PICK end \in Outcomes \cup {"panicked"} : pc' = [pc EXCEPT ![w] = end]
    BY DEF Writes, WriteDropped, WriteReceived, WriteSwallowed, WriteFails, WritePanics, Println,
           Goto, Outcomes
  <1>3. pc' \in [active -> Points] /\ pc'[w] = end /\ illNetFlag' \in BOOLEAN /\ end # "idle"
    BY <1>2 DEF Writes, WriteDropped, WriteReceived, WriteSwallowed, WriteFails, WritePanics,
                IInv, Typed, Points, Outcomes
  <1>4. Typed'
    BY <1>1, <1>3 DEF IInv, Typed, TypeOK, config
  <1>5. ASSUME Alone PROVE Place(w)' /\ Recovering(w)'
    <2>1. Place(w) /\ Recovering(w)
      BY <1>5 DEF IInv
    <2>2. innerWriter # Nil /\ ~illNetFlag /\ (failed => innerWriter \in live)
      BY <1>1, <2>1 DEF Place, Recovering
    <2>3. WriteReceived(w) \/ WriteSwallowed(w) \/ WriteFails(w)
      BY <2>2 DEF Writes, WriteDropped, WritePanics
    <2>4. /\ end \in {"received", "swallowed", "error"}
          /\ end = "error" => illNetFlag'
          /\ failed => end = "received"
      BY <1>3, <2>2, <2>3 DEF WriteReceived, WriteSwallowed, WriteFails, Println, Goto, IInv, Typed
    <2>5. QED
      BY <1>1, <1>3, <2>1, <2>4 DEF Place, Recovering, Outcomes, config
  <1>6. Recovers
    BY <1>1, <1>3, OnlyOne DEF Recovers, IInv
  <1>7. QED
    BY <1>1, <1>4, <1>5, <1>6, Single

LEMMA DoneStep == ASSUME IInv, NEW w \in active, Done(w) PROVE IInv' /\ Recovers
  <1>1. /\ pc[w] \in Outcomes
        /\ UNCHANGED <<active, up, innerWriter, config, illNetFlag, addr>>
        /\ open' = open \ {deferred[w]} /\ live' = live \ {deferred[w]}
        /\ deferred' = [deferred EXCEPT ![w] = Nil] /\ pc' = [pc EXCEPT ![w] = "idle"]
        /\ failed' = (pc[w] = "error")
    BY DEF Done, Closed, Return, Goto
  <1>2. /\ pc' \in [active -> Points] /\ pc'[w] = "idle"
        /\ deferred' \in [active -> Conns \cup {Nil}] /\ deferred'[w] = Nil
    BY <1>1 DEF IInv, Typed, TypeOK, Points
  <1>3. Typed'
    BY <1>1, <1>2 DEF IInv, Typed, TypeOK, config
  <1>4. ASSUME Alone PROVE Place(w)' /\ Recovering(w)'
    <2>1. Place(w)
      BY <1>4 DEF IInv
    <2>2. reconnectOnMsg => open' = {}
      BY <1>1, <2>1 DEF Place
    <2>3. Place(w)'
      BY <1>1, <1>2, <2>1, <2>2 DEF Place, Outcomes, config
    <2>4. Recovering(w)'
      BY <1>1, <1>2, <2>1 DEF Place, Recovering, Outcomes
    <2>5. QED
      BY <2>3, <2>4
  <1>5. Recovers
    <2> SUFFICES ASSUME Alone, failed PROVE pc[w] = "received"
      BY <1>1, OnlyOne DEF Recovers, IInv
    <2>1. QED
      BY <1>1 DEF IInv, Recovering
  <1>6. QED
    BY <1>1, <1>3, <1>4, <1>5, Single

-----------------------------------------------------------------------------
\* Reconfiguration, and what happens to the network: no message moves.
LEMMA EnvironmentStep ==
  ASSUME IInv, Reconfigure \/ Network
  PROVE  IInv' /\ Recovers
  <1>1. /\ failed' = FALSE /\ UNCHANGED <<active, illNetFlag, pc, addr, deferred>>
        /\ open' \subseteq open
    BY DEF Reconfigure, Network, Configure, Destroy, HangUp, Closed, LinkBreaks, ServerFails, ServerReturns
  <1>2. Typed'
    <2>1. /\ live' \subseteq open' /\ up' \subseteq Servers
          /\ innerWriter' \in Conns \cup {Nil} /\ reconnect' \in BOOLEAN /\ reconnectOnMsg' \in BOOLEAN
      <3>1. CASE Reconfigure
        BY <3>1 DEF Reconfigure, Configure, Destroy, HangUp, Closed, IInv, Typed, TypeOK, config
      <3>2. CASE Network
        BY <3>2 DEF Network, LinkBreaks, ServerFails, ServerReturns, IInv, Typed, TypeOK, config
      <3>3. QED
        BY <3>1, <3>2
    <2>2. QED
      BY <1>1, <2>1 DEF IInv, Typed, TypeOK
  <1>3. ASSUME Alone, NEW w \in active PROVE Place(w)' /\ Recovering(w)'
    <2>1. Place(w)
      BY <1>3 DEF IInv
    <2>2. CASE Network
      BY <1>1, <2>1, <2>2 DEF Network, LinkBreaks, ServerFails, ServerReturns, Place, Recovering, config
    <2>3. CASE Reconfigure
      <3>1. pc[w] = "idle" /\ open' = {}
        BY <1>3, <2>1, <2>3 DEF Reconfigure, Reconfigures, Configure, Destroy, HangUp, Closed, Place
      <3>2. QED
        BY <1>1, <2>1, <3>1 DEF Place, Recovering, Outcomes
    <2>4. QED
      BY <2>2, <2>3
  <1>4. Recovers
    BY <1>1 DEF Recovers
  <1>5. QED
    BY <1>1, <1>2, <1>3, <1>4 DEF IInv, Alone

LEMMA Inductive == ASSUME IInv, [Next]_vars PROVE IInv' /\ (UNCHANGED vars \/ Recovers)
  <1>1. CASE UNCHANGED vars
    BY <1>1 DEF vars, config, IInv, Typed, TypeOK, Alone, Place, Recovering
  <1>2. CASE Reconfigure \/ Network
    BY <1>2, EnvironmentStep
  <1>3. ASSUME NEW w \in active, LogWrite(w) PROVE IInv' /\ Recovers
    BY <1>3, BeginStep, StartConnectStep, DialStep, ReconnectedStep, DeferCloseStep, WriteStep,
       DoneStep DEF LogWrite, Writes
  <1>4. QED
    BY <1>1, <1>2, <1>3 DEF Next

LEMMA Invariant == Spec => []IInv
  <1>1. IInv /\ [Next]_vars => IInv'
    BY Inductive
  <1>2. QED
    BY Initially, <1>1, PTL DEF Spec

\* TypeCorrect: the types; a connection whose server is there is open on this side
\* (conn.go:92-111).
THEOREM TypeCorrect == Spec => []TypeOK
  <1>1. IInv => TypeOK
    BY DEF IInv, Typed
  <1>2. QED
    BY Invariant, <1>1, PTL

\* OneConnection: a goroutine that logs alone leaks no connection (conn.go:38-41, 88-91).
THEOREM OneConnection == Spec => []NoLeak
  <1>1. IInv => NoLeak
    <2> SUFFICES ASSUME IInv, Alone PROVE open \subseteq {innerWriter}
      BY DEF NoLeak
    <2>1. PICK w : active = {w}
      BY ConnAssumption, FS_Subset, FS_Singleton DEF IInv, Typed, TypeOK, Alone
    <2>2. QED
      BY <2>1 DEF IInv, Place
  <1>2. QED
    BY Invariant, <1>1, PTL

\* AlwaysTries: its messages are written, and not to nil (conn.go:55-70).
THEOREM AlwaysTries == Spec => []Tries
  <1>1. IInv => Tries
    BY DEF IInv, Place, Tries
  <1>2. QED
    BY Invariant, <1>1, PTL

\* ConnectionPerMessage: with reconnectOnMsg none is left open between messages
\* (conn.go:64-67).
THEOREM ConnectionPerMessage == Spec => []Disconnects
  <1>1. IInv => Disconnects
    <2> SUFFICES ASSUME IInv, Alone, reconnectOnMsg, \A w \in active : pc[w] = "idle" PROVE open = {}
      BY DEF Disconnects
    <2>1. PICK w : active = {w}
      BY ConnAssumption, FS_Subset, FS_Singleton DEF IInv, Typed, TypeOK, Alone
    <2>2. QED
      BY <2>1 DEF IInv, Place
  <1>2. QED
    BY Invariant, <1>1, PTL

\* NextReceived: after an error the next message is received by a server that is there
\* (conn.go:72-75, 92-106).
THEOREM NextReceived == Spec => LosesOne
  <1>1. IInv /\ [Next]_vars =>
          [Alone /\ failed /\ up # {} =>
             \A w \in active : pc[w] # "idle" /\ pc'[w] = "idle" => pc[w] = "received"]_vars
    BY Inductive DEF Recovers
  <1>2. QED
    BY Invariant, <1>1, PTL DEF Spec, LosesOne
==============================================================================
