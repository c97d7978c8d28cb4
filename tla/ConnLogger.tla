----------------------------- MODULE ConnLogger -----------------------------
(***************************************************************************)
(* The network adapter of the logger (src/logger/conn.go): a connection    *)
(* that is made when a message needs it, breaks with the server behind it, *)
(* and is made again by the message after the one whose write failed.      *)
(*                                                                         *)
(* One goroutine logs and reconfigures the adapter between two messages,   *)
(* or several do both at any time: only the write itself holds the lock of *)
(* the adapter.  The network changes at any time.  A write to a connection *)
(* whose server has gone fails or is swallowed by the buffers of TCP.      *)
(***************************************************************************)
EXTENDS Integers, Sequences, FiniteSets

CONSTANTS
  Writers,   \* goroutines
  Addrs,     \* the addresses of the configuration, in order
  MaxConns   \* bound: connections in existence at a time

ASSUME ConnAssumption ==
  /\ Len(Addrs) \in Nat \ {0}
  /\ MaxConns \in Nat \ {0}
  /\ IsFiniteSet(Writers)

\* The configuration that is model-checked.
TwoServers == <<"s1", "s2">>

Servers == {Addrs[i] : i \in 1 .. Len(Addrs)}
Conns == 1 .. MaxConns
Nil == 0

VARIABLES
  active,          \* the goroutines of this behaviour
  up,              \* servers that accept connections
  open,            \* connections not closed on this side
  live,            \* connections whose server is still there
  innerWriter,     \* a connection, perhaps closed, or Nil
  reconnect,       \* Reconnect
  reconnectOnMsg,  \* ReconnectOnMsg
  illNetFlag,
  pc,              \* where LogWrite is, and what became of the message
  addr,            \* the address it dials
  deferred,        \* the connection a deferred call closes
  failed           \* history: the last message ended with an error, and nothing
                   \* but the next message has happened since

config == <<reconnect, reconnectOnMsg>>
vars == <<active, up, open, live, innerWriter, config, illNetFlag, pc, addr,
          deferred, failed>>

Outcomes == {"received", "swallowed", "error", "dropped"}
Alone == Cardinality(active) = 1
Panicked == \E w \in active : pc[w] = "panicked"
At(w, here) == pc[w] = here /\ ~Panicked
Goto(w, there) == pc' = [pc EXCEPT ![w] = there]
Closed(c) == open' = open \ {c} /\ live' = live \ {c}
Unused == Conns \ (open \cup {innerWriter} \cup {deferred[w] : w \in active})

-----------------------------------------------------------------------------

NeedToConnectOnMsg ==
  reconnect \/ innerWriter = Nil \/ illNetFlag \/ reconnectOnMsg

\* LogWrite, for a message of a level that is logged.
Begin(w) ==
  /\ At(w, "idle")
  /\ Goto(w, IF NeedToConnectOnMsg THEN "hangingUp" ELSE "connected")
  /\ reconnect' = FALSE
  /\ UNCHANGED <<active, up, open, live, innerWriter, reconnectOnMsg, illNetFlag,
                 addr, deferred, failed>>

\* Variant: the old connection is forgotten, not closed.
HangUp_Leaks == UNCHANGED <<open, live>> /\ innerWriter' = Nil

\* Closing Nil closes nothing.
HangUp == Closed(innerWriter) /\ innerWriter' = Nil

StartConnect(w) ==
  /\ At(w, "hangingUp")
  /\ HangUp
  /\ Goto(w, "dialing")
  /\ UNCHANGED <<active, up, config, illNetFlag, addr, deferred, failed>>

Return(w, res) == Goto(w, "idle") /\ failed' = (res = "error")

\* The next address, or the error that none is valid.
DialFails(w) ==
  IF addr[w] < Len(Addrs)
  THEN addr' = [addr EXCEPT ![w] = @ + 1] /\ UNCHANGED <<pc, failed>>
  ELSE Return(w, "error") /\ addr' = [addr EXCEPT ![w] = 1]

\* What is left of the connections when c becomes innerWriter.  One that two
\* goroutines have lost is not followed any further.
Kept(conns) == IF Alone THEN conns ELSE conns \ {innerWriter}

\* The loop of connect.
Dial(w) ==
  /\ At(w, "dialing")
  /\ IF Addrs[addr[w]] \in up
     THEN /\ Unused # {}
          /\ LET c == CHOOSE c \in Unused : TRUE IN
             /\ innerWriter' = c
             /\ open' = Kept(open) \cup {c}
             /\ live' = Kept(live) \cup {c}
          /\ Goto(w, "reconnected")
          /\ addr' = [addr EXCEPT ![w] = 1]
          /\ UNCHANGED failed
     ELSE /\ DialFails(w)
          /\ UNCHANGED <<innerWriter, open, live>>
  /\ UNCHANGED <<active, up, config, illNetFlag, deferred>>

Reconnected(w) ==
  /\ At(w, "reconnected")
  /\ illNetFlag' = FALSE
  /\ Goto(w, "connected")
  /\ UNCHANGED <<active, up, open, live, innerWriter, config, addr, deferred,
                 failed>>

\* defer evaluates innerWriter at once.
Deferred == IF reconnectOnMsg THEN innerWriter ELSE Nil

\* Deferring a call of nil panics.
DeferClose(w) ==
  /\ At(w, "connected")
  /\ deferred' = [deferred EXCEPT ![w] = Deferred]
  /\ Goto(w, IF reconnectOnMsg /\ innerWriter = Nil THEN "panicked" ELSE "printing")
  /\ UNCHANGED <<active, up, open, live, innerWriter, config, illNetFlag, addr,
                 failed>>

\* The end of println, with the lock of the adapter.
Println(w, outcome) ==
  /\ At(w, "printing")
  /\ Goto(w, outcome)
  /\ UNCHANGED <<active, up, open, live, innerWriter, config, addr, deferred, failed>>

\* A message is not even tried while the network is flagged.
WriteDropped(w) ==
  illNetFlag /\ Println(w, "dropped") /\ UNCHANGED illNetFlag

WriteReceived(w) ==
  /\ ~illNetFlag /\ innerWriter \in live
  /\ Println(w, "received") /\ UNCHANGED illNetFlag

WriteSwallowed(w) ==
  /\ ~illNetFlag /\ innerWriter \in open \ live
  /\ Println(w, "swallowed") /\ UNCHANGED illNetFlag

WritePanics(w) ==
  /\ At(w, "printing") /\ ~illNetFlag /\ innerWriter = Nil
  /\ Goto(w, "panicked")
  /\ UNCHANGED <<active, up, open, live, innerWriter, config, illNetFlag, addr,
                 deferred, failed>>

\* Variant: the failure is returned but not remembered.
WriteFails_Forgets(w) ==
  /\ ~illNetFlag /\ innerWriter \notin live \cup {Nil}
  /\ Println(w, "error") /\ UNCHANGED illNetFlag

\* Variant: println fails without releasing the lock and never returns.
WriteFails_Locked(w) ==
  /\ ~illNetFlag /\ innerWriter \notin live \cup {Nil}
  /\ Println(w, "locked") /\ UNCHANGED illNetFlag

WriteFails(w) ==
  /\ ~illNetFlag /\ innerWriter \notin live \cup {Nil}
  /\ Println(w, "error") /\ illNetFlag' = TRUE

\* LogWrite returns: the deferred call closes its connection.
Done(w) ==
  /\ pc[w] \in Outcomes /\ ~Panicked
  /\ Closed(deferred[w])
  /\ deferred' = [deferred EXCEPT ![w] = Nil]
  /\ Return(w, pc[w])
  /\ UNCHANGED <<active, up, innerWriter, config, illNetFlag, addr>>

LogWrite(w) ==
  \/ Begin(w) \/ StartConnect(w) \/ Dial(w) \/ Reconnected(w) \/ DeferClose(w)
  \/ WriteDropped(w) \/ WriteReceived(w) \/ WriteSwallowed(w) \/ WriteFails(w)
  \/ WritePanics(w) \/ Done(w)

-----------------------------------------------------------------------------

\* A goroutine that is alone reconfigures between two messages.
Reconfigures == ~Panicked /\ (Alone => \A w \in active : pc[w] = "idle")

\* Init of the adapter closes the connection and forgets it.
Configure(r, onMsg) ==
  /\ Reconfigures
  /\ HangUp
  /\ reconnect' = r
  /\ reconnectOnMsg' = onMsg
  /\ failed' = FALSE
  /\ UNCHANGED <<active, up, illNetFlag, pc, addr, deferred>>

\* Destroy closes the connection but keeps it: a logger that shares the
\* adapter writes to the closed connection once.
Destroy ==
  /\ Reconfigures
  /\ Closed(innerWriter)
  /\ failed' = FALSE
  /\ UNCHANGED <<active, up, innerWriter, config, illNetFlag, pc, addr, deferred>>

\* A server stops; any of the connections may have been to it.
ServerFails(s) ==
  /\ s \in up
  /\ up' = up \ {s}
  /\ live' \in SUBSET live
  /\ failed' = FALSE
  /\ UNCHANGED <<active, open, innerWriter, config, illNetFlag, pc, addr,
                 deferred>>

ServerReturns(s) ==
  /\ s \in Servers \ up
  /\ up' = up \cup {s}
  /\ failed' = FALSE
  /\ UNCHANGED <<active, open, live, innerWriter, config, illNetFlag, pc, addr,
                 deferred>>

\* A connection breaks while its server goes on.
LinkBreaks ==
  /\ \E c \in live : live' = live \ {c}
  /\ failed' = FALSE
  /\ UNCHANGED <<active, up, open, innerWriter, config, illNetFlag, pc, addr,
                 deferred>>

Network == LinkBreaks \/ \E s \in Servers : ServerFails(s) \/ ServerReturns(s)
Reconfigure == Destroy \/ \E r, onMsg \in BOOLEAN : Configure(r, onMsg)

Init ==
  /\ active \in SUBSET Writers \ {{}}
  /\ up = Servers
  /\ open = {} /\ live = {} /\ innerWriter = Nil
  /\ reconnect \in BOOLEAN /\ reconnectOnMsg \in BOOLEAN
  /\ illNetFlag = FALSE
  /\ pc = [w \in active |-> "idle"]
  /\ addr = [w \in active |-> 1]
  /\ deferred = [w \in active |-> Nil]
  /\ failed = FALSE

Next == Network \/ Reconfigure \/ \E w \in active : LogWrite(w)

\* The goroutines log on and on: a call of LogWrite proceeds and is followed
\* by another.  SetKeepAlive (conn.go:101-103) sees to it that a connection
\* without a server fails in the end.
Fairness ==
  \A w \in Writers :
    WF_vars(w \in active /\ LogWrite(w)) /\ SF_vars(w \in active /\ WriteFails(w))
Spec == Init /\ [][Next]_vars /\ Fairness

-----------------------------------------------------------------------------

TypeOK ==
  /\ active \subseteq Writers /\ up \subseteq Servers
  /\ open \subseteq Conns /\ live \subseteq open
  /\ innerWriter \in Conns \cup {Nil}
  /\ deferred \in [active -> Conns \cup {Nil}]
  /\ addr \in [active -> 1 .. Len(Addrs)]

\* NoLeak: one goroutine has at most one connection open, the one in use: every
\* reconnection, reconfiguration and deferred call closes the one before
\* (conn.go:38-41, 88-91).
NoLeak == Alone => open \subseteq {innerWriter}

\* Tries: LogWrite of one goroutine never returns without having tried to
\* write, and never writes to nil: the flag of an earlier failure is gone and a
\* connection is there whenever the write is reached (conn.go:55-70).
Tries == Alone => \A w \in active : pc[w] \notin {"dropped", "panicked"}

\* Disconnects: with reconnectOnMsg no connection outlives the message it was
\* made for (conn.go:64-67; logger/README.md: "reconnectOnMsg").
Disconnects ==
  Alone /\ reconnectOnMsg /\ (\A w \in active : pc[w] = "idle") => open = {}

\* LosesOne: after an error the next message is received when any of the
\* servers answers and nothing else happens meanwhile (conn.go:72-75, 92-106).
LosesOne ==
  [][Alone /\ failed /\ up # {} =>
       \A w \in active : pc[w] # "idle" /\ pc'[w] = "idle" => pc[w] = "received"
    ]_vars

\* Delivers: when the network has settled with a server that answers and the
\* adapter is left alone, messages are received again and again, unless two
\* goroutines have brought the program down.
Settled == <>[][~(Network \/ Reconfigure)]_vars /\ <>[](up # {})
Delivers ==
  Settled => []<>(Panicked \/ \E w \in active : pc[w] = "received")
=============================================================================
