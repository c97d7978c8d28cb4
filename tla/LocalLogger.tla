----------------------------- MODULE LocalLogger -----------------------------
(***************************************************************************)
(* The front end of the logger (src/logger/log.go): a LocalLogger with its *)
(* list of outputs, over adapters that are registered once.  SetLogger and *)
(* DelLogger exclude each other; Close takes no lock, and messages are     *)
(* written without one.                                                    *)
(*                                                                         *)
(* A file that is closed loses what is written to it.  Elasticsearch is    *)
(* opened by the next message when it is not open, and the message sent by *)
(* a goroutine of its own (src/logger/elastic.go); the console never       *)
(* closes.                                                                 *)
(*                                                                         *)
(* The list is a Go slice.  A message reads its array and its length one   *)
(* after the other, and the array as it goes along it; an output is stored *)
(* in the array in place, and append may find room in it.                  *)
(***************************************************************************)
EXTENDS Integers, Sequences, FiniteSets, SequencesExt

CONSTANTS
  Goroutines,
  NoOne,       \* holds the lock while it is free
  Console,     \* names of registered adapters
  File,
  Elastic,
  Asked,       \* the outputs SetLogger is called for
  Configs,     \* configurations that an adapter accepts
  BadConfig,   \* one that Init refuses
  Off,         \* one with which Elasticsearch stays closed
  NoName,      \* what is in the array before an output is stored there
  Default,     \* the configuration NewLogger gives the console
  MaxSending   \* bound: messages on their way to Elasticsearch

Adapters == {Console, File, Elastic}

ASSUME LoggerAssumption ==
  /\ NoOne \notin Goroutines /\ \A o \in Asked : o.config \in Configs \cup {BadConfig}
  /\ BadConfig \notin Configs /\ Default \in Configs /\ Off \in Configs \ {Default}
  /\ NoName \notin Adapters \cup {o.name : o \in Asked} /\ MaxSending \in Nat

VARIABLES
  outputs,   \* LocalLogger.outputs
  lock,      \* the goroutine that holds LocalLogger.lock
  open,      \* the adapters that are open
  config,    \* the configuration in the fields of an adapter
  sending,   \* goroutines in saveMessage
  crashed,   \* a panic has ended the program
  pc,        \* what a goroutine does
  entry,     \* the output it sets or deletes
  list,      \* the outputs it keeps, or adds one to
  left,      \* the names in the part of the array its message has to go to
  due,       \* history: the names that were on the list all through its write
  got,       \* history: the adapters its message was given to
  torn,      \* the list got another array while it was read
  failed,    \* history: adapters that Init left closed
  disturbed  \* history: Close ran beside SetLogger or DelLogger

adapterVars == <<open, config, sending>>
history == <<due, got, torn, failed, disturbed>>
vars == <<outputs, lock, adapterVars, crashed, pc, entry, list, left, history>>

Names(seq) == {o.name : o \in Range(seq)}
NamesOf(seq) == [i \in DOMAIN seq |-> seq[i].name]
Goto(g, there) == pc' = [pc EXCEPT ![g] = there]
At(g, here) == pc[g] = here /\ ~crashed
Name(g) == entry[g].name
Listed(g) == Name(g) \in Names(outputs)
Position(g) == CHOOSE i \in DOMAIN outputs : outputs[i].name = Name(g)
NoEntry == [name |-> Console, config |-> Default]

Return(g) == Goto(g, "idle") /\ entry' = [entry EXCEPT ![g] = NoEntry]

\* Destroy of some adapters; the console has nothing to close.
Destroy(names) == open' = open \ (names \ {Console})

\* Variant: the new list is stored over the old, in the array that is being read.
Publish_InPlace(g, new) ==
  /\ outputs' = new
  /\ left' = [h \in Goroutines |->
                [i \in DOMAIN left[h] |-> IF Len(got[h]) + i \in DOMAIN new
                                          THEN new[Len(got[h]) + i].name ELSE left[h][i]]]
  /\ due' = [h \in Goroutines |-> due[h] \cap Names(new)]
  /\ list' = [list EXCEPT ![g] = <<>>]
  /\ UNCHANGED torn

\* The list gets a new array: messages that are being written keep the one they have.
Publish(g, new) ==
  /\ outputs' = new
  /\ due' = [h \in Goroutines |-> due[h] \cap Names(new)]
  /\ torn' = [h \in Goroutines |-> torn[h] \/ pc[h] = "reading"]
  /\ list' = [list EXCEPT ![g] = <<>>]
  /\ UNCHANGED left

\* The names in the array: the place of an output is there before the output is.
Unfilled == \E g \in Goroutines : pc[g] = "filling" /\ Listed(g)
Seen == [i \in DOMAIN outputs |-> IF Unfilled /\ i = Len(outputs) THEN NoName
                                  ELSE outputs[i].name]

-----------------------------------------------------------------------------
\* SetLogger.

\* A goroutine calls SetLogger, DelLogger or Close.
Call(g, op, output) ==
  /\ At(g, "idle")
  /\ Goto(g, op)
  /\ entry' = [entry EXCEPT ![g] = output]
  /\ UNCHANGED <<outputs, lock, adapterVars, crashed, list, left, history>>

Lock(g) ==
  /\ lock = NoOne
  /\ lock' = g
  /\ disturbed' = (disturbed \/ \E h \in Goroutines : pc[h] = "closing")

\* The output is there with the same configuration, or nobody has registered
\* its name: SetLogger returns an error.
SetRefused(g) ==
  /\ At(g, "set") /\ lock = NoOne
  /\ entry[g] \in Range(outputs) \/ Name(g) \notin Adapters
  /\ Return(g)
  /\ UNCHANGED <<outputs, lock, adapterVars, crashed, list, left, history>>

\* SetLogger destroys an output that it is going to configure again.
SetLogger(g) ==
  /\ At(g, "set")
  /\ entry[g] \notin Range(outputs) /\ Name(g) \in Adapters
  /\ Lock(g)
  /\ IF Listed(g) THEN Destroy({Name(g)}) /\ Goto(g, "replacing")
                  ELSE Goto(g, "adding") /\ UNCHANGED open
  /\ UNCHANGED <<outputs, config, sending, crashed, entry, list, left, due, got, torn, failed>>

\* Variant: no Unlock on the way out.
InitFails_Locked(g) ==
  /\ At(g, "replacing") \/ At(g, "adding")
  /\ entry[g].config = BadConfig
  /\ failed' = failed \cup {Name(g)}
  /\ Return(g)
  /\ UNCHANGED <<outputs, lock, adapterVars, crashed, list, left, due, got, torn, disturbed>>

\* Init refuses the configuration: "output ignore!"; it stays on the list.
InitFails(g) ==
  /\ At(g, "replacing") \/ At(g, "adding")
  /\ entry[g].config = BadConfig
  /\ failed' = failed \cup {Name(g)}
  /\ lock' = NoOne
  /\ Return(g)
  /\ UNCHANGED <<outputs, adapterVars, crashed, list, left, due, got, torn, disturbed>>

\* What Init leaves open: not Elasticsearch when it is configured without "open".
Opened(o) == IF o.name = Elastic /\ o.config = Off THEN open ELSE open \cup {o.name}

\* Variant: Destroy comes after Init.
InitAdapter_Destroys(g) ==
  /\ At(g, "replacing") \/ At(g, "adding")
  /\ entry[g].config # BadConfig
  /\ open' = IF pc[g] = "adding" THEN Opened(entry[g]) ELSE open \ {Name(g)}
  /\ config' = [config EXCEPT ![Name(g)] = entry[g].config]
  /\ failed' = failed \ {Name(g)}
  /\ Goto(g, IF pc[g] = "adding" THEN "append" ELSE "store")
  /\ UNCHANGED <<outputs, lock, sending, crashed, entry, list, left, due, got, torn, disturbed>>

\* Init opens the adapter.
InitAdapter(g) ==
  /\ At(g, "replacing") \/ At(g, "adding")
  /\ entry[g].config # BadConfig
  /\ open' = Opened(entry[g])
  /\ config' = [config EXCEPT ![Name(g)] = entry[g].config]
  /\ failed' = failed \ {Name(g)}
  /\ Goto(g, IF pc[g] = "adding" THEN "append" ELSE "store")
  /\ UNCHANGED <<outputs, lock, sending, crashed, entry, list, left, due, got, torn, disturbed>>

\* The end of SetLogger: the output is stored where one of its name was, in the array
\* that messages read.  A list that Close has emptied has no such place.
Store(g) ==
  /\ At(g, "store")
  /\ lock' = NoOne
  /\ IF Listed(g) THEN outputs' = [outputs EXCEPT ![Position(g)] = entry[g]] /\ UNCHANGED crashed
                  ELSE crashed' = TRUE /\ UNCHANGED outputs
  /\ Return(g)
  /\ UNCHANGED <<adapterVars, list, left, history>>

\* Or at the end of the list: append takes the list as it is,
AppendTo(g) ==
  /\ At(g, "append")
  /\ list' = [list EXCEPT ![g] = outputs]
  /\ Goto(g, "growing")
  /\ UNCHANGED <<outputs, lock, adapterVars, crashed, entry, left, history>>

\* stores a longer one in a new array,
GrowList(g) ==
  /\ At(g, "growing")
  /\ Publish(g, Append(list[g], entry[g]))
  /\ Goto(g, "filling")
  /\ UNCHANGED <<lock, adapterVars, crashed, entry, got, failed, disturbed>>

\* or finds room in the array and stores only the length (with that of a list which
\* Close has dropped meanwhile the next to look at it panics),
Extend(g) ==
  /\ At(g, "growing") /\ list[g] # <<>>
  /\ IF outputs = list[g] THEN outputs' = Append(outputs, entry[g]) /\ UNCHANGED crashed
                          ELSE crashed' = TRUE /\ UNCHANGED outputs
  /\ list' = [list EXCEPT ![g] = <<>>]
  /\ Goto(g, "filling")
  /\ UNCHANGED <<lock, adapterVars, entry, left, history>>

\* and then the output, for all who have the array.
Fill(g) ==
  /\ At(g, "filling")
  /\ left' = [h \in Goroutines |->
                [i \in DOMAIN left[h] |-> IF left[h][i] = NoName THEN Name(g) ELSE left[h][i]]]
  /\ lock' = NoOne
  /\ Return(g)
  /\ UNCHANGED <<outputs, adapterVars, crashed, list, history>>

-----------------------------------------------------------------------------
\* DelLogger and Close.

\* The outputs of the list but those of the name, collected one after the other.
Kept(seq, name) ==
  LET kept[n \in 0 .. Len(seq)] ==
        IF n = 0 THEN <<>>
        ELSE IF seq[n].name = name THEN kept[n - 1]
        ELSE Append(kept[n - 1], seq[n])
  IN  kept[Len(seq)]

\* DelLogger collects the outputs it keeps in a new list.
DelLogger(g) ==
  /\ At(g, "delete")
  /\ Lock(g)
  /\ Destroy({Name(g)} \cap Names(outputs))
  /\ list' = [list EXCEPT ![g] = Kept(outputs, Name(g))]
  /\ Goto(g, "deleting")
  /\ UNCHANGED <<outputs, config, sending, crashed, entry, left, due, got, torn, failed>>

\* It stores the new list, when that is shorter.
Deleted(g) ==
  /\ At(g, "deleting") /\ Len(list[g]) # Len(outputs)
  /\ Publish(g, list[g])
  /\ lock' = NoOne
  /\ Return(g)
  /\ UNCHANGED <<adapterVars, crashed, got, failed, disturbed>>

NoneDeleted(g) ==
  /\ At(g, "deleting") /\ Len(list[g]) = Len(outputs)
  /\ list' = [list EXCEPT ![g] = <<>>]
  /\ lock' = NoOne
  /\ Return(g)
  /\ UNCHANGED <<outputs, adapterVars, crashed, left, history>>

\* Close and Reset destroy what they find, and drop the list, without the lock.
Close(g) ==
  /\ At(g, "close")
  /\ Destroy(Names(outputs))
  /\ crashed' = Unfilled
  /\ disturbed' = (disturbed \/ lock # NoOne)
  /\ Goto(g, "closing")
  /\ UNCHANGED <<outputs, lock, config, sending, entry, list, left, due, got, torn, failed>>

Closed(g) ==
  /\ At(g, "closing")
  /\ Publish(g, <<>>)
  /\ Return(g)
  /\ UNCHANGED <<lock, adapterVars, crashed, got, failed, disturbed>>

-----------------------------------------------------------------------------
\* writeMsg.

\* writeToLoggers reads where the list is.
WriteMsg(g) ==
  /\ At(g, "idle")
  /\ sending + Cardinality({h \in Goroutines : pc[h] \in {"reading", "writing"}}) < MaxSending
  /\ left' = [left EXCEPT ![g] = Seen]
  /\ due' = [due EXCEPT ![g] = Range(Seen) \ {NoName}]
  /\ Goto(g, "reading")
  /\ UNCHANGED <<outputs, lock, adapterVars, crashed, entry, list, got, torn, failed, disturbed>>

\* And how long.  Beyond the end of an older array there is no output.
ReadLength(g) ==
  /\ At(g, "reading")
  /\ crashed' = (torn[g] /\ Len(outputs) > Len(left[g]))
  /\ left' = [left EXCEPT ![g] = IF ~torn[g] THEN Seen
                                 ELSE IF Len(outputs) > Len(@) THEN <<>>
                                 ELSE SubSeq(@, 1, Len(outputs))]
  /\ Goto(g, "writing")
  /\ UNCHANGED <<outputs, lock, adapterVars, entry, list, history>>

\* Elasticsearch connects again when it has to, and leaves the message to a
\* goroutine.
ElasticWrite == sending' = sending + 1 /\ open' = open \cup {Elastic}

\* LogWrite of the next adapter, which is read from the array; an output that has
\* not been stored there yet is nil.
LogWrite(g) ==
  /\ At(g, "writing") /\ left[g] # <<>> /\ Head(left[g]) # NoName
  /\ LET name == Head(left[g]) IN
     /\ got' = [got EXCEPT ![g] = Append(@, name)]
     /\ left' = [left EXCEPT ![g] = Tail(@)]
     /\ IF name = Elastic
        THEN ElasticWrite
        ELSE UNCHANGED <<sending, open>>
  /\ UNCHANGED <<outputs, lock, config, crashed, pc, entry, list, due, torn, failed, disturbed>>

NilOutput(g) ==
  /\ At(g, "writing") /\ left[g] # <<>> /\ Head(left[g]) = NoName
  /\ crashed' = TRUE
  /\ UNCHANGED <<outputs, lock, adapterVars, pc, entry, list, left, history>>

Written(g) ==
  /\ At(g, "writing") /\ left[g] = <<>>
  /\ Return(g)
  /\ got' = [got EXCEPT ![g] = <<>>]
  /\ torn' = [torn EXCEPT ![g] = FALSE]
  /\ due' = [due EXCEPT ![g] = {}]
  /\ UNCHANGED <<outputs, lock, adapterVars, crashed, list, left, failed, disturbed>>

\* saveMessage uses the client that is there by then.
SaveMessage ==
  /\ ~crashed /\ sending > 0
  /\ sending' = sending - 1
  /\ crashed' = (Elastic \notin open)
  /\ UNCHANGED <<outputs, lock, open, config, pc, entry, list, left, history>>

-----------------------------------------------------------------------------

\* NewLogger.
Init ==
  /\ outputs = <<NoEntry>>
  /\ lock = NoOne
  /\ open = {Console}
  /\ config = [name \in Adapters |-> Default]
  /\ sending = 0 /\ crashed = FALSE
  /\ pc = [g \in Goroutines |-> "idle"]
  /\ entry = [g \in Goroutines |-> NoEntry]
  /\ list = [g \in Goroutines |-> <<>>] /\ left = [g \in Goroutines |-> <<>>]
  /\ due = [g \in Goroutines |-> {}]
  /\ got = [g \in Goroutines |-> <<>>]
  /\ torn = [g \in Goroutines |-> FALSE]
  /\ failed = {} /\ disturbed = FALSE

\* A call goes on without waiting for anybody.
Proceed(g) ==
  \/ InitFails(g) \/ InitAdapter(g) \/ Store(g)
  \/ AppendTo(g) \/ GrowList(g) \/ Extend(g) \/ Fill(g)
  \/ Deleted(g) \/ NoneDeleted(g) \/ Close(g) \/ Closed(g)
  \/ ReadLength(g) \/ LogWrite(g) \/ NilOutput(g) \/ Written(g)

\* A call needs the lock.
Acquire(g) == SetRefused(g) \/ SetLogger(g) \/ DelLogger(g)

Calls(g) ==
  \/ \E output \in Asked : Call(g, "set", output)
  \/ \E output \in Asked : Call(g, "delete", [name |-> output.name, config |-> Default])
  \/ Call(g, "close", NoEntry)
  \/ WriteMsg(g)

Next == (\E g \in Goroutines : Calls(g) \/ Acquire(g) \/ Proceed(g)) \/ SaveMessage

\* Fairness: a goroutine that can go on does, and gets the lock when it is free again
\* and again.
Spec == Init /\ [][Next]_vars /\ \A g \in Goroutines : SF_vars(Acquire(g) \/ Proceed(g))

-----------------------------------------------------------------------------

\* WholeMessages: unless the list gets another array in the very moment it is read,
\* a message is given to every output that is there all the time it is written,
\* in whatever way others store, add and drop outputs meanwhile, and to none twice
\* (log.go:171-174, 202).
WholeMessages ==
  \A g \in Goroutines :
    pc[g] = "writing" /\ ~torn[g] /\ ~crashed =>
      /\ due[g] \subseteq Range(got[g]) \cup Range(left[g])
      /\ IsInjective(got[g] \o left[g])

\* OutputsOpen: when no call is changing them, the outputs on the list are open
\* with the configuration of the list, except those that Init left closed, and
\* Elasticsearch when it is configured so; Close must not run beside SetLogger and
\* DelLogger (log.go:135-195, 315).
Changing == {"replacing", "adding", "store", "append", "growing", "filling", "deleting", "closing"}
OutputsOpen ==
  (~disturbed /\ ~crashed /\ \A g \in Goroutines : pc[g] \notin Changing) =>
    \A o \in Range(outputs) :
      o.name \notin failed => /\ config[o.name] = o.config
                              /\ o.name \in open \/ (o.name = Elastic /\ o.config = Off)

\* CallsReturn: every call returns, whatever Init says and whoever else calls.
CallsReturn == \A g \in Goroutines : pc[g] # "idle" ~> (pc[g] = "idle" \/ crashed)
=============================================================================
