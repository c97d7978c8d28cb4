----------------------------- MODULE RLPTypeCache -----------------------------
(***************************************************************************)
(* The cache of decoders and writers of the rlp package (typecache.go).    *)
(*                                                                         *)
(* Goroutines that encode or decode ask for the typeinfo of a type.  What  *)
(* is not cached is generated under the write lock, together with the      *)
(* infos of the types it is made of.  An info is entered empty before it   *)
(* is generated, so that a recursive type finds itself.  Once handed out,  *)
(* infos and everything they point to are used without any lock, while     *)
(* other goroutines generate.                                              *)
(*                                                                         *)
(* There is one info per key (a type and its struct tags), so a key stands *)
(* for its info.  Of a decoder or a writer only its kind is kept: not made *)
(* yet (nil), an error, or a function that calls those of the parts.       *)
(***************************************************************************)
EXTENDS Integers, Sequences

CONSTANTS
  Goroutines,
  Keys,       \* types with their tags
  Asked,      \* the keys without tags, which encoding and decoding ask for
  Parts,      \* Parts[h][k]: keys of the element, or of the fields, half h looks up
  Bad,        \* Bad[h]: keys that half h refuses for themselves: types that are not
              \* serializable, structs with a wrong tag
  NoGoroutine

VARIABLES
  cache,      \* typeCache: the keys entered
  info,       \* info[k][h]: what typeinfo k holds for half h
  holder,     \* the goroutine that has the write lock of typeCacheMutex
  stack,      \* its calls of generate, the innermost last
  pc, want,   \* where a goroutine is in cachedTypeInfo, and for which key
  held        \* infos a goroutine got and may still use

vars == <<cache, info, holder, stack, pc, want, held>>

Halves == {"decoder", "writer"}
Empty == [h \in Halves |-> "unset"]

ASSUME TypesAssumption ==
  /\ Asked \subseteq Keys
  /\ Parts \in [Halves -> [Keys -> Seq(Keys)]]
  /\ Bad \in [Halves -> SUBSET Keys]
  /\ Asked # {}
  /\ NoGoroutine \notin Goroutines

-----------------------------------------------------------------------------
Frame == [key : Keys, half : Halves, next : Nat \ {0}]
Top == stack[Len(stack)]
Advanced == [stack EXCEPT ![Len(stack)].next = @ + 1]

Init ==
  /\ cache = {}
  /\ info = [k \in Keys |-> Empty]
  /\ holder = NoGoroutine
  /\ stack = <<>>
  /\ pc = [g \in Goroutines |-> "idle"]
  /\ want = [g \in Goroutines |-> CHOOSE k \in Asked : TRUE]
  /\ held = [g \in Goroutines |-> {}]

\* cachedDecoder and cachedWriter, called by Encode, Decode, and by an interface or
\* an own DecodeRLP while an outer value is still being worked on.
Ask(g) ==
  /\ pc[g] = "idle"
  /\ \E k \in Asked : want' = [want EXCEPT ![g] = k]
  /\ pc' = [pc EXCEPT ![g] = "asked"]
  /\ UNCHANGED <<cache, info, holder, stack, held>>

Return(g, to) ==
  /\ held' = [held EXCEPT ![g] = @ \cup {want[g]}]
  /\ pc' = [pc EXCEPT ![g] = to]

\* Variant: the map is read without the read lock.
Lookup_NoLock(g) ==
  /\ pc[g] = "asked"
  /\ \/ want[g] \in cache /\ Return(g, "idle")
     \/ want[g] \notin cache /\ pc' = [pc EXCEPT ![g] = "missed"] /\ UNCHANGED held
  /\ UNCHANGED <<cache, info, holder, stack, want>>

\* Under the read lock; what is there is returned.
Lookup(g) ==
  /\ pc[g] = "asked" /\ holder = NoGoroutine
  /\ \/ want[g] \in cache /\ Return(g, "idle")
     \/ want[g] \notin cache /\ pc' = [pc EXCEPT ![g] = "missed"] /\ UNCHANGED held
  /\ UNCHANGED <<cache, info, holder, stack, want>>

\* Variant: a type that is there already is generated again.
cachedTypeInfo1_Again(k, callers) ==
  /\ cache' = cache \cup {k}
  /\ info' = [info EXCEPT ![k] = Empty]
  /\ stack' = Append(callers, [key |-> k, half |-> "decoder", next |-> 1])

\* Returns what is cached; otherwise enters an empty info and calls generate.
cachedTypeInfo1(k, callers) ==
  \/ k \in cache /\ stack' = callers /\ UNCHANGED <<cache, info>>
  \/ /\ k \notin cache
     /\ cache' = cache \cup {k}
     /\ info' = [info EXCEPT ![k] = Empty]
     /\ stack' = Append(callers, [key |-> k, half |-> "decoder", next |-> 1])

Lock(g) ==
  /\ pc[g] = "missed" /\ holder = NoGoroutine
  /\ holder' = g
  /\ pc' = [pc EXCEPT ![g] = "locked"]
  /\ cachedTypeInfo1(want[g], <<>>)
  /\ UNCHANGED <<want, held>>

\* makePtrDecoder, makeListDecoder, structFields and their writers look up a part.
LookupPart(g) ==
  /\ holder = g /\ stack # <<>>
  /\ Top.next <= Len(Parts[Top.half][Top.key])
  /\ cachedTypeInfo1(Parts[Top.half][Top.key][Top.next], Advanced)
  /\ UNCHANGED <<holder, pc, want, held>>

\* Variant: the errors of the parts are not looked at.
Refused_OwnOnly(k, h) == k \in Bad[h]

\* The type itself, or the info of a part, has an error by now.
Refused(k, h) ==
  \/ k \in Bad[h]
  \/ \E i \in 1 .. Len(Parts[h][k]) : info[Parts[h][k][i]][h] = "error"

\* makeDecoder or makeWriter returns; generate goes on, or returns.
Make(g) ==
  /\ holder = g /\ stack # <<>>
  /\ Top.next > Len(Parts[Top.half][Top.key])
  /\ info' = [info EXCEPT ![Top.key][Top.half] =
                IF Refused(Top.key, Top.half) THEN "error" ELSE "set"]
  /\ \/ /\ Top.half = "decoder"
        /\ stack' = [stack EXCEPT ![Len(stack)] =
                       [key |-> Top.key, half |-> "writer", next |-> 1]]
     \/ Top.half = "writer" /\ stack' = SubSeq(stack, 1, Len(stack) - 1)
  /\ UNCHANGED <<cache, holder, pc, want, held>>

\* Variant: the lock is kept when the type has an error.
Unlock_OnSuccess(g) ==
  /\ holder = g /\ stack = <<>>
  /\ holder' = IF info[want[g]]["decoder"] = "error" THEN g ELSE NoGoroutine
  /\ Return(g, "idle")
  /\ UNCHANGED <<cache, info, stack, want>>

\* The deferred Unlock; cachedTypeInfo returns.
Unlock(g) ==
  /\ holder = g /\ stack = <<>>
  /\ holder' = NoGoroutine
  /\ Return(g, "idle")
  /\ UNCHANGED <<cache, info, stack, want>>

\* The value is encoded or decoded: the infos are not used any more.
Finish(g) ==
  /\ pc[g] = "idle" /\ held[g] # {}
  /\ held' = [held EXCEPT ![g] = {}]
  /\ UNCHANGED <<cache, info, holder, stack, pc, want>>

Step(g) == Ask(g) \/ Lookup(g) \/ Lock(g) \/ LookupPart(g) \/ Make(g) \/ Unlock(g) \/ Finish(g)
Next == \E g \in Goroutines : Step(g)

Spec == Init /\ [][Next]_vars

\* A goroutine that waits for the RWMutex gets it: waiting writers hold new readers
\* off and are served in turn. Code that runs goes on.
Fairness ==
  \A g \in Goroutines :
    /\ SF_vars(Lookup(g)) /\ SF_vars(Lock(g))
    /\ WF_vars(LookupPart(g)) /\ WF_vars(Make(g)) /\ WF_vars(Unlock(g))
FairSpec == Spec /\ Fairness

-----------------------------------------------------------------------------
PartsOf(h, k) == {Parts[h][k][i] : i \in 1 .. Len(Parts[h][k])}
Closed(S) == \A k \in S, h \in Halves : PartsOf(h, k) \subseteq S
Complete(k) == \A h \in Halves : info[k][h] # "unset"

\* Everything that half h of k may call, k included.
Reach ==
  [h \in Halves |-> [k \in Keys |->
    {x \in Keys : \A S \in SUBSET Keys :
       (k \in S /\ \A y \in S : PartsOf(h, y) \subseteq S) => x \in S}]]

\* TypeOK: types; calls of generate are in progress only under the lock, each for
\* another type that has its entry already: recursion ends (typecache.go:98-103).
TypeOK ==
  /\ cache \subseteq Keys
  /\ info \in [Keys -> [Halves -> {"unset", "error", "set"}]]
  /\ holder \in Goroutines \cup {NoGoroutine}
  /\ stack \in Seq(Frame)
  /\ pc \in [Goroutines -> {"idle", "asked", "missed", "locked"}]
  /\ want \in [Goroutines -> Asked]
  /\ held \in [Goroutines -> SUBSET Keys]
  /\ holder = NoGoroutine => stack = <<>>
  /\ \A i \in 1 .. Len(stack) : stack[i].key \in cache
  /\ \A i, j \in 1 .. Len(stack) : stack[i].key = stack[j].key => i = j

\* NothingUnset: what a goroutine was given, and all it reaches from there without a
\* lock, was generated completely, whoever generates meanwhile (typecache.go:77-105).
NothingUnset ==
  \A g \in Goroutines : \A k \in held[g], h \in Halves :
    \A x \in Reach[h][k] : Complete(x)

\* Everything that generating k may come to, through either half, k included.
Involved ==
  [k \in Keys |-> {x \in Keys : \A S \in SUBSET Keys : k \in S /\ Closed(S) => x \in S}]

\* ErrorsSpread: at any time, a type is refused exactly if it, or a part of it, is
\* not serializable. Only within a recursion a part may be refused later than the type
\* was made: it saw the empty info (decode.go:249, 389, 415; encode.go:460, 484, 503).
\* The recursion may run through the decoders of some types and the writers of others.
ErrorsSpread ==
  \A k \in Keys, h \in Halves :
    /\ info[k][h] = "error" =>
         k \in Bad[h] \/ \E c \in PartsOf(h, k) : info[c][h] = "error"
    /\ info[k][h] = "set" =>
         /\ k \notin Bad[h]
         /\ \A c \in PartsOf(h, k) : info[c][h] = "set" \/ k \in Involved[c]

\* MadeOnce: a decoder or a writer that was made is never made again, so two values
\* of one type are always treated alike (typecache.go:93-97).
MadeOnce ==
  [][\A k \in Keys, h \in Halves : info[k][h] # "unset" => info'[k][h] = info[k][h]]_vars

\* Answered: whoever asks gets an info, for recursive types and refused types too
\* (typecache.go:77-88).
Answered == \A g \in Goroutines : (pc[g] = "asked") ~> (pc[g] = "idle")
==============================================================================
