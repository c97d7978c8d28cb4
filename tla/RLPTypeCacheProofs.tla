-------------------------- MODULE RLPTypeCacheProofs --------------------------
(***************************************************************************)
(* Proofs about RLPTypeCache, for any goroutines and any types.            *)
(*                                                                         *)
(* NothingUnset is not inductive: it says nothing of the infos that are    *)
(* being generated.  Sound adds what generate has established so far:      *)
(* every key in the cache that no call in progress belongs to is complete  *)
(* and has its parts in the cache, and a call in progress has found the    *)
(* parts before the one it looks up next.  When the lock is free no call   *)
(* is in progress, so the whole cache is complete and closed, and what a   *)
(* goroutine reaches from an info of the cache stays within it.            *)
(*                                                                         *)
(* ErrorsSpread is, with the fact that the calls in progress form a chain  *)
(* (Chained): a part whose info is still empty belongs to one of them, so  *)
(* what is being made is involved in that part.                            *)
(***************************************************************************)
EXTENDS RLPTypeCache, TLAPS

Kinds == {"unset", "error", "set"}
Infos == [Keys -> [Halves -> Kinds]]

OnStack(k, s) == \E i \in 1 .. Len(s) : s[i].key = k

\* The call f has looked up the parts before next, and for the writer all of the decoder's;
\* of its info it has made the halves before its own.
CallSound(f, C, I) ==
  /\ I[f.key][f.half] = "unset" /\ I[f.key]["writer"] = "unset"
  /\ f.half = "writer" => I[f.key]["decoder"] # "unset" /\ PartsOf("decoder", f.key) \subseteq C
  /\ \A j \in 1 .. Len(Parts[f.half][f.key]) : j < f.next => Parts[f.half][f.key][j] \in C

CallsSound(s, C, I) == \A i \in 1 .. Len(s) : CallSound(s[i], C, I)

\* No two calls are for the same key, and each has its entry.
CallsDistinct(s, C) ==
  /\ \A i \in 1 .. Len(s) : s[i].key \in C
  /\ \A i, j \in 1 .. Len(s) : s[i].key = s[j].key => i = j

CacheSound(s, C, I) ==
  \A k \in C : OnStack(k, s) \/ \A h \in Halves : I[k][h] # "unset" /\ PartsOf(h, k) \subseteq C

NotEntered(C, I) == \A k \in Keys \ C : \A h \in Halves : I[k][h] = "unset"

Sound(s, C, I) ==
  /\ s \in Seq(Frame) /\ C \subseteq Keys /\ I \in Infos
  /\ CallsDistinct(s, C) /\ CacheSound(s, C, I) /\ NotEntered(C, I)

\* Who has the lock is in cachedTypeInfo and has entered what it wants.
HolderWants ==
  \A g \in Goroutines : holder = g => pc[g] = "locked" /\ want[g] \in cache

IInv ==
  /\ TypeOK
  /\ Sound(stack, cache, info) /\ CallsSound(stack, cache, info)
  /\ HolderWants
  /\ NothingUnset

\* What was made stays.
Kept == \A k \in Keys, h \in Halves : info[k][h] # "unset" => info'[k][h] = info[k][h]

-----------------------------------------------------------------------------
\* A part is a key.
LEMMA PartIsKey ==
  ASSUME NEW h \in Halves, NEW k \in Keys
  PROVE  /\ Parts[h][k] \in Seq(Keys)
         /\ \A i \in 1 .. Len(Parts[h][k]) : Parts[h][k][i] \in Keys
  BY TypesAssumption DEF Halves

\* cachedTypeInfo1 enters k and keeps the invariant, when the parts its callers have
\* found, k among them, are in the cache afterwards.
LEMMA Called ==
  ASSUME NEW k \in Keys, NEW s,
         Sound(s, cache, info), CallsSound(s, cache \cup {k}, info),
         cachedTypeInfo1(k, s)
  PROVE  /\ Sound(stack', cache', info') /\ CallsSound(stack', cache', info')
         /\ k \in cache' /\ cache \subseteq cache' /\ Kept
  <1>1. CASE k \in cache /\ stack' = s /\ UNCHANGED <<cache, info>>
    <2>1. cache \cup {k} = cache
      BY <1>1
    <2>2. QED
      BY <1>1, <2>1 DEF Kept
  <1>2. CASE /\ k \notin cache
             /\ cache' = cache \cup {k}
             /\ info' = [info EXCEPT ![k] = Empty]
             /\ stack' = Append(s, [key |-> k, half |-> "decoder", next |-> 1])
    <2> DEFINE f == [key |-> k, half |-> "decoder", next |-> 1]
    <2>1. f \in Frame
      BY DEF Frame, Halves
    <2>2. s \in Seq(Frame) /\ info \in Infos /\ cache \subseteq Keys
      BY DEF Sound
    <2>3. /\ stack' \in Seq(Frame) /\ Len(stack') = Len(s) + 1
          /\ \A i \in 1 .. Len(s) : stack'[i] = s[i]
          /\ stack'[Len(s) + 1] = f
      BY <1>2, <2>1, <2>2
    <2>4. Empty \in [Halves -> Kinds] /\ \A h \in Halves : Empty[h] = "unset"
      BY DEF Empty, Kinds
    <2>5. /\ info' \in Infos
          /\ \A h \in Halves : info'[k][h] = "unset"
          /\ \A x \in Keys : x # k => info'[x] = info[x]
      BY <1>2, <2>2, <2>4 DEF Infos
    <2>6. \A i \in 1 .. Len(s) : s[i] \in Frame /\ s[i].key \in cache /\ s[i].key # k
      BY <1>2, <2>2 DEF Sound, CallsDistinct
    <2>7. CallsDistinct(stack', cache')
      BY <1>2, <2>2, <2>3, <2>6 DEF Sound, CallsDistinct
    <2>8. CacheSound(stack', cache', info')
      <3> SUFFICES ASSUME NEW x \in cache', ~OnStack(x, stack')
                   PROVE  \A h \in Halves : info'[x][h] # "unset" /\ PartsOf(h, x) \subseteq cache'
        BY DEF CacheSound
      <3>1. x # k
        BY <2>2, <2>3 DEF OnStack
      <3>2. x \in cache /\ ~OnStack(x, s)
        BY <1>2, <2>2, <2>3, <3>1 DEF OnStack
      <3>3. \A h \in Halves : info[x][h] # "unset" /\ PartsOf(h, x) \subseteq cache
        BY <3>2 DEF Sound, CacheSound
      <3>4. QED
        BY <1>2, <2>2, <2>5, <3>1, <3>2, <3>3
    <2>9. NotEntered(cache', info')
      BY <1>2, <2>5 DEF NotEntered, Sound
    <2>10. CallsSound(stack', cache', info')
      <3> SUFFICES ASSUME NEW i \in 1 .. Len(stack') PROVE CallSound(stack'[i], cache', info')
        BY DEF CallsSound
      <3>1. CASE i = Len(s) + 1
        <4>1. stack'[i] = f /\ f.key = k /\ f.half = "decoder" /\ f.next = 1
          BY <2>3, <3>1
        <4>2. Len(Parts["decoder"][k]) \in Nat
          BY PartIsKey DEF Halves
        <4>3. QED
          BY <2>5, <4>1, <4>2 DEF CallSound, Halves
      <3>2. CASE i \in 1 .. Len(s)
        <4>1. stack'[i] = s[i] /\ s[i].key \in Keys /\ s[i].key # k
          BY <2>2, <2>3, <2>6, <3>2
        <4>2. info'[s[i].key] = info[s[i].key]
          BY <2>5, <4>1
        <4>3. CallSound(s[i], cache', info)
          BY <1>2, <3>2 DEF CallsSound
        <4>4. QED
          BY <4>1, <4>2, <4>3 DEF CallSound
      <3>3. QED
        BY <2>2, <2>3, <3>1, <3>2
    <2>11. Kept
      BY <1>2, <2>5 DEF Kept, Sound, NotEntered
    <2>12. QED
      BY <1>2, <2>2, <2>3, <2>5, <2>7, <2>8, <2>9, <2>10, <2>11 DEF Sound
  <1>3. QED
    BY <1>1, <1>2 DEF cachedTypeInfo1

\* When no call is in progress, whatever is reached from the cache is complete.
LEMMA CacheReady ==
  ASSUME Sound(<<>>, cache, info), NEW k \in cache, NEW h \in Halves, NEW x \in Reach[h][k]
  PROVE  Complete(x)
  <1>1. cache \in SUBSET Keys /\ k \in Keys
    BY DEF Sound
  <1>2. \A y \in cache : \A e \in Halves : info[y][e] # "unset" /\ PartsOf(e, y) \subseteq cache
    BY DEF Sound, CacheSound, OnStack
  <1>3. x \in cache
    BY <1>1, <1>2 DEF Reach
  <1>4. QED
    BY <1>2, <1>3 DEF Complete

-----------------------------------------------------------------------------
\* NothingUnset stays when infos stay made and no goroutine gets another one.
LEMMA HeldKept ==
  ASSUME TypeOK, NothingUnset, Kept, UNCHANGED held
  PROVE  NothingUnset'
  <1> SUFFICES ASSUME NEW g \in Goroutines, NEW k \in held[g], NEW h \in Halves, NEW x \in Reach[h][k]
               PROVE  Complete(x)'
    BY DEF NothingUnset
  <1>1. Complete(x)
    BY DEF NothingUnset
  <1>2. k \in Keys
    BY DEF TypeOK
  <1>3. x \in Keys
    BY <1>2 DEF Reach
  <1>4. QED
    BY <1>1, <1>3 DEF Complete, Kept

\* Nor does a goroutine that gets a cached info when no call is in progress disturb it.
LEMMA HeldAdded ==
  ASSUME TypeOK, NothingUnset, Sound(<<>>, cache, info), UNCHANGED info,
         NEW g \in Goroutines, NEW k \in cache, held' = [held EXCEPT ![g] = @ \cup {k}]
  PROVE  NothingUnset'
  <1> SUFFICES ASSUME NEW p \in Goroutines, NEW y \in held'[p], NEW h \in Halves, NEW x \in Reach[h][y]
               PROVE  Complete(x)'
    BY DEF NothingUnset
  <1>1. y \in held[p] \/ y \in cache
    BY DEF TypeOK
  <1>2. Complete(x)
    BY <1>1, CacheReady DEF NothingUnset
  <1>3. QED
    BY <1>2 DEF Complete

\* The conjuncts of TypeOK about the goroutines and the lock.
GoroutinesOK ==
  /\ holder \in Goroutines \cup {NoGoroutine}
  /\ pc \in [Goroutines -> {"idle", "asked", "missed", "locked"}]
  /\ want \in [Goroutines -> Asked]
  /\ held \in [Goroutines -> SUBSET Keys]
  /\ holder = NoGoroutine => stack = <<>>

LEMMA TypeOKParts ==
  ASSUME Sound(stack, cache, info)
  PROVE  TypeOK <=> GoroutinesOK
  BY DEF Sound, CallsDistinct, Infos, Kinds, GoroutinesOK, TypeOK

LEMMA Initially == Init => IInv
  <1> SUFFICES ASSUME Init PROVE IInv
    OBVIOUS
  <1>1. (CHOOSE k \in Asked : TRUE) \in Asked
    BY TypesAssumption
  <1>2. Empty \in [Halves -> Kinds] /\ \A h \in Halves : Empty[h] = "unset"
    BY DEF Empty, Kinds
  <1>3. Sound(stack, cache, info) /\ CallsSound(stack, cache, info)
    BY <1>2 DEF Init, Sound, CallsSound, CallsDistinct, CacheSound, NotEntered, Infos
  <1>4. GoroutinesOK
    BY <1>1 DEF Init, GoroutinesOK
  <1>5. HolderWants /\ NothingUnset
    BY TypesAssumption DEF Init, HolderWants, NothingUnset
  <1>6. QED
    BY <1>3, <1>4, <1>5, TypeOKParts DEF IInv

\* The steps that leave the cache as it is.
LEMMA CacheUnchanged ==
  ASSUME IInv, UNCHANGED <<cache, info, stack>>, GoroutinesOK', HolderWants', NothingUnset'
  PROVE  IInv' /\ Kept
  <1>1. Sound(stack, cache, info)' /\ CallsSound(stack, cache, info)'
    BY DEF IInv
  <1>2. TypeOK'
    BY <1>1 DEF Sound, CallsDistinct, Infos, Kinds, GoroutinesOK, TypeOK
  <1>3. QED
    BY <1>1, <1>2 DEF IInv, Kept

LEMMA AskStep == ASSUME IInv, NEW g \in Goroutines, Ask(g) PROVE IInv' /\ Kept
  <1>1. GoroutinesOK' /\ HolderWants'
    BY DEF Ask, IInv, TypeOK, GoroutinesOK, HolderWants
  <1>2. NothingUnset'
    BY HeldKept DEF Ask, IInv, Kept
  <1>3. QED
    BY <1>1, <1>2, CacheUnchanged DEF Ask

LEMMA LookupStep == ASSUME IInv, NEW g \in Goroutines, Lookup(g) PROVE IInv' /\ Kept
  <1>1. stack = <<>> /\ Sound(<<>>, cache, info)
    BY DEF Lookup, IInv, TypeOK
  <1>2. GoroutinesOK' /\ HolderWants'
    <2>1. want[g] \in Keys /\ holder = NoGoroutine /\ NoGoroutine \notin Goroutines
      BY TypesAssumption DEF Lookup, IInv, TypeOK
    <2>2. held' \in [Goroutines -> SUBSET Keys]
      BY <2>1 DEF Lookup, Return, IInv, TypeOK
    <2>3. pc' \in [Goroutines -> {"idle", "asked", "missed", "locked"}]
      BY DEF Lookup, Return, IInv, TypeOK
    <2>4. QED
      BY <2>1, <2>2, <2>3 DEF Lookup, IInv, TypeOK, GoroutinesOK, HolderWants
  <1>3. NothingUnset'
    <2>1. CASE want[g] \in cache /\ Return(g, "idle")
      BY <1>1, <2>1, HeldAdded DEF Lookup, Return, IInv
    <2>2. CASE UNCHANGED held
      BY <2>2, HeldKept DEF Lookup, IInv, Kept
    <2>3. QED
      BY <2>1, <2>2 DEF Lookup
  <1>4. QED
    BY <1>2, <1>3, CacheUnchanged DEF Lookup

LEMMA FinishStep == ASSUME IInv, NEW g \in Goroutines, Finish(g) PROVE IInv' /\ Kept
  <1>1. GoroutinesOK' /\ HolderWants'
    BY DEF Finish, IInv, TypeOK, GoroutinesOK, HolderWants
  <1>2. NothingUnset'
    <2> SUFFICES ASSUME NEW p \in Goroutines, NEW y \in held'[p], NEW h \in Halves, NEW x \in Reach[h][y]
                 PROVE  Complete(x)'
      BY DEF NothingUnset
    <2>1. y \in held[p]
      BY DEF Finish, IInv, TypeOK
    <2>2. QED
      BY <2>1 DEF Finish, IInv, NothingUnset, Complete
  <1>3. QED
    BY <1>1, <1>2, CacheUnchanged DEF Finish

LEMMA UnlockStep == ASSUME IInv, NEW g \in Goroutines, Unlock(g) PROVE IInv' /\ Kept
  <1>1. Sound(<<>>, cache, info) /\ want[g] \in cache
    BY DEF Unlock, IInv, HolderWants
  <1>2. GoroutinesOK' /\ HolderWants'
    BY TypesAssumption DEF Unlock, Return, IInv, TypeOK, GoroutinesOK, HolderWants
  <1>3. NothingUnset'
    BY <1>1, HeldAdded DEF Unlock, Return, IInv
  <1>4. QED
    BY <1>2, <1>3, CacheUnchanged DEF Unlock

LEMMA LockStep == ASSUME IInv, NEW g \in Goroutines, Lock(g) PROVE IInv' /\ Kept
  <1>1. want[g] \in Keys /\ stack = <<>> /\ Sound(<<>>, cache, info)
    BY TypesAssumption DEF Lock, IInv, TypeOK
  <1>2. CallsSound(<<>>, cache \cup {want[g]}, info)
    BY DEF CallsSound
  <1>3. /\ Sound(stack', cache', info') /\ CallsSound(stack', cache', info')
        /\ want[g] \in cache' /\ cache \subseteq cache' /\ Kept
    BY <1>1, <1>2, Called DEF Lock
  <1>4. GoroutinesOK'
    BY TypesAssumption DEF Lock, IInv, TypeOK, GoroutinesOK
  <1>5. HolderWants'
    BY <1>3 DEF Lock, IInv, TypeOK, HolderWants
  <1>6. NothingUnset'
    BY <1>3, HeldKept DEF Lock, IInv
  <1>7. TypeOK'
    BY <1>3, <1>4 DEF Sound, CallsDistinct, Infos, Kinds, GoroutinesOK, TypeOK
  <1>8. QED
    BY <1>3, <1>5, <1>6, <1>7 DEF IInv

LEMMA LookupPartStep == ASSUME IInv, NEW g \in Goroutines, LookupPart(g) PROVE IInv' /\ Kept
  <1> DEFINE n == Len(stack)
             k == Parts[Top.half][Top.key][Top.next]
  <1>1. /\ stack \in Seq(Frame) /\ n \in 1 .. Len(stack) /\ Top = stack[n]
        /\ Top \in Frame
    BY DEF LookupPart, IInv, TypeOK, Top
  <1>2. Top.next \in 1 .. Len(Parts[Top.half][Top.key]) /\ k \in Keys
    BY <1>1, PartIsKey DEF Frame, LookupPart
  <1>3. /\ Advanced \in Seq(Frame) /\ Len(Advanced) = n
        /\ \A i \in 1 .. n : i # n => Advanced[i] = stack[i]
        /\ Advanced[n] = [Top EXCEPT !.next = @ + 1]
    BY <1>1 DEF Advanced, Frame
  <1>4. \A i \in 1 .. n : Advanced[i].key = stack[i].key /\ Advanced[i].half = stack[i].half
    BY <1>1, <1>3 DEF Frame
  <1>5. Sound(Advanced, cache, info)
    BY <1>3, <1>4 DEF IInv, Sound, CallsDistinct, CacheSound, OnStack
  <1>6. CallsSound(Advanced, cache \cup {k}, info)
    <2> SUFFICES ASSUME NEW i \in 1 .. n PROVE CallSound(Advanced[i], cache \cup {k}, info)
      BY <1>3 DEF CallsSound
    <2>1. CallSound(stack[i], cache, info)
      BY DEF IInv, CallsSound
    <2>2. CASE i # n
      BY <1>3, <2>1, <2>2 DEF CallSound
    <2>3. CASE i = n
      <3>1. /\ Advanced[i].key = Top.key /\ Advanced[i].half = Top.half
            /\ Advanced[i].next = Top.next + 1 /\ Top.next \in Nat
        BY <1>1, <1>3, <2>3 DEF Frame
      <3>2. CallSound(Top, cache, info)
        BY <1>1, <2>1, <2>3
      <3>3. \A j \in 1 .. Len(Parts[Top.half][Top.key]) :
              j < Top.next + 1 => Parts[Top.half][Top.key][j] \in cache \cup {k}
        <4> SUFFICES ASSUME NEW j \in 1 .. Len(Parts[Top.half][Top.key]), j < Top.next + 1
                     PROVE  Parts[Top.half][Top.key][j] \in cache \cup {k}
          OBVIOUS
        <4>1. j \in Int
          OBVIOUS
        <4>2. j < Top.next \/ j = Top.next
          BY <3>1, <4>1
        <4>3. QED
          BY <3>2, <4>2 DEF CallSound
      <3>4. QED
        BY <3>1, <3>2, <3>3 DEF CallSound
    <2>4. QED
      BY <2>2, <2>3
  <1>7. /\ Sound(stack', cache', info') /\ CallsSound(stack', cache', info')
        /\ cache \subseteq cache' /\ Kept
    BY <1>2, <1>5, <1>6, Called DEF LookupPart
  <1>8. GoroutinesOK'
    BY TypesAssumption DEF LookupPart, IInv, TypeOK, GoroutinesOK
  <1>9. HolderWants'
    BY <1>7 DEF LookupPart, IInv, HolderWants
  <1>10. NothingUnset'
    BY <1>7, HeldKept DEF LookupPart, IInv
  <1>11. TypeOK'
    BY <1>7, <1>8 DEF Sound, CallsDistinct, Infos, Kinds, GoroutinesOK, TypeOK
  <1>12. QED
    BY <1>7, <1>9, <1>10, <1>11 DEF IInv

LEMMA MakeStep == ASSUME IInv, NEW g \in Goroutines, Make(g) PROVE IInv' /\ Kept
  <1> DEFINE n == Len(stack)
             key == Top.key
             half == Top.half
             made == IF Refused(key, half) THEN "error" ELSE "set"
  <1>1. /\ stack \in Seq(Frame) /\ n \in 1 .. Len(stack) /\ Top = stack[n] /\ Top \in Frame
        /\ key \in Keys /\ half \in Halves /\ key \in cache
    <2>1. stack \in Seq(Frame) /\ stack # <<>>
      BY DEF Make, IInv, TypeOK
    <2>2. n \in 1 .. Len(stack) /\ Top = stack[n] /\ Top \in Frame
      BY <2>1 DEF Top
    <2>3. key \in Keys /\ half \in Halves
      BY <2>2 DEF Frame
    <2>4. key \in cache
      BY <2>2 DEF IInv, TypeOK
    <2>5. QED
      BY <2>1, <2>2, <2>3, <2>4
  <1>2. /\ info \in Infos /\ info' = [info EXCEPT ![key][half] = made]
        /\ made \in Kinds \ {"unset"} /\ UNCHANGED cache
    BY DEF Make, IInv, Sound, Kinds
  <1>3. /\ info' \in Infos /\ info'[key][half] # "unset"
        /\ \A x \in Keys, h \in Halves : x # key \/ h # half => info'[x][h] = info[x][h]
    BY <1>1, <1>2 DEF Infos
  <1>4. CallSound(Top, cache, info)
    BY <1>1 DEF IInv, CallsSound
  <1>5. PartsOf(half, key) \subseteq cache
    <2>1. Top.next \in Nat /\ Len(Parts[half][key]) \in Nat
      BY <1>1, PartIsKey DEF Frame
    <2>2. \A j \in 1 .. Len(Parts[half][key]) : j < Top.next
      BY <2>1 DEF Make
    <2>3. QED
      BY <1>4, <2>2 DEF CallSound, PartsOf
  <1>6. Kept
    BY <1>1, <1>3, <1>4 DEF Kept, CallSound
  <1>7. NotEntered(cache', info')
    BY <1>1, <1>2, <1>3 DEF NotEntered, IInv, Sound
  <1>8. \A i \in 1 .. n : /\ stack[i] \in Frame /\ CallSound(stack[i], cache, info)
                          /\ i # n => stack[i].key # key
    BY <1>1 DEF IInv, Sound, CallsDistinct, CallsSound
  <1>9. \A i \in 1 .. n : i # n => CallSound(stack[i], cache', info')
    <2> SUFFICES ASSUME NEW i \in 1 .. n, i # n PROVE CallSound(stack[i], cache', info')
      OBVIOUS
    <2>1. \A h \in Halves : info'[stack[i].key][h] = info[stack[i].key][h]
      BY <1>3, <1>8 DEF Frame
    <2>2. QED
      BY <1>2, <1>8, <2>1 DEF CallSound, Frame, Halves
  <1>10. \A x \in cache : OnStack(x, stack) \/
           \A h \in Halves : info'[x][h] # "unset" /\ PartsOf(h, x) \subseteq cache
    BY <1>6 DEF IInv, Sound, CacheSound, Kept
  <1>11. Sound(stack', cache', info') /\ CallsSound(stack', cache', info')
    <2>1. CASE half = "decoder" /\ stack' = [stack EXCEPT ![n] = [key |-> key, half |-> "writer", next |-> 1]]
      <3> DEFINE f == [key |-> key, half |-> "writer", next |-> 1]
      <3>1. f \in Frame
        BY <1>1 DEF Frame, Halves
      <3>2. /\ stack' \in Seq(Frame) /\ Len(stack') = n /\ stack'[n] = f
            /\ \A i \in 1 .. n : i # n => stack'[i] = stack[i]
        BY <1>1, <2>1, <3>1
      <3>3. \A i \in 1 .. n : stack'[i].key = stack[i].key
        BY <1>1, <3>2
      <3>4. CallsDistinct(stack', cache') /\ CacheSound(stack', cache', info')
        BY <1>2, <1>10, <3>2, <3>3 DEF IInv, Sound, CallsDistinct, CacheSound, OnStack
      <3>5. CallSound(f, cache', info')
        <4>1. info'[key]["writer"] = "unset" /\ info'[key]["decoder"] # "unset"
          BY <1>1, <1>3, <1>4, <2>1 DEF CallSound, Halves
        <4>2. \A j \in 1 .. Len(Parts["writer"][key]) : ~ (j < 1)
          BY <1>1, PartIsKey DEF Halves
        <4>3. QED
          BY <1>2, <1>5, <2>1, <4>1, <4>2 DEF CallSound
      <3>6. CallsSound(stack', cache', info')
        BY <1>9, <3>2, <3>5 DEF CallsSound
      <3>7. QED
        BY <1>2, <1>3, <1>7, <3>2, <3>4, <3>6 DEF IInv, Sound
    <2>2. CASE half = "writer" /\ stack' = SubSeq(stack, 1, n - 1)
      <3>1. /\ stack' \in Seq(Frame) /\ Len(stack') = n - 1
            /\ \A i \in 1 .. n - 1 : stack'[i] = stack[i]
        <4>1. n \in Nat /\ n - 1 \in Nat /\ 1 .. n - 1 \subseteq 1 .. n
          BY <1>1
        <4>2. \A i \in 1 .. n - 1 : stack[i] \in Frame
          BY <1>8, <4>1
        <4>3. stack' = [i \in 1 .. n - 1 |-> stack[i]]
          BY <1>1, <2>2, <4>1
        <4>4. QED
          BY <4>1, <4>2, <4>3
      <3>2. CallsDistinct(stack', cache')
        BY <1>1, <1>2, <3>1 DEF IInv, Sound, CallsDistinct
      <3>3. CacheSound(stack', cache', info')
        <4> SUFFICES ASSUME NEW x \in cache, ~OnStack(x, stack')
                     PROVE  \A h \in Halves : info'[x][h] # "unset" /\ PartsOf(h, x) \subseteq cache
          BY <1>2 DEF CacheSound
        <4>1. CASE x = key
          <5>1. \A h \in Halves : PartsOf(h, x) \subseteq cache
            BY <1>4, <1>5, <2>2, <4>1 DEF CallSound, Halves
          <5>2. info'[x]["writer"] # "unset" /\ info'[x]["decoder"] # "unset"
            BY <1>1, <1>3, <1>4, <2>2, <4>1 DEF CallSound, Halves
          <5>3. QED
            BY <5>1, <5>2 DEF Halves
        <4>2. CASE x # key
          <5>1. ~OnStack(x, stack)
            BY <1>1, <3>1, <4>2 DEF OnStack
          <5>2. QED
            BY <1>10, <5>1
        <4>3. QED
          BY <4>1, <4>2
      <3>4. CallsSound(stack', cache', info')
        BY <1>1, <1>9, <3>1 DEF CallsSound
      <3>5. QED
        BY <1>2, <1>3, <1>7, <3>1, <3>2, <3>3, <3>4 DEF IInv, Sound
    <2>3. QED
      BY <2>1, <2>2 DEF Make
  <1>12. GoroutinesOK'
    BY TypesAssumption DEF Make, IInv, TypeOK, GoroutinesOK
  <1>13. HolderWants'
    BY DEF Make, IInv, HolderWants
  <1>14. NothingUnset'
    BY <1>6, HeldKept DEF Make, IInv
  <1>15. TypeOK'
    BY <1>11, <1>12 DEF Sound, CallsDistinct, Infos, Kinds, GoroutinesOK, TypeOK
  <1>16. QED
    BY <1>6, <1>11, <1>13, <1>14, <1>15 DEF IInv

-----------------------------------------------------------------------------
LEMMA Inductive == ASSUME IInv, [Next]_vars PROVE IInv' /\ Kept
  <1>1. CASE UNCHANGED vars
    <2>1. GoroutinesOK' /\ HolderWants' /\ NothingUnset'
      BY <1>1, HeldKept DEF vars, IInv, TypeOK, GoroutinesOK, HolderWants, Kept
    <2>2. QED
      BY <1>1, <2>1, CacheUnchanged DEF vars
  <1>2. CASE Next
    <2> SUFFICES ASSUME NEW g \in Goroutines, Step(g) PROVE IInv' /\ Kept
      BY <1>2 DEF Next
    <2>1. CASE Ask(g)        BY <2>1, AskStep
    <2>2. CASE Lookup(g)     BY <2>2, LookupStep
    <2>3. CASE Lock(g)       BY <2>3, LockStep
    <2>4. CASE LookupPart(g) BY <2>4, LookupPartStep
    <2>5. CASE Make(g)       BY <2>5, MakeStep
    <2>6. CASE Unlock(g)     BY <2>6, UnlockStep
    <2>7. CASE Finish(g)     BY <2>7, FinishStep
    <2>8. QED
      BY <2>1, <2>2, <2>3, <2>4, <2>5, <2>6, <2>7 DEF Step
  <1>3. QED
    BY <1>1, <1>2

LEMMA Invariant == Spec => []IInv
  <1>1. IInv /\ [Next]_vars => IInv'
    BY Inductive
  <1>2. QED
    BY Initially, <1>1, PTL DEF Spec

\* TypeCorrect: the types, and that generate is only called under the lock and never for
\* a type it is called for already: recursive types come to an end (typecache.go:91-105).
THEOREM TypeCorrect == Spec => []TypeOK
  <1>1. IInv => TypeOK
    BY DEF IInv
  <1>2. QED
    BY Invariant, <1>1, PTL

\* HandedOutComplete: an info that a goroutine got from the cache and all it reaches is
\* complete, although infos are entered before they are generated (typecache.go:98-103).
THEOREM HandedOutComplete == Spec => []NothingUnset
  <1>1. IInv => NothingUnset
    BY DEF IInv
  <1>2. QED
    BY Invariant, <1>1, PTL

\* NeverMadeAgain: a decoder or a writer is made once, whichever goroutines ask for its
\* type, and however often (typecache.go:91-105).
THEOREM NeverMadeAgain == Spec => MadeOnce
  <1>1. IInv /\ [Next]_vars => [Kept]_vars
    BY Inductive
  <1>2. [Kept]_vars => [\A k \in Keys, h \in Halves : info[k][h] # "unset" => info'[k][h] = info[k][h]]_vars
    BY DEF Kept
  <1>3. IInv /\ [Next]_vars =>
          [\A k \in Keys, h \in Halves : info[k][h] # "unset" => info'[k][h] = info[k][h]]_vars
    BY <1>1, <1>2
  <1>4. QED
    BY Invariant, <1>3, PTL DEF Spec, MadeOnce

-----------------------------------------------------------------------------
\* Each call in progress was made on the way from every call below it.
Chained(s) == \A i, j \in 1 .. Len(s) : i < j => s[j].key \in Involved[s[i].key]

\* A key is involved in itself, and what is involved stays so through parts.
LEMMA InvolvedParts ==
  ASSUME NEW k \in Keys
  PROVE  /\ k \in Involved[k]
         /\ \A x \in Involved[k], h \in Halves : PartsOf(h, x) \subseteq Involved[k]
  <1>1. k \in Involved[k]
    BY DEF Involved
  <1>2. ASSUME NEW x \in Involved[k], NEW h \in Halves, NEW y \in PartsOf(h, x)
        PROVE  y \in Involved[k]
    <2>1. x \in Keys /\ \A S \in SUBSET Keys : k \in S /\ Closed(S) => x \in S
      BY DEF Involved
    <2>2. y \in Keys
      BY <2>1, PartIsKey DEF PartsOf
    <2>3. \A S \in SUBSET Keys : k \in S /\ Closed(S) => y \in S
      BY <2>1 DEF Closed
    <2>4. QED
      BY <2>2, <2>3 DEF Involved
  <1>3. QED
    BY <1>1, <1>2

\* cachedTypeInfo1 makes nothing: the info it enters is the empty one that was there.
LEMMA CallMakesNothing ==
  ASSUME NEW k \in Keys, NEW s, Sound(s, cache, info), cachedTypeInfo1(k, s)
  PROVE  info' = info
  <1>1. CASE UNCHANGED info
    BY <1>1
  <1>2. CASE k \notin cache /\ info' = [info EXCEPT ![k] = Empty]
    <2>1. info \in Infos /\ \A h \in Halves : info[k][h] = "unset"
      BY <1>2 DEF Sound, NotEntered
    <2>2. info[k] = Empty
      BY <2>1 DEF Empty, Infos
    <2>3. QED
      BY <1>2, <2>1, <2>2 DEF Infos
  <1>3. QED
    BY <1>1, <1>2 DEF cachedTypeInfo1

\* Steps that make nothing leave ErrorsSpread as it is.
LEMMA NothingMade ==
  ASSUME ErrorsSpread, UNCHANGED info
  PROVE  ErrorsSpread'
  BY DEF ErrorsSpread

\* Steps that do not call either.
LEMMA NothingCalled ==
  ASSUME Chained(stack), ErrorsSpread, UNCHANGED <<stack, info>>
  PROVE  Chained(stack') /\ ErrorsSpread'
  BY NothingMade

\* A part that is looked up is involved in every call in progress.
LEMMA CallChains ==
  ASSUME NEW s \in Seq(Frame), Chained(s), NEW k \in Keys, cachedTypeInfo1(k, s),
         s # <<>> => \E h \in Halves : k \in PartsOf(h, s[Len(s)].key)
  PROVE  Chained(stack')
  <1>1. CASE stack' = s
    BY <1>1
  <1>2. CASE stack' = Append(s, [key |-> k, half |-> "decoder", next |-> 1])
    <2> DEFINE n == Len(s)
               f == [key |-> k, half |-> "decoder", next |-> 1]
    <2>0. f \in Frame /\ f.key = k
      BY DEF Frame, Halves
    <2>1. /\ n \in Nat /\ Len(stack') = n + 1 /\ stack'[n + 1].key = k
          /\ \A i \in 1 .. n : stack'[i] = s[i] /\ s[i].key \in Keys
      <3>1. /\ n \in Nat /\ Len(stack') = n + 1 /\ stack'[n + 1] = f
            /\ \A i \in 1 .. n : stack'[i] = s[i] /\ s[i] \in Frame
        BY <1>2, <2>0
      <3>2. QED
        BY <2>0, <3>1 DEF Frame
    <2>2. ASSUME NEW i \in 1 .. n PROVE k \in Involved[s[i].key]
      <3>1. n \in 1 .. n /\ s # <<>>
        BY <2>1
      <3>2. PICK h \in Halves : k \in PartsOf(h, s[n].key)
        BY <3>1
      <3>3. s[n].key \in Involved[s[i].key]
        <4>1. CASE i = n
          BY <2>1, <4>1, InvolvedParts
        <4>2. CASE i # n
          <5>1. i < n
            BY <2>1, <4>2
          <5>2. QED
            BY <3>1, <5>1 DEF Chained
        <4>3. QED
          BY <4>1, <4>2
      <3>4. QED
        BY <2>1, <3>2, <3>3, InvolvedParts
    <2>3. ASSUME NEW i \in 1 .. n + 1, NEW j \in 1 .. n + 1, i < j
          PROVE  stack'[j].key \in Involved[stack'[i].key]
      <3>1. i \in 1 .. n
        BY <2>1, <2>3
      <3>2. CASE j = n + 1
        BY <2>1, <2>2, <3>1, <3>2
      <3>3. CASE j \in 1 .. n
        BY <2>1, <2>3, <3>1, <3>3 DEF Chained
      <3>4. QED
        BY <2>1, <3>2, <3>3
    <2>4. QED
      BY <2>1, <2>3 DEF Chained
  <1>3. QED
    BY <1>1, <1>2 DEF cachedTypeInfo1

LEMMA LockSpreads ==
  ASSUME IInv, Chained(stack), ErrorsSpread, NEW g \in Goroutines, Lock(g)
  PROVE  Chained(stack') /\ ErrorsSpread'
  <1>1. want[g] \in Keys /\ stack = <<>> /\ Sound(<<>>, cache, info)
    BY TypesAssumption DEF Lock, IInv, TypeOK
  <1>2. <<>> \in Seq(Frame) /\ Chained(<<>>)
    BY DEF Chained
  <1>3. cachedTypeInfo1(want[g], <<>>)
    BY DEF Lock
  <1>4. QED
    BY <1>1, <1>2, <1>3, CallChains, CallMakesNothing, NothingMade

LEMMA LookupPartSpreads ==
  ASSUME IInv, Chained(stack), ErrorsSpread, NEW g \in Goroutines, LookupPart(g)
  PROVE  Chained(stack') /\ ErrorsSpread'
  <1> DEFINE n == Len(stack)
             k == Parts[Top.half][Top.key][Top.next]
  <1>1. stack \in Seq(Frame) /\ n \in 1 .. n /\ Top = stack[n] /\ Top \in Frame
    BY DEF LookupPart, IInv, TypeOK, Top
  <1>2. Top.next \in 1 .. Len(Parts[Top.half][Top.key]) /\ k \in Keys
    BY <1>1, PartIsKey DEF Frame, LookupPart
  <1>3. /\ Advanced \in Seq(Frame) /\ Len(Advanced) = n
        /\ \A i \in 1 .. n : Advanced[i].key = stack[i].key
    BY <1>1 DEF Advanced, Frame
  <1>4. Sound(Advanced, cache, info)
    BY <1>3 DEF IInv, Sound, CallsDistinct, CacheSound, OnStack
  <1>5. Chained(Advanced)
    BY <1>3 DEF Chained
  <1>6. k \in PartsOf(Top.half, Advanced[Len(Advanced)].key) /\ Top.half \in Halves
    BY <1>1, <1>2, <1>3 DEF PartsOf, Frame
  <1>7. cachedTypeInfo1(k, Advanced)
    BY DEF LookupPart
  <1>8. Chained(stack')
    BY <1>2, <1>3, <1>5, <1>6, <1>7, CallChains
  <1>9. QED
    BY <1>2, <1>4, <1>7, <1>8, CallMakesNothing, NothingMade

\* A part that is unset when the type is made belongs to a call in progress.
LEMMA UnsetIsCalled ==
  ASSUME IInv, NEW c \in cache, NEW h \in Halves, info[c][h] = "unset"
  PROVE  OnStack(c, stack)
  BY DEF IInv, Sound, CacheSound

LEMMA MakeSpreads ==
  ASSUME IInv, Chained(stack), ErrorsSpread, NEW g \in Goroutines, Make(g)
  PROVE  Chained(stack') /\ ErrorsSpread'
  <1> DEFINE n == Len(stack)
             key == Top.key
             half == Top.half
  <1>1. /\ stack \in Seq(Frame) /\ n \in 1 .. n /\ Top = stack[n] /\ Top \in Frame
        /\ key \in Keys /\ half \in Halves
    <2>1. stack \in Seq(Frame) /\ stack # <<>>
      BY DEF Make, IInv, TypeOK
    <2>2. n \in 1 .. n /\ Top = stack[n] /\ Top \in Frame
      BY <2>1 DEF Top
    <2>3. QED
      BY <2>1, <2>2 DEF Frame
  <1>2. info \in Infos /\ Kept
    BY MakeStep DEF IInv, Sound
  <1>3. info' = [info EXCEPT ![key][half] = IF Refused(key, half) THEN "error" ELSE "set"]
    BY DEF Make
  <1>4. /\ info'[key][half] = IF Refused(key, half) THEN "error" ELSE "set"
        /\ \A x \in Keys, h \in Halves : x # key \/ h # half => info'[x][h] = info[x][h]
    BY <1>1, <1>2, <1>3 DEF Infos
  <1>5. CallSound(Top, cache, info)
    BY <1>1 DEF IInv, CallsSound
  <1>6. PartsOf(half, key) \subseteq cache
    <2>1. Top.next \in Nat /\ Len(Parts[half][key]) \in Nat
      BY <1>1, PartIsKey DEF Frame
    <2>2. \A j \in 1 .. Len(Parts[half][key]) : j < Top.next
      BY <2>1 DEF Make
    <2>3. QED
      BY <1>5, <2>2 DEF CallSound, PartsOf
  <1>7. cache \subseteq Keys
    BY DEF IInv, Sound
  <1>8. \A x \in Keys, h \in Halves : info[x][h] # "unset" => info'[x][h] = info[x][h]
    BY <1>2 DEF Kept
  <1>9. ASSUME NEW k \in Keys, NEW h \in Halves, info'[k][h] = "error"
        PROVE  k \in Bad[h] \/ \E c \in PartsOf(h, k) : info'[c][h] = "error"
    <2>1. k \in Bad[h] \/ \E c \in PartsOf(h, k) : info[c][h] = "error"
      <3>1. CASE k = key /\ h = half
        BY <1>4, <1>9, <3>1 DEF Refused, PartsOf
      <3>2. CASE ~ (k = key /\ h = half)
        BY <1>4, <1>9, <3>2 DEF ErrorsSpread
      <3>3. QED
        BY <3>1, <3>2
    <2>2. PartsOf(h, k) \subseteq Keys
      BY PartIsKey DEF PartsOf
    <2>3. QED
      BY <1>8, <2>1, <2>2
  <1>10. ASSUME NEW k \in Keys, NEW h \in Halves, info'[k][h] = "set", NEW c \in PartsOf(h, k)
         PROVE  k \notin Bad[h] /\ (info'[c][h] = "set" \/ k \in Involved[c])
    <2>1. c \in Keys
      BY PartIsKey DEF PartsOf
    <2>2. CASE k = key /\ h = half
      <3>1. k \notin Bad[h] /\ info[c][h] # "error" /\ c \in cache
        BY <1>4, <1>6, <1>10, <2>2 DEF Refused, PartsOf
      <3>2. CASE info[c][h] = "set"
        BY <1>8, <2>1, <3>1, <3>2
      <3>3. CASE info[c][h] = "unset"
        <4>1. PICK i \in 1 .. n : stack[i].key = c
          BY <3>1, <3>3, UnsetIsCalled DEF OnStack
        <4>2. CASE i = n
          BY <1>1, <2>2, <3>1, <4>1, <4>2, InvolvedParts
        <4>3. CASE i < n
          BY <1>1, <2>2, <3>1, <4>1, <4>3 DEF Chained
        <4>4. QED
          BY <1>1, <4>2, <4>3
      <3>4. QED
        BY <1>2, <2>1, <3>1, <3>2, <3>3 DEF Infos, Kinds
    <2>3. CASE ~ (k = key /\ h = half)
      <3>1. k \notin Bad[h] /\ (info[c][h] = "set" \/ k \in Involved[c])
        BY <1>4, <1>10, <2>3 DEF ErrorsSpread
      <3>2. QED
        BY <1>8, <2>1, <3>1
    <2>4. QED
      BY <2>2, <2>3
  <1>11. ASSUME NEW k \in Keys, NEW h \in Halves, info'[k][h] = "set"
         PROVE  k \notin Bad[h]
    <2>1. CASE k = key /\ h = half
      BY <1>4, <1>11, <2>1 DEF Refused
    <2>2. CASE ~ (k = key /\ h = half)
      BY <1>4, <1>11, <2>2 DEF ErrorsSpread
    <2>3. QED
      BY <2>1, <2>2
  <1>12. ErrorsSpread'
    BY <1>9, <1>10, <1>11 DEF ErrorsSpread
  <1>13. Chained(stack')
    <2>1. CASE stack' = [stack EXCEPT ![n] = [key |-> key, half |-> "writer", next |-> 1]]
      <3>1. Len(stack') = n /\ \A i \in 1 .. n : stack'[i].key = stack[i].key
        BY <1>1, <2>1
      <3>2. QED
        BY <3>1 DEF Chained
    <2>2. CASE stack' = SubSeq(stack, 1, n - 1)
      <3>1. n - 1 \in Nat /\ 1 .. n - 1 \subseteq 1 .. n
        BY <1>1
      <3>2. stack' = [i \in 1 .. n - 1 |-> stack[i]]
        BY <1>1, <2>2, <3>1
      <3>3. Len(stack') = n - 1 /\ \A i \in 1 .. n - 1 : stack'[i] = stack[i]
        BY <3>1, <3>2
      <3>4. QED
        BY <3>1, <3>3 DEF Chained
    <2>3. QED
      BY <2>1, <2>2 DEF Make
  <1>14. QED
    BY <1>12, <1>13

\* ErrorsReported: whatever types there are and however they refer to each other, a type
\* has an error exactly if it or a part has one, save a part whose own generation came to
\* the type and was not finished (typecache.go:98-103, decode.go:389, encode.go:484).
THEOREM ErrorsReported == Spec => []ErrorsSpread
  <1> DEFINE EInv == IInv /\ Chained(stack) /\ ErrorsSpread
  <1>1. Init => EInv
    <2> SUFFICES ASSUME Init PROVE Chained(stack) /\ ErrorsSpread
      BY Initially
    <2>1. stack = <<>> /\ \A k \in Keys, h \in Halves : info[k][h] = "unset"
      BY DEF Init, Empty
    <2>2. QED
      BY <2>1 DEF Chained, ErrorsSpread
  <1>2. EInv /\ [Next]_vars => EInv'
    <2> SUFFICES ASSUME IInv, Chained(stack), ErrorsSpread, [Next]_vars
                 PROVE  Chained(stack') /\ ErrorsSpread'
      BY Inductive
    <2>1. CASE UNCHANGED <<stack, info>>
      BY <2>1, NothingCalled
    <2>2. CASE \E g \in Goroutines : Lock(g)
      BY <2>2, LockSpreads
    <2>3. CASE \E g \in Goroutines : LookupPart(g)
      BY <2>3, LookupPartSpreads
    <2>4. CASE \E g \in Goroutines : Make(g)
      BY <2>4, MakeSpreads
    <2>5. QED
      BY <2>1, <2>2, <2>3, <2>4
      DEF Next, Step, vars, Ask, Lookup, Unlock, Finish
  <1>3. EInv => ErrorsSpread
    OBVIOUS
  <1> HIDE DEF EInv
  <1>4. QED
    BY <1>1, <1>2, <1>3, PTL DEF Spec
==============================================================================
