-------------------------- MODULE WagonMemoryProofs --------------------------
(***************************************************************************)
(* Proofs about WagonMemory for every size of a byte, of a page and of the *)
(* address space: SetBytes gives nothing out twice and keeps what it gave, *)
(* inBounds checks before Go does, a memory that grows keeps its contents, *)
(* and a load leaves the number it found.                                  *)
(***************************************************************************)
EXTENDS WagonMemory, FiniteSetTheorems, TLAPS

\* What the proof of BlocksDisjoint needs, and what the others need of the types.
AllocInv == pos \in Nat /\ allocated \subseteq [off : Nat, len : Nat]
            /\ BelowPos /\ BlocksDisjoint

SlicesInv ==
  /\ arrays \in [{"first", "grown", "resized"} -> Seq(Int)]
  /\ vmRef \in {"first", "grown"}
  /\ allocRef \in {"first", "resized"}
  /\ allocLen \in 0 .. Len(AllocArray)
  /\ pos \in Nat
  /\ intSpace \in IntSpaces

-----------------------------------------------------------------------------

\* What Set takes is never empty and covers what is stored.
LEMMA RoomCovers == ASSUME NEW n \in Nat
                    PROVE  Room(n) \in Nat /\ Room(n) >= n /\ Room(n) > 0
BY DEF Room

\* Steps that leave the allocator alone, or only move it on, keep AllocInv.
LEMMA MovesOn ==
  ASSUME AllocInv, allocated' = allocated, pos' \in Nat, pos' >= pos
  PROVE  AllocInv'
<1>1. BelowPos'
  <2> SUFFICES ASSUME NEW a \in allocated
               PROVE  a.off >= 0 /\ a.off < pos' /\ a.off + a.len <= pos'
    BY DEF BelowPos
  <2> a.off >= 0 /\ a.off < pos /\ a.off + a.len <= pos
    BY DEF AllocInv, BelowPos
  <2> a.off \in Nat /\ a.len \in Nat
    BY DEF AllocInv
  <2> QED
    BY DEF AllocInv
<1>2. BlocksDisjoint'
  BY DEF AllocInv, BlocksDisjoint, Cells
<1> QED
  BY <1>1, <1>2 DEF AllocInv

\* A block at Pos overlaps none below Pos.
LEMMA TakesFresh ==
  ASSUME AllocInv, NEW n \in Nat, pos' = pos + Room(n),
         allocated' = allocated \cup {[off |-> pos, len |-> n]}
  PROVE  AllocInv'
<1> DEFINE new == [off |-> pos, len |-> n]
<1>1. Room(n) \in Nat /\ Room(n) >= n /\ Room(n) > 0
  BY RoomCovers
<1>2. pos' \in Nat /\ pos' > pos /\ pos + n <= pos'
  BY <1>1 DEF AllocInv
<1>3. new \in [off : Nat, len : Nat] /\ new.off = pos /\ new.len = n
  BY DEF AllocInv
<1>4. allocated' \subseteq [off : Nat, len : Nat]
  BY <1>3 DEF AllocInv
<1>5. \A a \in allocated :
        a.off \in Nat /\ a.len \in Nat /\ a.off < pos /\ a.off + a.len <= pos
  BY DEF AllocInv, BelowPos
<1>6. BelowPos'
  <2> SUFFICES ASSUME NEW a \in allocated'
               PROVE  a.off >= 0 /\ a.off < pos' /\ a.off + a.len <= pos'
    BY DEF BelowPos
  <2>1. CASE a \in allocated
    BY <2>1, <1>2, <1>5 DEF AllocInv
  <2>2. CASE a = new
    BY <2>2, <1>2, <1>3 DEF AllocInv
  <2> QED
    BY <2>1, <2>2
<1>7. \A a \in allocated :
        a.off # pos /\ Cells(a.off, a.len) \cap Cells(pos, n) = {}
  BY <1>5 DEF Cells, AllocInv
<1>8. BlocksDisjoint'
  <2> SUFFICES ASSUME NEW a \in allocated', NEW b \in allocated', a # b
               PROVE  /\ a.off # b.off
                      /\ Cells(a.off, a.len) \cap Cells(b.off, b.len) = {}
    BY DEF BlocksDisjoint, Cells
  <2>1. CASE a \in allocated /\ b \in allocated
    BY <2>1 DEF AllocInv, BlocksDisjoint
  <2>2. CASE a \in allocated /\ b = new
    BY <2>2, <1>3, <1>7
  <2>3. CASE a = new /\ b \in allocated
    BY <2>3, <1>3, <1>7
  <2> QED
    BY <2>1, <2>2, <2>3
<1> QED
  BY <1>2, <1>4, <1>6, <1>8 DEF AllocInv

\* One step: only WriteAt and SetBytes move Pos, and they move it on.
LEMMA AllocStep ==
  ASSUME AllocInv, [Next]_vars
  PROVE  AllocInv'
<1> USE MemoryAssumption
<1>1. CASE UNCHANGED vars
  BY <1>1, MovesOn DEF vars, AllocInv
<1>2. ASSUME NEW n \in Widths, NEW signed \in BOOLEAN, NEW imm \in Addresses,
             NEW base \in Addresses, Load(n, signed, imm, base)
      PROVE  AllocInv'
  BY <1>2, MovesOn DEF Load, AllocInv
<1>3. ASSUME NEW n \in Widths, NEW imm \in Addresses, NEW base \in Addresses,
             NEW v \in Operands, Store(n, imm, base, v)
      PROVE  AllocInv'
  BY <1>3, MovesOn DEF Store, AllocInv
<1>4. CASE CurrentMemory
  BY <1>4, MovesOn DEF CurrentMemory, AllocInv
<1>5. ASSUME NEW n \in Growths, GrowMemory(n)
      PROVE  AllocInv'
  BY <1>5, MovesOn DEF GrowMemory, AllocInv
<1>6. ASSUME NEW s \in Contents, NEW off \in Addresses, ProcessWriteAt(s, off)
      PROVE  AllocInv'
  BY <1>6, MovesOn DEF ProcessWriteAt, AllocInv
<1>7. ASSUME NEW s \in Contents, NEW off \in Addresses, WriteAt(s, off)
      PROVE  AllocInv'
  <2>1. Len(s) \in Nat
    OBVIOUS
  <2>2. CASE Panics(off, Len(s))
    BY <1>7, <2>2, MovesOn DEF WriteAt, AllocInv
  <2>3. CASE ~Panics(off, Len(s))
    <3>1. allocated' = allocated /\ pos' = pos + Room(Len(s))
      BY <1>7, <2>3 DEF WriteAt, Set
    <3>2. pos' \in Nat /\ pos' >= pos
      <4>1. Room(Len(s)) \in Nat
        BY <2>1, RoomCovers
      <4> QED
        BY <3>1, <4>1 DEF AllocInv
    <3> QED
      BY <3>1, <3>2, MovesOn
  <2> QED
    BY <2>2, <2>3
<1>8. ASSUME NEW s \in Contents, SetBytes(s)
      PROVE  AllocInv'
  <2>1. Len(s) \in Nat
    OBVIOUS
  <2>2. CASE Panics(pos, Len(s))
    BY <1>8, <2>2, MovesOn DEF SetBytes, AllocInv
  <2>3. CASE ~Panics(pos, Len(s))
    BY <1>8, <2>1, <2>3, TakesFresh DEF SetBytes, Set
  <2> QED
    BY <2>2, <2>3
<1>9. ASSUME NEW n \in Resizes, Resize(n)
      PROVE  AllocInv'
  BY <1>9, MovesOn DEF Resize, AllocInv
<1>10. ASSUME NEW n \in Growths, AddHeapPointer(n)
       PROVE  AllocInv'
  BY <1>10, MovesOn DEF AddHeapPointer, AllocInv
<1> QED
  BY <1>1, <1>2, <1>3, <1>4, <1>5, <1>6, <1>7, <1>8, <1>9, <1>10
  DEF Next, Instruction, HostFunction

\* SetBytes never gives out an offset or a byte of the memory twice, for any
\* sizes and any sequence of operations of the module and its host functions
\* (sea/memory.go:60-82).
THEOREM AllocatorDisjoint == Spec => []BlocksDisjoint
<1>1. Init => AllocInv
  <2> SUFFICES ASSUME Init PROVE AllocInv
    OBVIOUS
  <2>1. pos \in Nat
    BY MemoryAssumption DEF Init
  <2>2. allocated = {}
    BY DEF Init
  <2> QED
    BY <2>1, <2>2 DEF AllocInv, BelowPos, BlocksDisjoint
<1>2. AllocInv /\ [Next]_vars => AllocInv'
  BY AllocStep
<1>3. AllocInv => BlocksDisjoint
  BY DEF AllocInv
<1> QED
  BY <1>1, <1>2, <1>3, PTL DEF Spec

-----------------------------------------------------------------------------

\* The operators on arrays return arrays.
LEMMA ZerosType == ASSUME NEW n \in Nat
                   PROVE  Zeros(n) \in Seq(Int) /\ Len(Zeros(n)) = n
BY DEF Zeros

LEMMA CopiedType ==
  ASSUME NEW mem \in Seq(Int), NEW off \in Int, NEW s \in Seq(Int)
  PROVE  Copied(mem, off, s) \in Seq(Int) /\ Len(Copied(mem, off, s)) = Len(mem)
<1>1. \A i \in 1 .. Len(mem) : i - 1 \in Cells(off, Len(s)) => i - off \in 1 .. Len(s)
  BY DEF Cells
<1>2. \A i \in 1 .. Len(mem) :
        (IF i - 1 \in Cells(off, Len(s)) THEN s[i - off] ELSE mem[i]) \in Int
  BY <1>1
<1> QED
  BY <1>2 DEF Copied

LEMMA AddressType == ASSUME NEW imm \in Addresses, NEW base \in Addresses
                     PROVE  Address(imm, base) \in Nat
BY MemoryAssumption DEF Address

\* GoInt: the conversion of an integer is one, and of those that the upper half
\* stands for it is negative.
LEMMA GoIntType == ASSUME SlicesInv, NEW i \in Int PROVE GoInt(i) \in Int
<1>1. intSpace \in Nat \ {0}
  BY MemoryAssumption DEF SlicesInv
<1>2. i % intSpace \in Int
  BY <1>1
<1> QED
  BY <1>1, <1>2 DEF GoInt

LEMMA GoIntIs ==
  ASSUME SlicesInv, NEW i \in Nat, i < intSpace
  PROVE  IF i < intSpace \div 2 THEN GoInt(i) = i ELSE GoInt(i) < 0
<1>1. intSpace \in Nat \ {0}
  BY MemoryAssumption DEF SlicesInv
<1>2. i % intSpace = i
  BY <1>1
<1> QED
  BY <1>1, <1>2 DEF GoInt

\* A write within an array keeps the types.
LEMMA WriteKeeps ==
  ASSUME SlicesInv, NEW ref \in {"first", "grown", "resized"}, NEW off \in Int,
         NEW s \in Seq(Int),
         arrays' = [arrays EXCEPT ![ref] = Copied(@, off, s)],
         UNCHANGED <<vmRef, allocRef, allocLen>>, pos' \in Nat,
         intSpace' \in IntSpaces
  PROVE  SlicesInv'
<1>1. arrays[ref] \in Seq(Int)
  BY DEF SlicesInv
<1>2. /\ Copied(arrays[ref], off, s) \in Seq(Int)
      /\ Len(Copied(arrays[ref], off, s)) = Len(arrays[ref])
  BY <1>1, CopiedType
<1>3. arrays' \in [{"first", "grown", "resized"} -> Seq(Int)]
  BY <1>2 DEF SlicesInv
<1>4. Len(arrays'[allocRef]) = Len(arrays[allocRef])
  BY <1>2 DEF SlicesInv
<1> QED
  BY <1>3, <1>4 DEF SlicesInv, AllocArray

\* A step that changes no array keeps the types.
LEMMA NoWriteKeeps ==
  ASSUME SlicesInv, UNCHANGED <<arrays, vmRef, allocRef, allocLen>>, pos' \in Nat,
         intSpace' \in IntSpaces
  PROVE  SlicesInv'
BY DEF SlicesInv, AllocArray

\* An extension of the allocator's slice keeps the types.
LEMMA ExtendKeeps ==
  ASSUME SlicesInv, NEW n \in Nat, n > 0, Extended(n), allocLen' = allocLen + n,
         UNCHANGED <<vmRef, pos>>, intSpace' \in IntSpaces
  PROVE  SlicesInv'
<1>1. AllocArray \in Seq(Int) /\ allocLen \in Nat /\ allocLen <= Len(AllocArray)
  BY DEF SlicesInv, AllocArray
<1>2. Zeros(n) \in Seq(Int) /\ Len(Zeros(n)) = n
  BY ZerosType
<1>3. CASE allocLen + n <= Len(AllocArray)
  <2>1. /\ arrays' = [arrays EXCEPT ![allocRef] = Copied(@, allocLen, Zeros(n))]
        /\ allocRef' = allocRef
    BY <1>3 DEF Extended
  <2>2. /\ Copied(AllocArray, allocLen, Zeros(n)) \in Seq(Int)
        /\ Len(Copied(AllocArray, allocLen, Zeros(n))) = Len(AllocArray)
    BY <1>1, <1>2, CopiedType
  <2>3. arrays'[allocRef] = Copied(AllocArray, allocLen, Zeros(n))
    BY <2>1 DEF SlicesInv, AllocArray
  <2>4. arrays' \in [{"first", "grown", "resized"} -> Seq(Int)]
    BY <2>1, <2>2 DEF SlicesInv, AllocArray
  <2> QED
    BY <1>1, <1>3, <2>1, <2>2, <2>3, <2>4 DEF SlicesInv, AllocArray
<1>4. CASE ~(allocLen + n <= Len(AllocArray))
  <2>1. PICK slack \in Slacks :
          arrays' = [arrays EXCEPT !["resized"] = Reallocated(n, slack)]
    BY <1>4 DEF Extended
  <2>2. slack \in Nat /\ allocRef' = "resized"
    BY <1>4, MemoryAssumption DEF Extended
  <2>3. Zeros(n + slack) \in Seq(Int) /\ Len(Zeros(n + slack)) = n + slack
    BY <2>2, ZerosType
  <2>4. /\ SubSeq(AllocArray, 1, allocLen) \in Seq(Int)
        /\ Len(SubSeq(AllocArray, 1, allocLen)) = allocLen
    BY <1>1
  <2>5. /\ Reallocated(n, slack) \in Seq(Int)
        /\ Len(Reallocated(n, slack)) = allocLen + n + slack
    <3>1. n + slack \in Nat /\ allocLen + (n + slack) = allocLen + n + slack
      BY <1>1, <2>2
    <3> QED
      BY <2>3, <2>4, <3>1 DEF Reallocated
  <2>6. arrays' \in [{"first", "grown", "resized"} -> Seq(Int)]
    BY <2>1, <2>5 DEF SlicesInv
  <2>7. arrays'["resized"] = Reallocated(n, slack)
    BY <2>1 DEF SlicesInv
  <2> QED
    BY <1>1, <2>2, <2>5, <2>6, <2>7 DEF SlicesInv, AllocArray
<1> QED
  BY <1>3, <1>4

LEMMA SlicesStep ==
  ASSUME SlicesInv, [Next]_vars
  PROVE  SlicesInv'
<1>machine. intSpace' \in IntSpaces
  BY DEF Next, vars, SlicesInv
<1> USE <1>machine, MemoryAssumption
<1>1. CASE UNCHANGED vars
  BY <1>1 DEF vars, SlicesInv, AllocArray
<1>2. ASSUME NEW n \in Widths, NEW signed \in BOOLEAN, NEW imm \in Addresses,
             NEW base \in Addresses, Load(n, signed, imm, base)
      PROVE  SlicesInv'
  <2>1. pos' = pos /\ pos \in Nat /\ UNCHANGED <<arrays, vmRef, allocRef, allocLen>>
    BY <1>2 DEF Load, SlicesInv
  <2> QED
    BY <2>1, NoWriteKeeps
<1>3. ASSUME NEW n \in Widths, NEW imm \in Addresses, NEW base \in Addresses,
             NEW v \in Operands, Store(n, imm, base, v)
      PROVE  SlicesInv'
  <2> DEFINE at == GoInt(Address(imm, base))
  <2>1. pos' \in Nat /\ UNCHANGED <<vmRef, allocRef, allocLen>>
    BY <1>3 DEF Store, SlicesInv
  <2>2. \/ UNCHANGED arrays
        \/ arrays' = [arrays EXCEPT ![vmRef] = Copied(@, at, SubSeq(v, 1, n))]
    BY <1>3 DEF Store
  <2>3. at \in Int /\ vmRef \in {"first", "grown", "resized"}
    <3>1. Address(imm, base) \in Int
      BY AddressType
    <3>2. at \in Int
      BY <3>1, GoIntType
    <3>3. vmRef \in {"first", "grown", "resized"}
      BY DEF SlicesInv
    <3> QED
      BY <3>2, <3>3
  <2> HIDE DEF at
  <2>4. SubSeq(v, 1, n) \in Seq(Int)
    OBVIOUS
  <2> QED
    BY <2>1, <2>2, <2>3, <2>4, WriteKeeps, NoWriteKeeps
<1>4. CASE CurrentMemory
  BY <1>4, NoWriteKeeps DEF CurrentMemory, SlicesInv
<1>5. ASSUME NEW n \in Growths, GrowMemory(n)
      PROVE  SlicesInv'
  <2>2. GrowBytes(n) \in Int
    BY DEF GrowBytes, Int32
  <2>3. CASE GrowBytes(n) < 0 \/ GrowBytes(n) = 0
    BY <1>5, <2>3, NoWriteKeeps DEF GrowMemory, Grown, SlicesInv
  <2>4. CASE GrowBytes(n) > 0
    <3>1. /\ arrays' = [arrays EXCEPT !["grown"] = Memory \o Zeros(GrowBytes(n))]
          /\ vmRef' = "grown" /\ UNCHANGED <<allocRef, allocLen, pos>>
      BY <1>5, <2>2, <2>4 DEF GrowMemory, Grown
    <3>2. Memory \in Seq(Int) /\ Zeros(GrowBytes(n)) \in Seq(Int)
      <4>1. GrowBytes(n) \in Nat
        BY <2>2, <2>4
      <4>2. Memory \in Seq(Int)
        BY DEF SlicesInv, Memory
      <4> QED
        BY <4>1, <4>2, ZerosType
    <3>3. Memory \o Zeros(GrowBytes(n)) \in Seq(Int)
      BY <3>2
    <3>4. arrays' \in [{"first", "grown", "resized"} -> Seq(Int)]
      BY <3>1, <3>3 DEF SlicesInv
    <3>5. arrays'[allocRef] = arrays[allocRef]
      BY <3>1 DEF SlicesInv
    <3> QED
      BY <3>1, <3>4, <3>5 DEF SlicesInv, AllocArray
  <2> QED
    BY <2>2, <2>3, <2>4
<1>6. ASSUME NEW s \in Contents, NEW off \in Addresses, ProcessWriteAt(s, off)
      PROVE  SlicesInv'
  <2> DEFINE n == IF Len(Memory) < Len(s) + off THEN Len(Memory) - off ELSE Len(s)
  <2>2. pos' \in Nat /\ UNCHANGED <<vmRef, allocRef, allocLen>>
    BY <1>6 DEF ProcessWriteAt, SlicesInv
  <2>3. CASE n < 0
    BY <1>6, <2>2, <2>3, NoWriteKeeps DEF ProcessWriteAt
  <2>4. CASE ~(n < 0)
    <3>1. arrays' = [arrays EXCEPT ![vmRef] = Copied(@, off, SubSeq(s, 1, n))]
      BY <1>6, <2>4 DEF ProcessWriteAt
    <3>2. n \in Nat /\ n <= Len(s)
      <4>1. Len(Memory) \in Nat
        BY DEF SlicesInv, Memory
      <4> QED
        BY <2>4, <4>1
    <3>3. SubSeq(s, 1, n) \in Seq(Int)
      BY <3>2
    <3>4. vmRef \in {"first", "grown", "resized"}
      BY DEF SlicesInv
    <3>5. off \in Int
      OBVIOUS
    <3> QED
      BY <2>2, <3>1, <3>3, <3>4, <3>5, WriteKeeps
  <2> QED
    BY <2>3, <2>4
<1>7. ASSUME NEW s \in Contents, NEW off \in Addresses, WriteAt(s, off)
      PROVE  SlicesInv'
  <2>2. CASE Panics(off, Len(s))
    BY <1>7, <2>2, NoWriteKeeps DEF WriteAt, SlicesInv
  <2>3. CASE ~Panics(off, Len(s))
    <3>1. /\ arrays' = [arrays EXCEPT ![allocRef] = Copied(@, off, s)]
          /\ pos' = pos + Room(Len(s)) /\ UNCHANGED <<vmRef, allocRef, allocLen>>
      BY <1>7, <2>3 DEF WriteAt, Set
    <3>2. Room(Len(s)) \in Nat
      BY RoomCovers
    <3>3. pos' \in Nat /\ allocRef \in {"first", "grown", "resized"}
      BY <3>1, <3>2 DEF SlicesInv
    <3>4. s \in Seq(Int) /\ off \in Int
      OBVIOUS
    <3> QED
      BY <3>1, <3>3, <3>4, WriteKeeps
  <2> QED
    BY <2>2, <2>3
<1>8. ASSUME NEW s \in Contents, SetBytes(s)
      PROVE  SlicesInv'
  <2>2. CASE Panics(pos, Len(s))
    BY <1>8, <2>2, NoWriteKeeps DEF SetBytes, SlicesInv
  <2>3. CASE ~Panics(pos, Len(s))
    <3>1. /\ arrays' = [arrays EXCEPT ![allocRef] = Copied(@, pos, s)]
          /\ pos' = pos + Room(Len(s)) /\ UNCHANGED <<vmRef, allocRef, allocLen>>
      BY <1>8, <2>3 DEF SetBytes, Set
    <3>2. Room(Len(s)) \in Nat
      BY RoomCovers
    <3>3. pos \in Int /\ pos' \in Nat /\ allocRef \in {"first", "grown", "resized"}
      BY <3>1, <3>2 DEF SlicesInv
    <3>4. s \in Seq(Int)
      OBVIOUS
    <3> QED
      BY <3>1, <3>3, <3>4, WriteKeeps
  <2> QED
    BY <2>2, <2>3
<1>9. ASSUME NEW n \in Resizes, Resize(n)
      PROVE  SlicesInv'
  <2>2. CASE pos < n
    <3>1. n - pos \in Nat /\ n - pos > 0
      BY <2>2 DEF SlicesInv
    <3>2. /\ Extended(n - pos) /\ allocLen' = allocLen + n - pos
          /\ UNCHANGED <<vmRef, pos>>
      BY <1>9, <2>2 DEF Resize
    <3>3. allocLen' = allocLen + (n - pos)
      BY <3>2 DEF SlicesInv, AllocArray
    <3> QED
      BY <3>1, <3>2, <3>3, ExtendKeeps
  <2>3. CASE ~(pos < n)
    BY <1>9, <2>3, NoWriteKeeps DEF Resize, SlicesInv
  <2> QED
    BY <2>2, <2>3
<1>10. ASSUME NEW n \in Growths, AddHeapPointer(n)
       PROVE  SlicesInv'
  BY <1>10, NoWriteKeeps DEF AddHeapPointer, Report, SlicesInv
<1> QED
  BY <1>1, <1>2, <1>3, <1>4, <1>5, <1>6, <1>7, <1>8, <1>9, <1>10
  DEF Next, Instruction, HostFunction

LEMMA InitSlicesInv ==
  ASSUME Init
  PROVE  SlicesInv
<1>1. PICK p \in InitialPages \cup {1} :
        arrays = [r \in {"first", "grown", "resized"} |->
          IF r = "first" THEN Zeros(p * PageSize) ELSE <<>>]
  BY DEF Init
<1>2. p * PageSize \in Nat
  BY MemoryAssumption
<1>3. Zeros(p * PageSize) \in Seq(Int) /\ Len(Zeros(p * PageSize)) = p * PageSize
  BY <1>2, ZerosType
<1>4. arrays \in [{"first", "grown", "resized"} -> Seq(Int)]
  <2>1. <<>> \in Seq(Int)
    OBVIOUS
  <2>2. Zeros(p * PageSize) \in Seq(Int)
    BY <1>3
  <2> QED
    BY <1>1, <2>1, <2>2
<1>5. /\ vmRef = "first" /\ allocRef = "first" /\ allocLen = Len(arrays["first"])
      /\ pos \in Nat /\ intSpace \in IntSpaces
  BY MemoryAssumption DEF Init
<1>6. Len(arrays["first"]) \in Nat
  BY <1>4
<1> QED
  BY <1>4, <1>5, <1>6 DEF SlicesInv, AllocArray

-----------------------------------------------------------------------------

\* Whole pages: what growMemory counts, and what a sum that wraps around leaves.
PagesWhole == \E k \in Nat : Len(Memory) = k * PageSize

LEMMA DivideProduct == ASSUME NEW k \in Int, NEW p \in Nat \ {0}
                       PROVE  (k * p) \div p = k
<1> DEFINE d == (k * p) \div p
           r == (k * p) % p
<1>1. d \in Int /\ r \in Int /\ k * p = p * d + r /\ 0 <= r /\ r < p
  OBVIOUS
<1> HIDE DEF d, r
<1>2. p * (k - d) = r
  BY <1>1
<1>3. CASE k - d >= 1
  <2>1. p * (k - d) >= p
    BY <1>3, <1>1
  <2> QED
    BY <2>1, <1>1, <1>2
<1>4. CASE k - d <= -1
  <2>1. p * (k - d) <= -p
    BY <1>4, <1>1
  <2> QED
    BY <2>1, <1>1, <1>2
<1>5. k = d
  BY <1>1, <1>3, <1>4
<1> QED
  BY <1>5 DEF d

LEMMA RemainderOfProduct == ASSUME NEW n \in Int, NEW q \in Nat \ {0}, NEW p \in Nat \ {0}
                            PROVE  \E k \in Int : (n * p) % (q * p) = k * p
<1> DEFINE a == q * p
           d == (n * p) \div a
           r == (n * p) % a
<1>1. a \in Nat \ {0}
  OBVIOUS
<1>2. d \in Int /\ r \in Int /\ n * p = a * d + r
  BY <1>1
<1>3. r = (n - q * d) * p
  <2> HIDE DEF r, d
  <2>1. a * d = (q * d) * p
    BY <1>2
  <2>2. r = n * p - (q * d) * p
    BY <2>1, <1>2
  <2> QED
    BY <2>2, <1>2
<1> DEFINE k == n - q * d
<1>4. k \in Int /\ (n * p) % (q * p) = k * p
  BY <1>2, <1>3
<1> HIDE DEF k
<1> QED
  BY <1>4

\* The int32 of a number of pages is a number of pages.
LEMMA GrowsByPages ==
  ASSUME NEW n \in Int
  PROVE  /\ \E k \in Int : GrowBytes(n) = k * PageSize
         /\ n * PageSize \in 0 .. (AddrSpace \div 2 - 1) => GrowBytes(n) = n * PageSize
<1>1. PICK pages \in Nat \ {0} : AddrSpace = pages * PageSize
  BY MemoryAssumption
<1>2. PICK k \in Int : (n * PageSize) % AddrSpace = k * PageSize
  <2>1. \E k \in Int : (n * PageSize) % (pages * PageSize) = k * PageSize
    BY RemainderOfProduct, MemoryAssumption
  <2> QED
    BY <1>1, <2>1
<1>3. k * PageSize - AddrSpace = (k - pages) * PageSize
  BY <1>1, MemoryAssumption
<1>4. GrowBytes(n) = k * PageSize \/ GrowBytes(n) = (k - pages) * PageSize
  BY <1>2, <1>3 DEF GrowBytes, Int32
<1>5. \E l \in Int : GrowBytes(n) = l * PageSize
  <2>1. k \in Int /\ k - pages \in Int
    BY <1>1
  <2> QED
    BY <1>4, <2>1
<1>6. ASSUME n * PageSize \in 0 .. (AddrSpace \div 2 - 1)
      PROVE  GrowBytes(n) = n * PageSize
  <2> DEFINE b == n * PageSize
  <2>1. b \in 0 .. (AddrSpace \div 2 - 1) /\ AddrSpace \in Nat \ {0}
    BY <1>6, MemoryAssumption
  <2> HIDE DEF b
  <2>2. b < AddrSpace /\ b < AddrSpace \div 2 /\ b \in Nat
    BY <2>1
  <2>3. b % AddrSpace = b
    BY <2>1, <2>2
  <2>4. Int32(b) = b
    BY <2>2, <2>3 DEF Int32
  <2> QED
    BY <2>4 DEF GrowBytes, b
<1> QED
  BY <1>5, <1>6

\* Steps that do not grow the memory of the VM.
LEMMA SameLength ==
  ASSUME PagesWhole, Len(Memory') = Len(Memory), last'.op # "grow", SlicesInv
  PROVE  KeepsContents /\ PagesWhole'
<1>1. Len(Memory) \in Nat
  BY DEF SlicesInv, Memory
<1>2. Len(Memory)' = Len(Memory)
  OBVIOUS
<1>3. PagesWhole'
  BY <1>2 DEF PagesWhole
<1>4. KeepsContents
  BY <1>1 DEF KeepsContents
<1> QED
  BY <1>3, <1>4

LEMMA WriteLength ==
  ASSUME SlicesInv, NEW ref \in {"first", "grown", "resized"}, NEW off \in Int,
         NEW s \in Seq(Int), vmRef' = vmRef,
         arrays' = [arrays EXCEPT ![ref] = Copied(@, off, s)]
  PROVE  Len(Memory') = Len(Memory)
<1>1. arrays[ref] \in Seq(Int)
  BY DEF SlicesInv
<1>2. Len(Copied(arrays[ref], off, s)) = Len(arrays[ref])
  BY <1>1, CopiedType
<1> QED
  BY <1>2 DEF SlicesInv, Memory

\* growMemory: whole pages of zeros behind what was there.
LEMMA GrowStep ==
  ASSUME SlicesInv, PagesWhole, NEW n \in Growths, GrowMemory(n)
  PROVE  KeepsContents /\ PagesWhole'
<1> DEFINE more == GrowBytes(n)
<1>1. n \in Int /\ Memory \in Seq(Int) /\ Len(Memory) \in Nat
  BY MemoryAssumption DEF SlicesInv, Memory
<1>2. more \in Int
  BY <1>1, MemoryAssumption DEF GrowBytes, Int32
<1>3. PICK k \in Nat : Len(Memory) = k * PageSize
  BY DEF PagesWhole
<1>4. CASE more < 0
  <2>1. last'.op = "grow" /\ last'.res = "panic" /\ Memory' = Memory
    BY <1>4 DEF GrowMemory, Report, Memory
  <2>2. PagesWhole'
    BY <2>1 DEF PagesWhole
  <2>3. KeepsContents
    BY <1>1, <2>1 DEF KeepsContents
  <2> QED
    BY <2>2, <2>3
<1>5. CASE more >= 0
  <2>1. last'.op = "grow" /\ last'.by = n /\ last'.pages = Len(Memory) \div PageSize
    BY <1>5, <1>2 DEF GrowMemory
  <2>2. Zeros(more) \in Seq(Int) /\ Len(Zeros(more)) = more
    BY <1>2, <1>5, ZerosType
  <2>3. Memory' = Memory \o Zeros(more)
    <3>1. CASE more = 0
      <4>1. Memory' = Memory
        BY <1>5, <3>1 DEF GrowMemory, Grown, Memory
      <4>2. Zeros(more) = <<>>
        BY <2>2, <3>1
      <4> QED
        BY <4>1, <4>2, <1>1
    <3>2. CASE more # 0
      <4>1. vmRef' = "grown" /\ arrays' = [arrays EXCEPT !["grown"] = Memory \o Zeros(more)]
        BY <1>2, <1>5, <3>2 DEF GrowMemory, Grown
      <4> QED
        BY <4>1 DEF SlicesInv, Memory
    <3> QED
      BY <3>1, <3>2
  <2>4. Len(Memory') = Len(Memory) + more
    <3>1. Len(Memory \o Zeros(more)) = Len(Memory) + Len(Zeros(more))
      BY <1>1, <2>2, SMTT(30)
    <3> QED
      BY <2>2, <2>3, <3>1
  <2>5. \A i \in 1 .. Len(Memory) : Memory'[i] = Memory[i]
    BY <1>1, <2>2, <2>3
  <2>6. \A i \in (Len(Memory) + 1) .. Len(Memory') : Memory'[i] = 0
    <3> TAKE i \in (Len(Memory) + 1) .. Len(Memory')
    <3>1. i - Len(Memory) \in 1 .. more
      BY <1>1, <1>2, <1>5, <2>4
    <3>2. Memory'[i] = Zeros(more)[i - Len(Memory)]
      BY <1>1, <2>2, <2>3, <3>1
    <3> QED
      BY <3>1, <3>2 DEF Zeros
  <2>7. IsPrefix(Memory, Memory')
    <3>1. Memory' \in Seq(Int)
      BY <1>1, <2>2, <2>3
    <3>2. Len(SubSeq(Memory, 1, Len(Memory))) = Len(Memory) /\ SubSeq(Memory, 1, Len(Memory)) \in Seq(Int)
      BY <1>1
    <3>3. Len(SubSeq(Memory', 1, Len(Memory))) = Len(Memory) /\ SubSeq(Memory', 1, Len(Memory)) \in Seq(Int)
      BY <1>1, <2>4, <3>1, <1>2, <1>5
    <3>4. \A i \in 1 .. Len(Memory) : SubSeq(Memory, 1, Len(Memory))[i] = SubSeq(Memory', 1, Len(Memory))[i]
      BY <1>1, <1>2, <1>5, <2>4, <2>5, <3>1
    <3>5. SubSeq(Memory, 1, Len(Memory)) = SubSeq(Memory', 1, Len(Memory))
      BY <1>1, <3>2, <3>3, <3>4
    <3> QED
      BY <1>1, <1>2, <1>5, <2>4, <3>5 DEF IsPrefix
  <2>8. last'.pages * PageSize = Len(Memory)
    BY <1>3, <2>1, DivideProduct, MemoryAssumption
  <2>9. last'.by * PageSize \in 0 .. (AddrSpace \div 2 - 1) =>
          Len(Memory') = Len(Memory) + last'.by * PageSize
    BY <1>1, <2>1, <2>4, GrowsByPages
  <2>10. PagesWhole'
    <3>1. PICK l \in Int : more = l * PageSize
      BY <1>1, GrowsByPages
    <3>2. Len(Memory)' = (k + l) * PageSize
      BY <1>3, <2>4, <3>1, MemoryAssumption
    <3>3. Len(Memory)' >= 0
      BY <1>1, <1>2, <1>5, <2>4
    <3>4. k + l >= 0
      <4> SUFFICES ASSUME k + l < 0 PROVE FALSE
        BY <3>1
      <4>1. (k + l) * PageSize < 0
        BY <3>1, MemoryAssumption
      <4> QED
        BY <3>2, <3>3, <4>1
    <3> QED
      BY <3>1, <3>2, <3>4 DEF PagesWhole
  <2>11. Len(Memory) <= Len(Memory')
    BY <1>1, <1>2, <1>5, <2>4
  <2>12. KeepsContents
    BY <2>1, <2>6, <2>7, <2>8, <2>9, <2>11 DEF KeepsContents
  <2> QED
    BY <2>10, <2>12
<1> QED
  BY <1>2, <1>4, <1>5
LEMMA KeepsStep ==
  ASSUME SlicesInv, PagesWhole, Next
  PROVE  KeepsContents /\ PagesWhole'
<1> USE MemoryAssumption
<1>1. ASSUME NEW n \in Widths, NEW signed \in BOOLEAN, NEW imm \in Addresses,
             NEW base \in Addresses, Load(n, signed, imm, base)
      PROVE  KeepsContents /\ PagesWhole'
  <2>1. last'.op = "load"
    BY <1>1 DEF Load, Access
  <2>2. UNCHANGED <<arrays, vmRef>>
    BY <1>1 DEF Load
  <2> QED
    BY <2>1, <2>2, SameLength DEF Memory
<1>2. ASSUME NEW n \in Widths, NEW imm \in Addresses, NEW base \in Addresses,
             NEW v \in Operands, Store(n, imm, base, v)
      PROVE  KeepsContents /\ PagesWhole'
  <2> DEFINE addr == GoInt(Address(imm, base))
  <2>1. last'.op = "store" /\ vmRef' = vmRef
    BY <1>2 DEF Store, Access
  <2>2. CASE arrays' = arrays
    BY <2>1, <2>2, SameLength DEF Memory
  <2>3. CASE arrays' = [arrays EXCEPT ![vmRef] = Copied(@, addr, SubSeq(v, 1, n))]
    <3>1. SubSeq(v, 1, n) \in Seq(Int)
      OBVIOUS
    <3>2. addr \in Int
      <4>1. Address(imm, base) \in Int
        BY AddressType
      <4> QED
        BY <4>1, GoIntType
    <3>3. vmRef \in {"first", "grown", "resized"}
      BY DEF SlicesInv
    <3> HIDE DEF addr
    <3> QED
      BY <2>1, <2>3, <3>1, <3>2, <3>3, WriteLength, SameLength
  <2> QED
    BY <1>2, <2>2, <2>3 DEF Store
<1>3. CASE CurrentMemory
  <2>1. last'.op = "current"
    BY <1>3 DEF CurrentMemory
  <2> QED
    BY <1>3, <2>1, SameLength DEF CurrentMemory, Memory
<1>4. ASSUME NEW n \in Growths, GrowMemory(n)
      PROVE  KeepsContents /\ PagesWhole'
  BY <1>4, GrowStep
<1>5. ASSUME NEW s \in Contents, NEW off \in Addresses, ProcessWriteAt(s, off)
      PROVE  KeepsContents /\ PagesWhole'
  <2> DEFINE n == IF Len(Memory) < Len(s) + off THEN Len(Memory) - off ELSE Len(s)
  <2>1. last'.op = "processWrite" /\ vmRef' = vmRef
    BY <1>5 DEF ProcessWriteAt, Report
  <2>2. CASE arrays' = arrays
    BY <2>1, <2>2, SameLength DEF Memory
  <2>3. CASE ~(n < 0) /\ arrays' = [arrays EXCEPT ![vmRef] = Copied(@, off, SubSeq(s, 1, n))]
    <3>1. Len(Memory) \in Nat
      BY DEF SlicesInv, Memory
    <3>2. n \in Nat /\ n <= Len(s)
      BY <2>3, <3>1
    <3>3. off \in Int /\ vmRef \in {"first", "grown", "resized"}
      BY DEF SlicesInv
    <3>4. s \in Seq(Int)
      OBVIOUS
    <3>5. SubSeq(s, 1, n) \in Seq(Int)
      <4> HIDE DEF n
      <4> QED
        BY <3>2, <3>4
    <3> QED
      BY <2>1, <2>3, <3>3, <3>5, WriteLength, SameLength
  <2> QED
    BY <1>5, <2>2, <2>3 DEF ProcessWriteAt
<1>6. ASSUME NEW s \in Contents, NEW off \in Addresses, WriteAt(s, off)
      PROVE  KeepsContents /\ PagesWhole'
  <2>1. last'.op = "write" /\ vmRef' = vmRef
    BY <1>6 DEF WriteAt, Report
  <2>2. CASE arrays' = arrays
    BY <2>1, <2>2, SameLength DEF Memory
  <2>3. CASE arrays' = [arrays EXCEPT ![allocRef] = Copied(@, off, s)]
    <3>1. s \in Seq(Int) /\ off \in Int /\ allocRef \in {"first", "grown", "resized"}
      BY DEF SlicesInv
    <3> QED
      BY <2>1, <2>3, <3>1, WriteLength, SameLength
  <2> QED
    BY <1>6, <2>2, <2>3 DEF WriteAt, Set
<1>7. ASSUME NEW s \in Contents, SetBytes(s)
      PROVE  KeepsContents /\ PagesWhole'
  <2>1. last'.op = "setBytes" /\ vmRef' = vmRef
    BY <1>7 DEF SetBytes, Report
  <2>2. CASE arrays' = arrays
    BY <2>1, <2>2, SameLength DEF Memory
  <2>3. CASE arrays' = [arrays EXCEPT ![allocRef] = Copied(@, pos, s)]
    <3>1. s \in Seq(Int) /\ pos \in Int /\ allocRef \in {"first", "grown", "resized"}
      BY DEF SlicesInv
    <3> QED
      BY <2>1, <2>3, <3>1, WriteLength, SameLength
  <2> QED
    BY <1>7, <2>2, <2>3 DEF SetBytes, Set
<1>8. ASSUME NEW n \in Resizes, Resize(n)
      PROVE  KeepsContents /\ PagesWhole'
  <2>1. last'.op = "resize" /\ vmRef' = vmRef
    BY <1>8 DEF Resize, Report
  <2>2. CASE arrays' = arrays
    BY <2>1, <2>2, SameLength DEF Memory
  <2>3. CASE pos < n /\ arrays' = [arrays EXCEPT ![allocRef] = Copied(@, allocLen, Zeros(n - pos))]
    <3>1. n - pos \in Nat /\ allocLen \in Int /\ allocRef \in {"first", "grown", "resized"}
      BY <2>3 DEF SlicesInv, AllocArray
    <3>2. Zeros(n - pos) \in Seq(Int)
      BY <3>1, ZerosType
    <3> QED
      BY <2>1, <2>3, <3>1, <3>2, WriteLength, SameLength
  <2>4. CASE \E slack \in Slacks : arrays' = [arrays EXCEPT !["resized"] = Reallocated(n - pos, slack)]
    <3>1. Memory' = Memory
      BY <2>1, <2>4 DEF SlicesInv, Memory
    <3> QED
      BY <2>1, <3>1, SameLength
  <2> QED
    BY <1>8, <2>2, <2>3, <2>4 DEF Resize, Extended
<1>9. ASSUME NEW n \in Growths, AddHeapPointer(n)
      PROVE  KeepsContents /\ PagesWhole'
  <2>1. last'.op = "addHeap"
    BY <1>9 DEF AddHeapPointer, Report
  <2> QED
    BY <1>9, <2>1, SameLength DEF AddHeapPointer, Memory
<1> QED
  BY <1>1, <1>2, <1>3, <1>4, <1>5, <1>6, <1>7, <1>8, <1>9
  DEF Next, Instruction, HostFunction

LEMMA PagesInit == ASSUME Init PROVE PagesWhole
<1>1. PICK p \in InitialPages \cup {1} :
        arrays = [r \in {"first", "grown", "resized"} |->
          IF r = "first" THEN Zeros(p * PageSize) ELSE <<>>]
  BY DEF Init
<1>2. p \in Nat /\ p * PageSize \in Nat
  BY MemoryAssumption
<1>3. Len(Memory) = p * PageSize
  BY <1>1, <1>2, ZerosType DEF Init, Memory
<1> QED
  BY <1>2, <1>3 DEF PagesWhole

LEMMA PagesStep == ASSUME SlicesInv, PagesWhole, [Next]_vars PROVE PagesWhole'
<1>1. ASSUME UNCHANGED vars PROVE PagesWhole'
  BY <1>1 DEF PagesWhole, vars, Memory
<1> QED
  BY <1>1, KeepsStep

\* A memory that grows keeps its contents, adds zeros, and is as many pages longer
\* as were asked for where their size fits an int32; it is as long as it was through
\* everything else, for any sizes (memory.go:208-214, sea/memory.go:85-90).
THEOREM GrowthKept == Spec => GrowKeeps
<1>1. Init => SlicesInv /\ PagesWhole
  BY InitSlicesInv, PagesInit
<1>2. SlicesInv /\ PagesWhole /\ [Next]_vars => (SlicesInv /\ PagesWhole)'
  BY SlicesStep, PagesStep
<1>3. SlicesInv /\ PagesWhole /\ [Next]_vars => [KeepsContents]_vars
  BY KeepsStep
<1> QED
  BY <1>1, <1>2, <1>3, PTL DEF Spec, GrowKeeps
-----------------------------------------------------------------------------

\* The memory of the VM stays below the 2 GiB that every int holds.
SmallMemory == Len(Memory) <= MaxBytes

\* What the record of a step says of its operation.
LEMMA Operations ==
  /\ CurrentMemory => last'.op = "current"
  /\ \A n \in Growths : GrowMemory(n) => last'.op = "grow"
  /\ HostFunction => last'.op \notin {"load", "store", "grow"}
  /\ \A n \in Widths, signed \in BOOLEAN, imm, base \in Addresses :
       Load(n, signed, imm, base) => last'.op = "load"
  /\ \A n \in Widths, imm, base \in Addresses, v \in Operands :
       Store(n, imm, base, v) => last'.op = "store"
<1>1. CurrentMemory => last'.op = "current"
  BY DEF CurrentMemory
<1>2. \A n \in Growths : GrowMemory(n) => last'.op = "grow"
  BY DEF GrowMemory, Report
<1>3. ASSUME HostFunction PROVE last'.op \notin {"load", "store", "grow"}
  <2>1. ASSUME NEW s \in Contents, NEW off \in Addresses, ProcessWriteAt(s, off)
        PROVE  last'.op = "processWrite"
    BY <2>1 DEF ProcessWriteAt, Report
  <2>2. ASSUME NEW s \in Contents, NEW off \in Addresses, WriteAt(s, off)
        PROVE  last'.op = "write"
    BY <2>2 DEF WriteAt, Report
  <2>3. ASSUME NEW s \in Contents, SetBytes(s) PROVE last'.op = "setBytes"
    BY <2>3 DEF SetBytes, Report
  <2>4. ASSUME NEW n \in Resizes, Resize(n) PROVE last'.op = "resize"
    BY <2>4 DEF Resize, Report
  <2>5. ASSUME NEW n \in Growths, AddHeapPointer(n) PROVE last'.op = "addHeap"
    BY <2>5 DEF AddHeapPointer, Report
  <2> QED
    BY <1>3, <2>1, <2>2, <2>3, <2>4, <2>5 DEF HostFunction
<1>4. ASSUME NEW n \in Widths, NEW signed \in BOOLEAN, NEW imm \in Addresses,
             NEW base \in Addresses, Load(n, signed, imm, base)
      PROVE  last'.op = "load"
  BY <1>4 DEF Load, Access
<1>5. ASSUME NEW n \in Widths, NEW imm \in Addresses, NEW base \in Addresses,
             NEW v \in Operands, Store(n, imm, base, v)
      PROVE  last'.op = "store"
  BY <1>5 DEF Store, Access
<1> QED
  BY <1>1, <1>2, <1>3, <1>4, <1>5

\* SmallStep: only growMemory makes the memory longer, within the bound.
LEMMA SmallStep ==
  ASSUME SlicesInv, PagesWhole, SmallMemory, [Next]_vars
  PROVE  SmallMemory'
<1>1. CASE UNCHANGED vars
  BY <1>1 DEF vars, SmallMemory, Memory
<1>2. CASE Next /\ last'.op # "grow"
  BY <1>2, KeepsStep DEF KeepsContents, SmallMemory
<1>3. CASE Next /\ last'.op = "grow"
  <2>1. PICK n \in Growths : GrowMemory(n)
    BY <1>3, Operations DEF Next, Instruction
  <2>2. GrowBytes(n) \in Int /\ Memory \in Seq(Int) /\ Len(Memory) \in Nat
    BY MemoryAssumption DEF GrowBytes, Int32, SlicesInv, Memory
  <2>3. CASE GrowBytes(n) > 0
    <3>1. GrowBytes(n) \in Nat /\ Len(Memory) + GrowBytes(n) <= MaxBytes
      BY <2>1, <2>2, <2>3 DEF GrowMemory
    <3>2. arrays' = [arrays EXCEPT !["grown"] = Memory \o Zeros(GrowBytes(n))] /\ vmRef' = "grown"
      BY <2>1, <2>2, <2>3 DEF GrowMemory, Grown
    <3>3. Memory' = Memory \o Zeros(GrowBytes(n))
      BY <3>2 DEF Memory, SlicesInv
    <3>4. Len(Memory') = Len(Memory) + GrowBytes(n)
      BY <2>2, <3>1, <3>3, ZerosType
    <3> QED
      BY <3>1, <3>4 DEF SmallMemory
  <2>4. CASE ~(GrowBytes(n) > 0)
    <3>1. UNCHANGED <<arrays, vmRef>>
      BY <2>1, <2>2, <2>4 DEF GrowMemory, Grown
    <3> QED
      BY <3>1 DEF SmallMemory, Memory
  <2> QED
    BY <2>2, <2>3, <2>4
<1> QED
  BY <1>1, <1>2, <1>3

\* BoundsDecide: inBounds and Go's own check together let through exactly what
\* lies in the memory; Go's check is needed only for places no int holds.
LEMMA BoundsDecide ==
  ASSUME SlicesInv, SmallMemory, NEW addr \in 0 .. (AddrSpace - 1), NEW n \in Nat \ {0}
  PROVE  /\ InBounds(addr, n) /\ Sliced(Memory, GoInt(addr), n) <=> addr + n <= Len(Memory)
         /\ InBounds(addr, n) /\ addr + n <= intSpace \div 2 => Sliced(Memory, GoInt(addr), n)
<1>1. /\ Len(Memory) \in Nat /\ Len(Memory) <= MaxBytes
      /\ MaxBytes \in Nat /\ MaxBytes < AddrSpace \div 2
      /\ AddrSpace \in Nat /\ intSpace \in Nat /\ AddrSpace <= intSpace
  BY MemoryAssumption, SizeAssumption DEF SlicesInv, Memory, SmallMemory
<1>2. PICK half \in Nat : half = intSpace \div 2 /\ AddrSpace \div 2 <= half /\ half <= intSpace
  BY <1>1
<1>3. addr \in Nat /\ addr < intSpace /\ GoInt(addr) \in Int
  BY <1>1, GoIntType
<1>4. CASE addr + n <= half
  <2>1. GoInt(addr) = addr
    BY <1>2, <1>3, <1>4, GoIntIs
  <2>2. PICK top \in Nat : top = addr + n - 1
    BY <1>3
  <2>3. GoInt(top) = top
    BY <1>1, <1>2, <1>4, <2>2, GoIntIs
  <2>4. GoInt(GoInt(addr) + n - 1) = addr + n - 1
    BY <2>1, <2>2, <2>3
  <2>5. InBounds(addr, n) <=> addr + n <= Len(Memory)
    BY <1>1, <1>3, <2>4 DEF InBounds
  <2>6. Sliced(Memory, GoInt(addr), n) <=> addr + n <= Len(Memory)
    BY <1>3, <2>1 DEF Sliced
  <2> QED
    BY <2>5, <2>6
<1>5. CASE ~(addr + n <= half)
  <2>1. ~(addr + n <= Len(Memory))
    BY <1>1, <1>2, <1>3, <1>5
  <2>2. ~Sliced(Memory, GoInt(addr), n)
    <3>1. GoInt(addr) = addr \/ GoInt(addr) < 0
      BY <1>3, GoIntIs
    <3> QED
      BY <1>3, <2>1, <3>1 DEF Sliced
  <2> QED
    BY <1>2, <1>5, <2>1, <2>2
<1> QED
  BY <1>4, <1>5

LEMMA AddressRange ==
  ASSUME NEW imm \in Addresses, NEW base \in Addresses
  PROVE  Address(imm, base) \in 0 .. (AddrSpace - 1)
<1>1. imm \in Nat /\ base \in Nat /\ AddrSpace \in Nat \ {0}
  BY MemoryAssumption
<1>2. (imm + base) % AddrSpace \in 0 .. (AddrSpace - 1)
  BY <1>1
<1> QED
  BY <1>2 DEF Address

LEMMA AccessStep ==
  ASSUME SlicesInv, SmallMemory, AccessesInside, [Next]_vars
  PROVE  AccessesInside'
<1>1. ASSUME last'.op \notin {"load", "store"} PROVE AccessesInside'
  BY <1>1 DEF AccessesInside
<1>2. CASE UNCHANGED vars
  <2>1. last' = last
    BY <1>2 DEF vars
  <2> QED
    BY <2>1 DEF AccessesInside
\* What an access records is what BoundsDecide says of it.
<1>3. ASSUME NEW addr \in 0 .. (AddrSpace - 1), NEW n \in Widths,
             last'.inside = (addr + n <= Len(Memory)),
             last'.fits = (addr + n <= intSpace \div 2),
             last'.res = IF ~InBounds(addr, n) THEN "trap"
                         ELSE IF ~Sliced(Memory, GoInt(addr), n) THEN "panic" ELSE "ok"
      PROVE  AccessesInside'
  <2>1. n \in Nat \ {0}
    BY MemoryAssumption
  <2>2. /\ InBounds(addr, n) /\ Sliced(Memory, GoInt(addr), n) <=> addr + n <= Len(Memory)
        /\ InBounds(addr, n) /\ addr + n <= intSpace \div 2 => Sliced(Memory, GoInt(addr), n)
    BY <2>1, BoundsDecide
  <2>3. last'.res = "ok" <=> InBounds(addr, n) /\ Sliced(Memory, GoInt(addr), n)
    BY <1>3
  <2>4. last'.res = "panic" => InBounds(addr, n) /\ ~Sliced(Memory, GoInt(addr), n)
    BY <1>3
  <2> QED
    BY <1>3, <2>2, <2>3, <2>4 DEF AccessesInside
<1>4. ASSUME NEW n \in Widths, NEW signed \in BOOLEAN, NEW imm \in Addresses,
             NEW base \in Addresses, Load(n, signed, imm, base)
      PROVE  AccessesInside'
  <2>1. PICK addr \in 0 .. (AddrSpace - 1) : addr = Address(imm, base)
    BY AddressRange
  <2>2. /\ last'.inside = (addr + n <= Len(Memory))
        /\ last'.fits = (addr + n <= intSpace \div 2)
        /\ last'.res = IF ~InBounds(addr, n) THEN "trap"
                       ELSE IF ~Sliced(Memory, GoInt(addr), n) THEN "panic" ELSE "ok"
    <3>1. CASE ~InBounds(addr, n)
      BY <1>4, <2>1, <3>1 DEF Load, Access
    <3>2. CASE InBounds(addr, n) /\ ~Sliced(Memory, GoInt(addr), n)
      BY <1>4, <2>1, <3>2 DEF Load, Access
    <3>3. CASE InBounds(addr, n) /\ Sliced(Memory, GoInt(addr), n)
      BY <1>4, <2>1, <3>3 DEF Load
    <3> QED
      BY <3>1, <3>2, <3>3
  <2> QED
    BY <1>3, <2>2
<1>5. ASSUME NEW n \in Widths, NEW imm \in Addresses, NEW base \in Addresses,
             NEW v \in Operands, Store(n, imm, base, v)
      PROVE  AccessesInside'
  <2>1. PICK addr \in 0 .. (AddrSpace - 1) : addr = Address(imm, base)
    BY AddressRange
  <2>2. /\ last'.inside = (addr + n <= Len(Memory))
        /\ last'.fits = (addr + n <= intSpace \div 2)
        /\ last'.res = IF ~InBounds(addr, n) THEN "trap"
                       ELSE IF ~Sliced(Memory, GoInt(addr), n) THEN "panic" ELSE "ok"
    <3>1. CASE ~InBounds(addr, n)
      BY <1>5, <2>1, <3>1 DEF Store, Access
    <3>2. CASE InBounds(addr, n) /\ ~Sliced(Memory, GoInt(addr), n)
      BY <1>5, <2>1, <3>2 DEF Store, Access
    <3>3. CASE InBounds(addr, n) /\ Sliced(Memory, GoInt(addr), n)
      BY <1>5, <2>1, <3>3 DEF Store, Access
    <3> QED
      BY <3>1, <3>2, <3>3
  <2> QED
    BY <1>3, <2>2
<1>6. CASE \/ CurrentMemory
           \/ \E n \in Growths : GrowMemory(n)
           \/ HostFunction
  BY <1>1, <1>6, Operations
<1> QED
  BY <1>2, <1>4, <1>5, <1>6 DEF Next, Instruction

\* AccessesDecided: an access goes through exactly when its bytes are in the
\* memory, and fails otherwise than by a trap only at places that no int holds,
\* for every address, every sum that wraps around, and any machine
\* (memory.go:16-31).
THEOREM AccessesDecided == Spec => []AccessesInside
<1>1. Init => SlicesInv /\ PagesWhole /\ SmallMemory /\ AccessesInside
  <2> SUFFICES ASSUME Init PROVE SmallMemory /\ AccessesInside
    BY InitSlicesInv, PagesInit
  <2>1. PICK p \in InitialPages \cup {1} :
          arrays = [r \in {"first", "grown", "resized"} |->
            IF r = "first" THEN Zeros(p * PageSize) ELSE <<>>]
    BY DEF Init
  <2>2. p * PageSize \in Nat /\ p * PageSize <= MaxBytes
    BY MemoryAssumption, SizeAssumption
  <2>3. Len(Memory) = p * PageSize
    BY <2>1, <2>2, ZerosType DEF Init, Memory
  <2>4. last.op = "none"
    BY DEF Init
  <2> QED
    BY <2>2, <2>3, <2>4 DEF SmallMemory, AccessesInside
<1>2. SlicesInv /\ PagesWhole /\ SmallMemory /\ AccessesInside /\ [Next]_vars
        => (SlicesInv /\ PagesWhole /\ SmallMemory /\ AccessesInside)'
  BY SlicesStep, PagesStep, SmallStep, AccessStep
<1> QED
  BY <1>1, <1>2, PTL DEF Spec

\* WideTrapsFirst: on a machine whose int holds every place a module can name, as an
\* int of 64 bits does, no access fails otherwise than by a trap.
THEOREM WideTrapsFirst ==
  ASSUME SlicesInv, SmallMemory, NEW imm \in Addresses, NEW base \in Addresses,
         NEW n \in Widths, AddrSpace + n <= intSpace \div 2,
         InBounds(Address(imm, base), n)
  PROVE  Sliced(Memory, GoInt(Address(imm, base)), n)
<1>1. PICK addr \in 0 .. (AddrSpace - 1) : addr = Address(imm, base)
  BY AddressRange
<1>2. n \in Nat \ {0} /\ AddrSpace \in Nat /\ intSpace \in Nat
  BY MemoryAssumption DEF SlicesInv
<1>3. PICK half \in Int : half = intSpace \div 2
  BY <1>2
<1>4. addr + n <= half
  BY <1>1, <1>2, <1>3
<1> QED
  BY <1>1, <1>2, <1>3, <1>4, BoundsDecide
-----------------------------------------------------------------------------

\* The inductive invariant of ReadBack, with the types it needs.
BlockInv ==
  /\ BlocksHeld
  /\ \A o \in DOMAIN blocks : blocks[o] \in Seq(Int)

\* What a write within cells does not reach.
LEMMA CopiedElsewhere ==
  ASSUME NEW mem \in Seq(Int), NEW off \in Int, NEW s \in Seq(Int), NEW i \in 1 .. Len(mem)
  PROVE  /\ i - 1 \notin Cells(off, Len(s)) => Copied(mem, off, s)[i] = mem[i]
         /\ i - 1 \in Cells(off, Len(s)) => Copied(mem, off, s)[i] = s[i - off]
BY DEF Copied

\* Blocks that a step leaves on record as they were, in cells it does not write to.
LEMMA BlocksStay ==
  ASSUME BlockInv, SlicesInv, allocLen' \in Nat, allocLen' >= allocLen, allocLen' <= MaxBytes,
         pos' \in Nat, pos' >= pos,
         \A o \in DOMAIN blocks' :
           /\ o \in DOMAIN blocks /\ blocks'[o] = blocks[o]
           /\ o \in DOMAIN size' /\ size'[o] = size[o]
           /\ \A i \in 1 .. Len(blocks[o]) : AllocArray'[o + i] = AllocArray[o + i]
  PROVE  BlockInv'
<1>1. ASSUME NEW o \in DOMAIN blocks'
      PROVE  /\ o \in Nat /\ o < pos' /\ o + Len(blocks'[o]) <= pos'
             /\ o + Len(blocks'[o]) <= allocLen'
             /\ o \in DOMAIN size' /\ size'[o] = Len(blocks'[o])
             /\ \A i \in 1 .. Len(blocks'[o]) : AllocArray'[o + i] = blocks'[o][i]
             /\ blocks'[o] \in Seq(Int)
  <2>1. o \in DOMAIN blocks /\ blocks'[o] = blocks[o] /\ blocks[o] \in Seq(Int)
    BY <1>1 DEF BlockInv
  <2>2. /\ o \in Nat /\ o < pos /\ o + Len(blocks[o]) <= pos
        /\ o + Len(blocks[o]) <= allocLen
        /\ size[o] = Len(blocks[o])
        /\ \A i \in 1 .. Len(blocks[o]) : AllocArray[o + i] = blocks[o][i]
    BY <2>1 DEF BlockInv, BlocksHeld
  <2>3. pos \in Nat /\ allocLen \in Int /\ Len(blocks[o]) \in Nat
    BY <2>1 DEF SlicesInv, AllocArray
  <2> QED
    BY <1>1, <2>1, <2>2, <2>3
<1> QED
  BY <1>1 DEF BlockInv, BlocksHeld

\* Steps that leave the allocator, its array and the record alone.
LEMMA NothingWritten ==
  ASSUME BlockInv, SlicesInv, UNCHANGED <<allocLen, pos, size, blocks>>,
         AllocArray' = AllocArray
  PROVE  BlockInv'
<1>1. allocLen \in Nat /\ pos \in Nat
  BY DEF SlicesInv, AllocArray
<1>2. allocLen <= MaxBytes /\ \A o \in DOMAIN blocks : o \in DOMAIN size
  BY DEF BlockInv, BlocksHeld
<1> QED
  BY <1>1, <1>2, BlocksStay, SizeAssumption

\* A write to the allocator's array leaves the blocks that Surviving keeps.
LEMMA WriteSpares ==
  ASSUME BlockInv, SlicesInv, NEW off \in Int, NEW s \in Seq(Int),
         arrays' = [arrays EXCEPT ![allocRef] = Copied(@, off, s)],
         UNCHANGED <<allocRef, allocLen>>,
         NEW cells, Cells(off, Len(s)) \subseteq cells,
         blocks' = Surviving(cells),
         pos' \in Nat, pos' >= pos,
         \A o \in DOMAIN blocks' : o \in DOMAIN size' /\ size'[o] = size[o]
  PROVE  BlockInv'
<1>1. AllocArray \in Seq(Int) /\ Len(AllocArray) \in Nat /\ allocLen \in Nat /\ allocLen <= Len(AllocArray)
  BY DEF SlicesInv, AllocArray
<1>2. AllocArray' = Copied(AllocArray, off, s)
  BY DEF SlicesInv, AllocArray
<1>3. ASSUME NEW o \in DOMAIN blocks'
      PROVE  /\ o \in DOMAIN blocks /\ blocks'[o] = blocks[o]
             /\ \A i \in 1 .. Len(blocks[o]) : AllocArray'[o + i] = AllocArray[o + i]
  <2>1. /\ o \in DOMAIN blocks /\ blocks'[o] = blocks[o]
        /\ Cells(o, Len(blocks[o])) \cap cells = {}
    BY <1>3 DEF Surviving
  <2>2. o \in Nat /\ o + Len(blocks[o]) <= allocLen /\ Len(blocks[o]) \in Nat
    BY <2>1 DEF BlockInv, BlocksHeld
  <2>3. ASSUME NEW i \in 1 .. Len(blocks[o])
        PROVE  AllocArray'[o + i] = AllocArray[o + i]
    <3>1. o + i \in 1 .. Len(AllocArray)
      <4> DEFINE l == Len(AllocArray)
                 n == Len(blocks[o])
      <4>1. l \in Nat /\ allocLen \in Nat /\ allocLen <= l /\ n \in Nat /\ i \in 1 .. n
        BY <1>1, <2>2, <2>3
      <4> HIDE DEF l, n
      <4>2. o + n <= allocLen
        BY <2>2 DEF n
      <4> QED
        BY <2>2, <4>1, <4>2 DEF l
    <3>2. (o + i) - 1 \in Cells(o, Len(blocks[o]))
      BY <2>2, <2>3 DEF Cells
    <3>3. (o + i) - 1 \notin Cells(off, Len(s))
      BY <2>1, <3>2
    <3> QED
      BY <1>1, <1>2, <3>1, <3>3, CopiedElsewhere
  <2> QED
    BY <2>1, <2>3
<1>4. allocLen <= MaxBytes
  BY DEF BlockInv, BlocksHeld
<1> QED
  BY <1>1, <1>3, <1>4, BlocksStay

\* A write of the VM to an array that is the allocator's too, or not.
LEMMA VMWrites ==
  ASSUME BlockInv, SlicesInv, NEW off \in Int, NEW s \in Seq(Int),
         arrays' = [arrays EXCEPT ![vmRef] = Copied(@, off, s)],
         UNCHANGED <<allocRef, allocLen, pos, size>>,
         blocks' = IF vmRef = allocRef THEN Surviving(Cells(off, Len(s))) ELSE blocks
  PROVE  BlockInv'
<1>1. pos \in Nat /\ allocLen \in Nat
  BY DEF SlicesInv, AllocArray
<1>2. CASE vmRef = allocRef
  <2>1. blocks' = Surviving(Cells(off, Len(s)))
    BY <1>2
  <2>2. \A o \in DOMAIN blocks' : o \in DOMAIN size' /\ size'[o] = size[o]
    BY <2>1 DEF Surviving, BlockInv, BlocksHeld
  <2>3. arrays' = [arrays EXCEPT ![allocRef] = Copied(@, off, s)]
    BY <1>2
  <2>4. Cells(off, Len(s)) \subseteq Cells(off, Len(s)) /\ pos' \in Nat /\ pos' >= pos
    BY <1>1
  <2> HIDE DEF Cells
  <2> QED
    BY <2>1, <2>2, <2>3, <2>4, WriteSpares
<1>3. CASE vmRef # allocRef
  <2>1. AllocArray' = AllocArray
    BY <1>3 DEF AllocArray, SlicesInv
  <2> QED
    BY <1>3, <2>1, NothingWritten
<1> QED
  BY <1>2, <1>3
\* SetBytes at Pos, behind all that is on record.
LEMMA BlockAdded ==
  ASSUME BlockInv, SlicesInv, NEW s \in Contents, SetBytes(s), ~Panics(pos, Len(s))
  PROVE  BlockInv'
<1> DEFINE n == Len(s)
<1>1. /\ AllocArray \in Seq(Int) /\ Len(AllocArray) \in Nat
      /\ allocLen \in Nat /\ allocLen <= Len(AllocArray) /\ pos \in Nat
  BY DEF SlicesInv, AllocArray
<1>2. s \in Seq(Int) /\ n \in Nat /\ Room(n) \in Nat /\ Room(n) >= n /\ Room(n) > 0
  BY RoomCovers, MemoryAssumption, SMTT(30)
<1>3. /\ size' = [o \in DOMAIN size \cup {pos} |-> IF o = pos THEN n ELSE size[o]]
      /\ arrays' = [arrays EXCEPT ![allocRef] = Copied(@, pos, s)]
      /\ pos' = pos + Room(n) /\ UNCHANGED <<allocRef, allocLen>>
      /\ blocks' = IF pos + n > allocLen THEN blocks
                   ELSE [o \in DOMAIN blocks \cup {pos} |-> IF o = pos THEN s ELSE blocks[o]]
  BY DEF SetBytes, Set
<1> HIDE DEF n
<1>4. AllocArray' = Copied(AllocArray, pos, s)
  BY <1>3 DEF SlicesInv, AllocArray
<1>5. pos' \in Nat /\ pos' > pos /\ pos + n <= pos'
  BY <1>1, <1>2, <1>3
<1>6. ASSUME NEW o \in DOMAIN blocks
      PROVE  /\ o # pos /\ o \in Nat /\ o < pos' /\ o + Len(blocks[o]) <= pos'
             /\ o + Len(blocks[o]) <= allocLen
             /\ o \in DOMAIN size' /\ size'[o] = Len(blocks[o])
             /\ \A i \in 1 .. Len(blocks[o]) : AllocArray'[o + i] = blocks[o][i]
             /\ blocks[o] \in Seq(Int)
  <2>1. /\ o \in Nat /\ o < pos /\ o + Len(blocks[o]) <= pos
        /\ o + Len(blocks[o]) <= allocLen
        /\ o \in DOMAIN size /\ size[o] = Len(blocks[o])
        /\ \A i \in 1 .. Len(blocks[o]) : AllocArray[o + i] = blocks[o][i]
        /\ blocks[o] \in Seq(Int)
    BY DEF BlockInv, BlocksHeld
  <2>2. Len(blocks[o]) \in Nat
    BY <2>1
  <2>3. o # pos
    BY <1>1, <2>1
  <2>4. o \in DOMAIN size' /\ size'[o] = Len(blocks[o])
    BY <1>3, <2>1, <2>3
  <2>5. ASSUME NEW i \in 1 .. Len(blocks[o])
        PROVE  AllocArray'[o + i] = blocks[o][i]
    <3>1. o + i \in 1 .. Len(AllocArray) /\ (o + i) - 1 < pos
      <4> DEFINE l == Len(AllocArray)
                 b == Len(blocks[o])
      <4>1. /\ l \in Nat /\ allocLen \in Nat /\ allocLen <= l /\ pos \in Nat
            /\ b \in Nat /\ o \in Nat /\ o + b <= pos /\ o + b <= allocLen
        BY <1>1, <2>1, <2>2
      <4>2. i \in 1 .. b
        BY <2>5
      <4> HIDE DEF l, b
      <4> QED
        BY <4>1, <4>2 DEF l
    <3>2. (o + i) - 1 \notin Cells(pos, Len(s))
      BY <1>1, <3>1 DEF Cells
    <3>3. pos \in Int
      BY <1>1
    <3>4. Copied(AllocArray, pos, s)[o + i] = AllocArray[o + i]
      BY <1>1, <1>2, <3>1, <3>2, <3>3, CopiedElsewhere
    <3> QED
      BY <1>4, <2>1, <3>4
  <2>6. o < pos' /\ o + Len(blocks[o]) <= pos'
    BY <1>1, <1>5, <2>1, <2>2
  <2> QED
    BY <2>1, <2>3, <2>4, <2>5, <2>6
<1>7. allocLen' <= MaxBytes
  BY <1>3 DEF BlockInv, BlocksHeld
<1>8. CASE pos + n > allocLen
  BY <1>3, <1>6, <1>7, <1>8 DEF BlockInv, BlocksHeld
<1>9. CASE ~(pos + n > allocLen)
  <2>1. DOMAIN blocks' = DOMAIN blocks \cup {pos} /\ blocks'[pos] = s
    BY <1>3, <1>9
  <2>2. \A o \in DOMAIN blocks : blocks'[o] = blocks[o]
    BY <1>3, <1>6, <1>9
  <2>3. pos + n <= allocLen
    BY <1>1, <1>2, <1>9
  <2>4. pos \in DOMAIN size' /\ size'[pos] = n
    BY <1>3
  <2>5. ASSUME NEW i \in 1 .. Len(s)
        PROVE  AllocArray'[pos + i] = s[i]
    <3>1. pos + i \in 1 .. Len(AllocArray) /\ (pos + i) - pos = i
      BY <1>1, <1>2, <2>3 DEF n
    <3>2. (pos + i) - 1 \in Cells(pos, Len(s))
      BY <1>1, <1>2 DEF Cells, n
    <3>3. pos \in Int /\ s \in Seq(Int) /\ AllocArray \in Seq(Int)
      BY <1>1, <1>2
    <3>4. Copied(AllocArray, pos, s)[pos + i] = s[(pos + i) - pos]
      BY <3>1, <3>2, <3>3, CopiedElsewhere
    <3> QED
      BY <1>4, <3>1, <3>4
  <2>6. BlocksHeld'
    <3> SUFFICES ASSUME NEW o \in DOMAIN blocks'
                 PROVE  /\ o \in Nat /\ o < pos' /\ o + Len(blocks'[o]) <= pos'
                        /\ o + Len(blocks'[o]) <= allocLen'
                        /\ o \in DOMAIN size' /\ size'[o] = Len(blocks'[o])
                        /\ \A i \in 1 .. Len(blocks'[o]) : AllocArray'[o + i] = blocks'[o][i]
      BY <1>7 DEF BlocksHeld
    <3>1. CASE o = pos
      BY <1>1, <1>3, <1>5, <2>1, <2>3, <2>4, <2>5, <3>1 DEF n
    <3>2. CASE o \in DOMAIN blocks
      BY <1>3, <1>6, <2>2, <3>2
    <3> QED
      BY <2>1, <3>1, <3>2
  <2>7. \A o \in DOMAIN blocks' : blocks'[o] \in Seq(Int)
    BY <1>2, <1>6, <2>1, <2>2
  <2> QED
    BY <2>6, <2>7 DEF BlockInv
<1> QED
  BY <1>8, <1>9

\* A longer slice holds what the shorter one did.
LEMMA ExtensionHolds ==
  ASSUME BlockInv, SlicesInv, NEW n \in Nat, Extended(n), allocLen' = allocLen + n,
         allocLen' <= MaxBytes, UNCHANGED <<pos, size, blocks>>
  PROVE  BlockInv'
<1>1. /\ AllocArray \in Seq(Int) /\ Len(AllocArray) \in Nat
      /\ allocLen \in Nat /\ allocLen <= Len(AllocArray) /\ pos \in Nat
  BY DEF SlicesInv, AllocArray
<1>2. ASSUME NEW j \in 1 .. allocLen
      PROVE  AllocArray'[j] = AllocArray[j]
  <2>1. CASE allocLen + n <= Len(AllocArray)
    <3>1. AllocArray' = Copied(AllocArray, allocLen, Zeros(n))
      BY <2>1 DEF Extended, SlicesInv, AllocArray
    <3>2. j \in 1 .. Len(AllocArray) /\ j - 1 \notin Cells(allocLen, Len(Zeros(n)))
      BY <1>1 DEF Cells
    <3>3. Zeros(n) \in Seq(Int)
      BY ZerosType
    <3> QED
      BY <1>1, <3>1, <3>2, <3>3, CopiedElsewhere
  <2>2. CASE ~(allocLen + n <= Len(AllocArray))
    <3>1. PICK slack \in Nat : AllocArray' = Reallocated(n, slack)
      <4>1. PICK slack \in Slacks :
              arrays' = [arrays EXCEPT !["resized"] = Reallocated(n, slack)]
        BY <2>2 DEF Extended
      <4>2. slack \in Nat /\ allocRef' = "resized"
        BY <2>2, MemoryAssumption DEF Extended
      <4> QED
        BY <4>1, <4>2 DEF SlicesInv, AllocArray
    <3>2. Zeros(n + slack) \in Seq(Int)
      BY ZerosType
    <3>3. /\ SubSeq(AllocArray, 1, allocLen) \in Seq(Int)
          /\ Len(SubSeq(AllocArray, 1, allocLen)) = allocLen
          /\ SubSeq(AllocArray, 1, allocLen)[j] = AllocArray[j]
      BY <1>1
    <3> QED
      BY <3>1, <3>2, <3>3 DEF Reallocated
  <2> QED
    BY <2>1, <2>2
<1>3. \A o \in DOMAIN blocks : /\ o \in DOMAIN size
                               /\ \A i \in 1 .. Len(blocks[o]) : o + i \in 1 .. allocLen
  <2> TAKE o \in DOMAIN blocks
  <2>1. o \in Nat /\ o + Len(blocks[o]) <= allocLen /\ Len(blocks[o]) \in Nat /\ o \in DOMAIN size
    BY DEF BlockInv, BlocksHeld
  <2> QED
    BY <1>1, <2>1, SMTT(30)
<1>4. allocLen' \in Nat /\ allocLen' >= allocLen
  BY <1>1
<1> QED
  BY <1>1, <1>2, <1>3, <1>4, BlocksStay

\* One step: every action that writes to the allocator's array takes what it writes
\* over from the record, and the record gains a block only at Pos.
LEMMA BlockStep ==
  ASSUME BlockInv, SlicesInv, [Next]_vars
  PROVE  BlockInv'
<1> USE MemoryAssumption
<1>0. pos \in Nat /\ allocLen \in Nat
  BY DEF SlicesInv, AllocArray
<1>1. CASE UNCHANGED vars
  BY <1>1, NothingWritten DEF vars, AllocArray
<1>2. ASSUME NEW n \in Widths, NEW signed \in BOOLEAN, NEW imm \in Addresses,
             NEW base \in Addresses, Load(n, signed, imm, base)
      PROVE  BlockInv'
  BY <1>2, NothingWritten DEF Load, AllocArray
<1>3. ASSUME NEW n \in Widths, NEW imm \in Addresses, NEW base \in Addresses,
             NEW v \in Operands, Store(n, imm, base, v)
      PROVE  BlockInv'
  <2> DEFINE addr == GoInt(Address(imm, base))
             s == SubSeq(v, 1, n)
  <2>1. CASE UNCHANGED <<arrays, blocks>>
    BY <1>3, <2>1, NothingWritten DEF Store, AllocArray
  <2>2. CASE ~ UNCHANGED <<arrays, blocks>>
    <3>1. /\ arrays' = [arrays EXCEPT ![vmRef] = Copied(@, addr, s)]
          /\ blocks' = IF vmRef = allocRef THEN Surviving(Cells(addr, n)) ELSE blocks
          /\ UNCHANGED <<allocRef, allocLen, pos, size>>
      BY <1>3, <2>2 DEF Store
    <3>2. s \in Seq(Int) /\ Len(s) = n
      <4>1. v \in Seq(Int) /\ n \in Nat /\ n <= Len(v)
        OBVIOUS
      <4> QED
        BY <4>1
    <3>3. addr \in Int
      <4>1. Address(imm, base) \in Int
        BY AddressType
      <4> QED
        BY <4>1, GoIntType
    <3>4. blocks' = IF vmRef = allocRef THEN Surviving(Cells(addr, Len(s))) ELSE blocks
      BY <3>1, <3>2
    <3> HIDE DEF addr, s
    <3> QED
      BY <3>1, <3>2, <3>3, <3>4, VMWrites
  <2> QED
    BY <2>1, <2>2
<1>4. CASE CurrentMemory
  BY <1>4, NothingWritten DEF CurrentMemory, AllocArray
<1>5. ASSUME NEW n \in Growths, GrowMemory(n)
      PROVE  BlockInv'
  <2>1. AllocArray' = AllocArray
    BY <1>5 DEF GrowMemory, Grown, AllocArray, SlicesInv
  <2> QED
    BY <1>5, <2>1, NothingWritten DEF GrowMemory
<1>6. ASSUME NEW s \in Contents, NEW off \in Addresses, ProcessWriteAt(s, off)
      PROVE  BlockInv'
  <2> DEFINE n == IF Len(Memory) < Len(s) + off THEN Len(Memory) - off ELSE Len(s)
             part == SubSeq(s, 1, n)
  <2>1. CASE UNCHANGED <<arrays, blocks>>
    BY <1>6, <2>1, NothingWritten DEF ProcessWriteAt, AllocArray
  <2>2. CASE ~ UNCHANGED <<arrays, blocks>>
    <3>1. /\ arrays' = [arrays EXCEPT ![vmRef] = Copied(@, off, part)]
          /\ blocks' = IF vmRef = allocRef THEN Surviving(Cells(off, n)) ELSE blocks
          /\ UNCHANGED <<allocRef, allocLen, pos, size>>
          /\ ~(n < 0)
      BY <1>6, <2>2 DEF ProcessWriteAt
    <3>2. part \in Seq(Int) /\ Len(part) = n /\ off \in Int
      <4>1. Memory \in Seq(Int) /\ Len(Memory) \in Nat /\ s \in Seq(Int) /\ Len(s) \in Nat /\ off \in Nat
        BY DEF SlicesInv, Memory
      <4>2. n \in 0 .. Len(s)
        BY <3>1, <4>1
      <4> HIDE DEF n
      <4> QED
        BY <4>1, <4>2
    <3>4. blocks' = IF vmRef = allocRef THEN Surviving(Cells(off, Len(part))) ELSE blocks
      BY <3>1, <3>2
    <3> HIDE DEF n, part
    <3> QED
      BY <3>1, <3>2, <3>4, VMWrites
  <2> QED
    BY <2>1, <2>2
<1>7. ASSUME NEW s \in Contents, NEW off \in Addresses, WriteAt(s, off)
      PROVE  BlockInv'
  <2>1. CASE Panics(off, Len(s))
    BY <1>7, <2>1, NothingWritten DEF WriteAt, AllocArray
  <2>2. CASE ~Panics(off, Len(s))
    <3> DEFINE cells == Cells(off, Len(s)) \cup {off}
    <3>1. /\ arrays' = [arrays EXCEPT ![allocRef] = Copied(@, off, s)]
          /\ size' = [o \in DOMAIN size \cup {off} |-> IF o = off THEN Len(s) ELSE size[o]]
          /\ pos' = pos + Room(Len(s))
          /\ blocks' = Surviving(cells)
          /\ UNCHANGED <<allocRef, allocLen>>
      BY <1>7, <2>2 DEF WriteAt, Set
    <3>2. s \in Seq(Int) /\ Len(s) \in Nat /\ off \in Int
      OBVIOUS
    <3>3. pos' \in Nat /\ pos' >= pos
      <4>1. Room(Len(s)) \in Nat
        BY <3>2, RoomCovers
      <4> QED
        BY <1>0, <3>1, <4>1
    <3>4. \A o \in DOMAIN blocks' : o \in DOMAIN size' /\ size'[o] = size[o]
      <4> SUFFICES ASSUME NEW o \in DOMAIN blocks'
                   PROVE  o \in DOMAIN size' /\ size'[o] = size[o]
        OBVIOUS
      <4>1. o \in DOMAIN blocks /\ o # off
        BY <3>1 DEF Surviving
      <4>2. o \in DOMAIN size
        BY <4>1 DEF BlockInv, BlocksHeld
      <4> QED
        BY <3>1, <4>1, <4>2
    <3>5. Cells(off, Len(s)) \subseteq cells
      OBVIOUS
    <3> HIDE DEF cells
    <3> QED
      BY <3>1, <3>2, <3>3, <3>4, <3>5, WriteSpares
  <2> QED
    BY <2>1, <2>2
<1>8. ASSUME NEW s \in Contents, SetBytes(s)
      PROVE  BlockInv'
  <2>1. CASE Panics(pos, Len(s))
    BY <1>8, <2>1, NothingWritten DEF SetBytes, AllocArray
  <2> QED
    BY <1>8, <2>1, BlockAdded
<1>9. ASSUME NEW n \in Resizes, Resize(n)
      PROVE  BlockInv'
  <2>1. CASE pos < n
    <3>1. n - pos \in Nat /\ n \in Nat
      BY <1>0, <2>1
    <3>2. /\ Extended(n - pos) /\ allocLen' = allocLen + n - pos
          /\ UNCHANGED <<pos, size, blocks>> /\ allocLen + n - pos <= MaxBytes
      BY <1>9, <2>1 DEF Resize
    <3>3. allocLen' = allocLen + (n - pos) /\ allocLen' <= MaxBytes
      BY <1>0, <3>1, <3>2
    <3> QED
      BY <3>1, <3>2, <3>3, ExtensionHolds
  <2>2. CASE ~(pos < n)
    BY <1>9, <2>2, NothingWritten DEF Resize, AllocArray
  <2> QED
    BY <2>1, <2>2
<1>10. ASSUME NEW n \in Growths, AddHeapPointer(n)
       PROVE  BlockInv'
  BY <1>10, NothingWritten DEF AddHeapPointer, AllocArray
<1> QED
  BY <1>1, <1>2, <1>3, <1>4, <1>5, <1>6, <1>7, <1>8, <1>9, <1>10
  DEF Next, Instruction, HostFunction

\* An offset below 2 GiB is a pointer to itself.
LEMMA SmallPointer ==
  ASSUME NEW o \in Nat, o < AddrSpace \div 2
  PROVE  Pointer(o) = o
<1>1. AddrSpace \in Nat \ {0} /\ AddrSpace \div 2 \in Nat /\ AddrSpace \div 2 <= AddrSpace
  BY MemoryAssumption
<1>2. o % AddrSpace = o
  BY <1>1
<1> QED
  BY <1>1, <1>2 DEF Pointer, Int32

\* A piece of a sequence that has the elements of another is the other.
LEMMA PieceIs ==
  ASSUME NEW mem \in Seq(Int), NEW s \in Seq(Int), NEW o \in Nat, o + Len(s) <= Len(mem),
         \A i \in 1 .. Len(s) : mem[o + i] = s[i]
  PROVE  SubSeq(mem, o + 1, o + Len(s)) = s
<1> DEFINE n == Len(s)
           t == SubSeq(mem, o + 1, o + n)
<1>1. n \in Nat /\ Len(mem) \in Nat
  OBVIOUS
<1>2. \A i \in (o + 1) .. (o + n) : i \in 1 .. Len(mem) /\ mem[i] \in Int
  BY <1>1
<1>3. t = [i \in 1 .. n |-> mem[o + i]]
  <2>1. (o + n) - (o + 1) + 1 = n
    BY <1>1
  <2>2. \A i \in 1 .. n : i + (o + 1) - 1 = o + i
    OBVIOUS
  <2> HIDE DEF n
  <2> QED
    BY <1>1, <2>1, <2>2
<1>4. s = [i \in 1 .. n |-> s[i]]
  OBVIOUS
<1> HIDE DEF t, n
<1> QED
  BY <1>3, <1>4 DEF n, t

\* What is held is what GetPtr returns, the empty block included.
LEMMA HeldIsRead == BlockInv /\ SlicesInv => ReadBack
<1> SUFFICES ASSUME BlockInv, SlicesInv, NEW o \in DOMAIN blocks
             PROVE  GetPtr(o) = blocks[o]
  BY DEF ReadBack
<1>1. /\ o \in Nat /\ o + Len(blocks[o]) <= allocLen /\ allocLen <= MaxBytes
      /\ o \in DOMAIN size /\ size[o] = Len(blocks[o])
      /\ \A i \in 1 .. Len(blocks[o]) : AllocArray[o + i] = blocks[o][i]
      /\ blocks[o] \in Seq(Int)
  BY DEF BlockInv, BlocksHeld
<1>2. /\ AllocArray \in Seq(Int) /\ Len(AllocArray) \in Nat
      /\ allocLen \in Nat /\ allocLen <= Len(AllocArray) /\ Len(blocks[o]) \in Nat
  BY <1>1 DEF SlicesInv, AllocArray
<1>3. o < AddrSpace \div 2
  BY <1>1, <1>2, SizeAssumption, MemoryAssumption
<1>4. Pointer(o) = o
  BY <1>1, <1>3, SmallPointer
<1>5. CASE allocLen > o
  <2>1. GetPtr(o) = SubSeq(AllocArray, o + 1, o + Len(blocks[o]))
    BY <1>1, <1>4, <1>5 DEF GetPtr, Bytes
  <2> QED
    <3>1. SubSeq(AllocArray, o + 1, o + Len(blocks[o])) = blocks[o]
      <4>1. o + Len(blocks[o]) <= Len(AllocArray)
        BY <1>1, <1>2
      <4> QED
        BY <1>1, <1>2, <4>1, PieceIs, Zenon
    <3> QED
      BY <2>1, <3>1
<1>6. CASE ~(allocLen > o)
  <2>1. GetPtr(o) = <<>>
    BY <1>4, <1>6 DEF GetPtr
  <2>2. Len(blocks[o]) = 0
    BY <1>1, <1>2, <1>6
  <2> QED
    BY <1>1, <2>1, <2>2
<1> QED
  BY <1>5, <1>6

\* What SetBytes stored within the length is what GetPtr returns for its offset, until
\* somebody writes over it, for every sequence of operations of a contract below 2 GiB:
\* also when the VM writes to the shared array, when the VM has moved to an array of its
\* own, and when Resize moves the allocator (sea/memory.go:60-138, memory.go:208-214).
THEOREM BlocksReadBack == Spec => []ReadBack
<1>1. Init => BlockInv /\ SlicesInv
  <2> SUFFICES ASSUME Init PROVE BlockInv
    BY InitSlicesInv
  <2>1. PICK p \in InitialPages \cup {1} :
          arrays = [r \in {"first", "grown", "resized"} |->
            IF r = "first" THEN Zeros(p * PageSize) ELSE <<>>]
    BY DEF Init
  <2>2. p \in Nat /\ p * PageSize \in Nat /\ p * PageSize <= MaxBytes
    BY MemoryAssumption, SizeAssumption
  <2>3. allocLen = p * PageSize
    BY <2>1, <2>2, ZerosType DEF Init
  <2>4. DOMAIN blocks = {}
    BY DEF Init
  <2> QED
    BY <2>2, <2>3, <2>4 DEF BlockInv, BlocksHeld
<1>2. (BlockInv /\ SlicesInv) /\ [Next]_vars => (BlockInv /\ SlicesInv)'
  BY BlockStep, SlicesStep
<1>3. BlockInv /\ SlicesInv => ReadBack
  BY HeldIsRead
<1> QED
  BY <1>1, <1>2, <1>3, PTL DEF Spec

-----------------------------------------------------------------------------
\* A set of natural numbers that is not empty has a least one: the intervals up to
\* its elements are finite sets, ordered as the elements are.
LEMMA LeastNat ==
  ASSUME NEW S \in SUBSET Nat, S # {}
  PROVE  \E x \in S : \A y \in S : x <= y
<1> DEFINE R == StrictSubsetOrdering(Nat)
           Below == {0 .. x : x \in S}
<1>1. IsWellFoundedOn(R, FiniteSubsetsOf(Nat))
  BY FS_StrictSubsetOrderingWellFounded
<1>2. Below \subseteq FiniteSubsetsOf(Nat)
  <2>1. \A x \in S : 0 .. x \subseteq Nat /\ IsFiniteSet(0 .. x)
    BY FS_Interval
  <2> QED
    BY <2>1 DEF FiniteSubsetsOf
<1>3. Below # {}
  OBVIOUS
<1> HIDE DEF R
<1>4. PICK b \in Below : \A c \in Below : ~ (<<c, b>> \in R)
  BY <1>1, <1>2, <1>3, WFMin, Zenon
<1>5. PICK x \in S : b = 0 .. x
  OBVIOUS
<1>6. \A y \in S : y < x => <<0 .. y, b>> \in R
  <2> TAKE y \in S
  <2> HAVE y < x
  <2>1. 0 .. y \in SUBSET Nat /\ b \in SUBSET Nat
    BY <1>5
  <2>2. 0 .. y \subseteq b /\ x \in b /\ x \notin 0 .. y
    BY <1>5
  <2> QED
    BY <2>1, <2>2 DEF R, StrictSubsetOrdering
<1>7. \A y \in S : x <= y
  <2> TAKE y \in S
  <2>1. 0 .. y \in Below
    OBVIOUS
  <2>2. ~ (y < x)
    BY <1>4, <1>6, <2>1
  <2> QED
    BY <2>2
<1> QED
  BY <1>7

\* Sums that are computed by a loop.
Sums(f, a, c, d, len) ==
  f = [k \in 0 .. len |-> IF k = 0 THEN c ELSE a * f[k - 1] + d[k]]

LEMMA SumsExists ==
  ASSUME NEW a, NEW c, NEW d, NEW len \in Nat
  PROVE  \E f : Sums(f, a, c, d, len)
<1> DEFINE S == {n \in Nat : ~ \E f : Sums(f, a, c, d, n)}
           Next1(before, n) == a * before + d[n]
<1>1. SUFFICES ASSUME S # {} PROVE FALSE
  OBVIOUS
<1>2. PICK n \in S : \A k \in S : n <= k
  BY <1>1, LeastNat
<1>3. n # 0
  <2> DEFINE f == [i \in 0 .. 0 |-> c]
  <2>1. Sums(f, a, c, d, 0)
    BY DEF Sums
  <2> HIDE DEF f
  <2> QED
    BY <2>1
<1>4. n - 1 \in Nat /\ n - 1 \notin S
  BY <1>2, <1>3
<1>5. PICK f : Sums(f, a, c, d, n - 1)
  BY <1>4
<1> DEFINE g == [i \in 0 .. n |-> IF i < n THEN f[i] ELSE Next1(f[n - 1], n)]
<1> HIDE DEF Next1
<1>6. \A i \in 0 .. n : g[i] = IF i = 0 THEN c ELSE Next1(g[i - 1], i)
  <2> TAKE i \in 0 .. n
  <2>1. CASE i = n
    <3>1. g[i - 1] = f[n - 1] /\ i # 0
      BY <1>3, <1>4, <2>1
    <3> QED
      BY <2>1, <3>1
  <2>2. CASE i < n
    <3>1. i \in 0 .. n - 1 /\ (i # 0 => i - 1 \in 0 .. n /\ i - 1 < n)
      BY <2>2
    <3>2. g[i] = f[i] /\ (i # 0 => g[i - 1] = f[i - 1])
      BY <2>2, <3>1
    <3>3. f[i] = IF i = 0 THEN c ELSE Next1(f[i - 1], i)
      BY <1>5, <3>1 DEF Sums, Next1
    <3> QED
      BY <3>2, <3>3
  <2> QED
    BY <2>1, <2>2
<1>7. Sums(g, a, c, d, n)
  <2>1. g = [i \in 0 .. n |-> g[i]]
    OBVIOUS
  <2> HIDE DEF g
  <2> QED
    BY <1>6, <2>1 DEF Sums, Next1
<1> HIDE DEF g
<1> QED
  BY <1>7

\* What holds of 0 and passes on from k - 1 to k holds up to any number.
LEMMA Upwards ==
  ASSUME NEW len \in Nat, NEW Good \in SUBSET Nat, 0 \in Good,
         \A k \in 1 .. len : k - 1 \in Good => k \in Good
  PROVE  0 .. len \subseteq Good
<1> DEFINE Bad == {k \in 0 .. len : k \notin Good}
<1>1. SUFFICES ASSUME Bad # {} PROVE FALSE
  OBVIOUS
<1>2. Bad \in SUBSET Nat
  OBVIOUS
<1> HIDE DEF Bad
<1>3. PICK k \in Bad : \A l \in Bad : k <= l
  BY <1>1, <1>2, LeastNat
<1> USE DEF Bad
<1>4. k \in 1 .. len
  BY <1>3
<1>5. k - 1 \in 0 .. len /\ k - 1 \notin Bad
  BY <1>3, <1>4
<1> QED
  BY <1>3, <1>4, <1>5

\* The loop of NumberBelow: every byte from the highest on is added to Byte times what
\* stands above it.
LEMMA NumberIs ==
  ASSUME NEW s, Len(s) \in Nat, NEW c
  PROVE  \E f : /\ NumberBelow(c, s) = f[Len(s)] /\ f[0] = c
                /\ \A k \in 1 .. Len(s) : f[k] = Byte * f[k - 1] + s[Len(s) - k + 1]
<1>1. PICK n \in Nat : n = Len(s)
  OBVIOUS
<1> DEFINE Is(f) == f = [i \in 0 .. n |->
                           IF i = 0 THEN c ELSE Byte * f[i - 1] + s[n - i + 1]]
           g == CHOOSE f : Is(f)
           d == [k \in 1 .. n |-> s[n - k + 1]]
<1>2. NumberBelow(c, s) = g[n]
  BY <1>1 DEF NumberBelow
<1>3. PICK h : Sums(h, Byte, c, d, n)
  BY SumsExists
<1>4. Is(h)
  <2>1. h = [i \in 0 .. n |-> h[i]]
    BY <1>3 DEF Sums
  <2>2. ASSUME NEW i \in 0 .. n
        PROVE  h[i] = IF i = 0 THEN c ELSE Byte * h[i - 1] + s[n - i + 1]
    <3>1. h[i] = IF i = 0 THEN c ELSE Byte * h[i - 1] + d[i]
      BY <1>3 DEF Sums
    <3>2. i # 0 => d[i] = s[n - i + 1]
      OBVIOUS
    <3> QED
      BY <3>1, <3>2
  <2> QED
    BY <2>1, <2>2
<1>5. Is(g)
  BY <1>4
<1> HIDE DEF g
<1>6. g[0] = c /\ \A k \in 1 .. n : g[k] = Byte * g[k - 1] + s[n - k + 1]
  BY <1>5
<1> QED
  BY <1>1, <1>2, <1>6

\* Bytes that repeat what is above them do not change the number.
LEMMA PaddingKeeps ==
  ASSUME NEW s, NEW v, NEW p \in Nat, NEW n \in Nat, n = Len(s), Len(v) = n + p,
         NEW c \in Int, NEW pad \in Int, Byte * c + pad = c,
         \A i \in 1 .. n : v[i] = s[i],
         \A i \in n + 1 .. n + p : v[i] = pad
  PROVE  NumberBelow(c, v) = NumberBelow(c, s)
<1>1. PICK f : /\ NumberBelow(c, s) = f[n] /\ f[0] = c
               /\ \A k \in 1 .. n : f[k] = Byte * f[k - 1] + s[n - k + 1]
  <2>1. Len(s) \in Nat
    OBVIOUS
  <2>2. PICK f : /\ NumberBelow(c, s) = f[Len(s)] /\ f[0] = c
                 /\ \A k \in 1 .. Len(s) : f[k] = Byte * f[k - 1] + s[Len(s) - k + 1]
    BY <2>1, NumberIs, Zenon
  <2> QED
    BY <2>2
<1>3. PICK g : /\ NumberBelow(c, v) = g[n + p] /\ g[0] = c
               /\ \A k \in 1 .. n + p : g[k] = Byte * g[k - 1] + v[n + p - k + 1]
  <2>1. Len(v) \in Nat
    OBVIOUS
  <2>2. PICK g : /\ NumberBelow(c, v) = g[Len(v)] /\ g[0] = c
                 /\ \A k \in 1 .. Len(v) : g[k] = Byte * g[k - 1] + v[Len(v) - k + 1]
    BY <2>1, NumberIs, Zenon
  <2> QED
    BY <2>2
<1>4. g[p] = c
  <2> DEFINE Good == {k \in Nat : g[k] = c}
  <2>1. 0 \in Good /\ Good \in SUBSET Nat
    BY <1>3
  <2>2. ASSUME NEW k \in 1 .. p, k - 1 \in Good PROVE k \in Good
    <3>1. k \in 1 .. n + p /\ n + p - k + 1 \in n + 1 .. n + p
      OBVIOUS
    <3>2. g[k] = Byte * g[k - 1] + v[n + p - k + 1]
      BY <1>3, <3>1
    <3>3. g[k - 1] = c /\ v[n + p - k + 1] = pad
      BY <2>2, <3>1
    <3> QED
      BY <3>2, <3>3
  <2> HIDE DEF Good
  <2>3. p \in Good
    <3>1. 0 .. p \subseteq Good
      BY <2>1, <2>2, Upwards
    <3> QED
      BY <3>1
  <2> QED
    BY <2>3 DEF Good
<1>5. g[p + n] = f[n]
  <2> DEFINE Good == {k \in Nat : g[p + k] = f[k]}
  <2>1. 0 \in Good /\ Good \in SUBSET Nat
    BY <1>1, <1>4
  <2>2. ASSUME NEW k \in 1 .. n, k - 1 \in Good PROVE k \in Good
    <3>1. /\ p + k \in 1 .. n + p /\ n + p - (p + k) + 1 = n - k + 1 /\ (p + k) - 1 = p + (k - 1)
          /\ n - k + 1 \in 1 .. n /\ k - 1 \in Nat
      OBVIOUS
    <3>2. g[p + k] = Byte * g[p + (k - 1)] + v[n - k + 1]
      BY <1>3, <3>1
    <3>3. g[p + (k - 1)] = f[k - 1] /\ v[n - k + 1] = s[n - k + 1]
      BY <2>2, <3>1
    <3>4. f[k] = Byte * f[k - 1] + s[n - k + 1]
      BY <1>1
    <3> QED
      BY <3>2, <3>3, <3>4
  <2> HIDE DEF Good
  <2>3. n \in Good
    <3>1. 0 .. n \subseteq Good
      BY <2>1, <2>2, Upwards
    <3> QED
      BY <3>1
  <2> QED
    BY <2>3 DEF Good
<1>6. p + n = n + p
  OBVIOUS
<1> QED
  BY <1>1, <1>3, <1>5, <1>6

\* An operand has the bytes of the load and, above them, what does not change the number.
LEMMA ExtendIs ==
  ASSUME NEW s \in Seq(Int), Len(s) > 0, NEW signed \in BOOLEAN
  PROVE  LET v == Extend(s, signed) IN
         IF signed THEN SignedNumber(v) = SignedNumber(s) ELSE Number(v) = Number(s)
<1>1. PICK n \in Nat, half \in Int : n = Len(s) /\ half = Byte \div 2 /\ n > 0
  BY MemoryAssumption
<1>2. Byte \in Nat /\ half > 0 /\ Byte - 1 >= half
  BY <1>1, MemoryAssumption
<1>3. PICK p \in Nat : p = IF Wide > n THEN Wide - n ELSE 0
  <2>1. Wide \in Nat
    BY MemoryAssumption
  <2>2. (IF Wide > n THEN Wide - n ELSE 0) \in Nat
    BY <2>1
  <2> QED
    BY <2>2
<1>4. PICK pad \in Int : pad = IF signed /\ s[n] >= half THEN Byte - 1 ELSE 0
  BY <1>2
<1>5. PICK v : v = Extend(s, signed)
  OBVIOUS
<1>6. /\ Len(v) = n + p /\ \A i \in 1 .. n : v[i] = s[i]
      /\ \A i \in n + 1 .. n + p : v[i] = pad
  <2> DEFINE above == [i \in 1 .. (Wide - n) |-> pad]
  <2>1. v = s \o above
    BY <1>1, <1>4, <1>5 DEF Extend
  <2>2. above \in Seq(Int) /\ Len(above) = p /\ \A i \in 1 .. p : above[i] = pad
    <3>1. 1 .. (Wide - n) = 1 .. p
      BY <1>3, MemoryAssumption
    <3>2. above = [i \in 1 .. p |-> pad]
      BY <3>1
    <3> HIDE DEF above
    <3> QED
      BY <3>2
  <2> HIDE DEF above
  <2>3. /\ Len(s \o above) = Len(s) + Len(above)
        /\ \A i \in 1 .. Len(s) + Len(above) :
             (s \o above)[i] = IF i <= Len(s) THEN s[i] ELSE above[i - Len(s)]
    BY <2>2
  <2>4. ASSUME NEW i \in n + 1 .. n + p PROVE v[i] = pad
    <3>1. i \in 1 .. n + p /\ ~(i <= n) /\ i - n \in 1 .. p
      OBVIOUS
    <3> QED
      BY <1>1, <2>1, <2>2, <2>3, <3>1
  <2>5. ASSUME NEW i \in 1 .. n PROVE v[i] = s[i]
    <3>1. i \in 1 .. n + p /\ i <= n
      OBVIOUS
    <3> QED
      BY <1>1, <2>1, <2>2, <2>3, <3>1
  <2> QED
    BY <1>1, <2>1, <2>2, <2>3, <2>4, <2>5
<1>7. ASSUME NEW c \in Int, Byte * c + pad = c PROVE NumberBelow(c, v) = NumberBelow(c, s)
  BY <1>1, <1>6, <1>7, PaddingKeeps, SMTT(30)
<1>8. CASE ~signed
  <2>1. Byte * 0 + pad = 0
    BY <1>2, <1>4, <1>8
  <2> QED
    BY <1>5, <1>7, <1>8, <2>1 DEF Number
<1>9. CASE signed
  <2>1. PICK c \in Int : c = IF s[n] < half THEN 0 ELSE -1
    OBVIOUS
  <2>2. s[n] \in Int
    BY <1>1
  <2>3. Byte * c + pad = c
    <3>1. CASE s[n] < half
      BY <1>2, <1>4, <2>1, <2>2, <3>1
    <3>2. CASE s[n] >= half
      <4>1. c = -1 /\ pad = Byte - 1
        BY <1>4, <1>9, <2>1, <2>2, <3>2
      <4>2. Byte * (-1) + (Byte - 1) = -1
        BY <1>2
      <4> QED
        BY <4>1, <4>2
    <3> QED
      BY <2>2, <3>1, <3>2
  <2>4. c = IF v[n + p] < half THEN 0 ELSE -1
    <3>1. CASE p = 0
      <4>1. n + p = n /\ n \in 1 .. n
        BY <1>1, <3>1
      <4> QED
        BY <1>6, <2>1, <4>1
    <3>2. CASE p > 0
      <4>1. n + p \in n + 1 .. n + p
        BY <3>2
      <4>2. v[n + p] = pad
        BY <1>6, <4>1
      <4>3. pad < half <=> s[n] < half
        BY <1>2, <1>4, <1>9, <2>2
      <4> QED
        BY <2>1, <4>2, <4>3
    <3> QED
      BY <3>1, <3>2
  <2>5. NumberBelow(c, v) = NumberBelow(c, s)
    BY <1>7, <2>3
  <2>6. SignedNumber(v) = NumberBelow(c, v)
    BY <1>1, <1>6, <2>4 DEF SignedNumber
  <2>7. SignedNumber(s) = NumberBelow(c, s)
    BY <1>1, <2>1 DEF SignedNumber
  <2> QED
    BY <1>5, <1>9, <2>5, <2>6, <2>7
<1> QED
  BY <1>8, <1>9

LEMMA LoadStep ==
  ASSUME SlicesInv, LoadsNumber, [Next]_vars
  PROVE  LoadsNumber'
<1>1. ASSUME last'.op # "load" PROVE LoadsNumber'
  BY <1>1 DEF LoadsNumber
<1>2. CASE UNCHANGED vars
  <2>1. last' = last
    BY <1>2 DEF vars
  <2> QED
    BY <2>1 DEF LoadsNumber
<1>3. ASSUME NEW n \in Widths, NEW signed \in BOOLEAN, NEW imm \in Addresses,
             NEW base \in Addresses, Load(n, signed, imm, base)
      PROVE  LoadsNumber'
  <2>1. PICK addr \in Nat : addr = Address(imm, base)
    BY AddressType
  <2>0. PICK at \in Int : at = GoInt(addr)
    BY GoIntType
  <2>2. CASE InBounds(addr, n) /\ Sliced(Memory, at, n)
    <3>1. PICK s : s = Bytes(Memory, at, n)
      OBVIOUS
    <3>2. s \in Seq(Int) /\ Len(s) = n /\ n > 0
      <4>1. Memory \in Seq(Int)
        BY DEF SlicesInv, Memory
      <4>2. n \in Nat /\ n > 0 /\ at >= 0 /\ at + n <= Len(Memory)
        BY <2>2, MemoryAssumption DEF Sliced
      <4> QED
        BY <3>1, <4>1, <4>2 DEF Bytes
    <3>3. last' = [op |-> "load", res |-> "ok", inside |-> addr + n <= Len(Memory),
                   fits |-> addr + n <= intSpace \div 2, signed |-> signed, bytes |-> s,
                   value |-> Extend(s, signed)]
      BY <1>3, <2>0, <2>1, <2>2, <3>1 DEF Load
    <3>4. PICK v : v = Extend(s, signed)
      OBVIOUS
    <3>5. IF signed THEN SignedNumber(v) = SignedNumber(s) ELSE Number(v) = Number(s)
      BY <3>2, <3>4, ExtendIs
    <3>6. last'.signed = signed /\ last'.bytes = s /\ last'.value = v
      BY <3>3, <3>4
    <3> QED
      BY <3>5, <3>6 DEF LoadsNumber
  <2>3. CASE ~(InBounds(addr, n) /\ Sliced(Memory, at, n))
    <3>1. last'.res # "ok"
      BY <1>3, <2>0, <2>1, <2>3 DEF Load, Access
    <3> QED
      BY <3>1 DEF LoadsNumber
  <2> QED
    BY <2>2, <2>3
<1>4. CASE \/ \E n \in Widths, imm, base \in Addresses, v \in Operands :
                Store(n, imm, base, v)
           \/ CurrentMemory
           \/ \E n \in Growths : GrowMemory(n)
           \/ HostFunction
  BY <1>1, <1>4, Operations
<1> QED
  BY <1>2, <1>3, <1>4 DEF Next, Instruction

\* An operand that is loaded is the number in the memory, read as signed or unsigned, for
\* any width of the access, of the operand and of a byte (memory.go:27-143).
THEOREM NumbersLoaded == Spec => []LoadsNumber
<1>1. Init => LoadsNumber /\ SlicesInv
  <2> SUFFICES ASSUME Init PROVE LoadsNumber
    BY InitSlicesInv
  <2>1. last.op = "none"
    BY DEF Init
  <2> QED
    BY <2>1 DEF LoadsNumber
<1>2. (LoadsNumber /\ SlicesInv) /\ [Next]_vars => (LoadsNumber /\ SlicesInv)'
  BY LoadStep, SlicesStep
<1> QED
  BY <1>1, <1>2, PTL DEF Spec
==============================================================================
