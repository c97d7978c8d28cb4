----------------------------- MODULE WagonMemory -----------------------------
(***************************************************************************)
(* The linear memory of a contract (src/wagon/exec/memory.go) and the      *)
(* allocator its host functions use (src/wagon/sea/memory.go).             *)
(*                                                                         *)
(* Both are Go slices.  NewInterpreter gives the allocator the slice of    *)
(* the VM, so at first they share one array; whoever grows its slice moves *)
(* to a new array and leaves the other where it was.  The operands of an   *)
(* instruction are any values; a byte has Byte values and an address wraps *)
(* around at AddrSpace.  Addresses are converted to int, which has as many *)
(* values as the machine gives it.                                         *)
(***************************************************************************)
EXTENDS Integers, Sequences, SequencesExt

CONSTANTS
  Byte,          \* values of a byte (2^8)
  AddrSpace,     \* values of an i32 (2^32)
  IntSpaces,     \* values of an int (2^32 or 2^64)
  PageSize,      \* wasmPageSize (65536)
  InitialPages,  \* sizes of the memory section of a module, in pages
  HeapStarts,    \* values of an exported heap_pointer, NoHeap without one
  NoHeap,
  Widths,        \* bytes that a load or store accesses (1, 2, 4 and 8)
  Wide,          \* bytes of an operand (8)
  Operands,      \* operands that are stored: Wide bytes, the lowest first
  Addresses,     \* i32 addresses, immediates and pointers of host functions
  Contents,      \* byte strings that host functions write
  Growths,       \* operands of grow_memory and arguments of AddHeapPointer
  Resizes,       \* arguments of Resize
  Slacks,        \* capacities beyond the length that append may allocate
  MaxBytes,      \* bound: length of a memory
  MaxOps         \* bound: operations

ASSUME MemoryAssumption ==
  /\ Byte \in Nat \ {0, 1} /\ Wide \in Nat /\ PageSize \in Nat \ {0} /\ AddrSpace \in Nat \ {0}
  /\ \E pages \in 1 .. AddrSpace : AddrSpace = pages * PageSize
  /\ \A s \in IntSpaces : s \in Nat /\ AddrSpace <= s
  /\ InitialPages \subseteq Nat
  /\ HeapStarts \subseteq Nat \cup {NoHeap}
  /\ NoHeap \notin Nat
  /\ Widths \subseteq Nat \ {0}
  /\ Addresses \subseteq 0 .. (AddrSpace - 1)
  /\ Contents \subseteq Seq(0 .. (Byte - 1))
  /\ Operands \subseteq Seq(0 .. (Byte - 1))
  /\ \A v \in Operands, n \in Widths : n <= Len(v)
  /\ Growths \subseteq Int /\ Resizes \subseteq Nat /\ Slacks \subseteq Nat

\* A memory below 2 GiB: an offset beyond that counts from the end when it is read.
ASSUME SizeAssumption ==
  /\ MaxBytes \in Nat /\ MaxBytes < AddrSpace \div 2
  /\ \A p \in InitialPages \cup {1} : p * PageSize <= MaxBytes

VARIABLES
  intSpace,    \* the number of values of int on this machine
  arrays,      \* the contents of the arrays behind the slices
  vmRef,       \* the array of vm.memory
  allocRef,    \* the array of WavmMemory.Memory
  allocLen,    \* its length; the array is as long as its capacity
  pos,         \* WavmMemory.Pos
  size,        \* WavmMemory.Size
  heap,        \* the global of heap_pointer
  last,        \* the last operation and how it ended; for an access also
               \* whether it lies in the memory and its places fit an int
  allocated,   \* history: where SetBytes put something, and how much
  blocks,      \* history: what SetBytes put within the length, until it is
               \* written over
  ops          \* operations so far

vars == <<intSpace, arrays, vmRef, allocRef, allocLen, pos, size, heap, last, allocated,
          blocks, ops>>

Zeros(n) == [i \in 1 .. n |-> 0]
Memory == arrays[vmRef]           \* vm.memory
AllocArray == arrays[allocRef]    \* the array of WavmMemory.Memory
Cells(off, n) == off .. (off + n - 1)
Bytes(mem, off, n) == SubSeq(mem, off + 1, off + n)

\* The bytes of mem from off replaced by those of s.
Copied(mem, off, s) ==
  [i \in 1 .. Len(mem) |->
     IF i - 1 \in Cells(off, Len(s)) THEN s[i - off] ELSE mem[i]]

Report(op, res) == last' = [op |-> op, res |-> res]

\* What a write to the cells leaves of the recorded blocks.
Surviving(cells) ==
  [o \in {p \in DOMAIN blocks :
            ({p} \cup Cells(p, Len(blocks[p]))) \cap cells = {}} |-> blocks[o]]

-----------------------------------------------------------------------------

\* The base and the immediate offset are added in 32 bits.
Address(imm, base) == (imm + base) % AddrSpace

\* The conversion to int: the upper half of its values are the negative ones.
GoInt(i) ==
  IF i % intSpace < intSpace \div 2 THEN i % intSpace
  ELSE (i % intSpace) - intSpace

\* Variant: the whole bound is computed in 32 bits.
InBounds_Wraps(addr, n) == GoInt((addr + n - 1) % AddrSpace) < Len(Memory)

InBounds(addr, n) == GoInt(GoInt(addr) + n - 1) < Len(Memory)

\* Go's own check when the bytes are accessed.
Sliced(mem, off, n) == off >= 0 /\ off + n <= Len(mem)

Access(op, res, addr, n) ==
  [op |-> op, res |-> res, inside |-> addr + n <= Len(Memory),
   fits |-> addr + n <= intSpace \div 2]

\* Variant: the sign is that of the lowest byte.
Extend_LowByte(s, signed) ==
  s \o [i \in 1 .. (Wide - Len(s)) |->
          IF signed /\ s[1] >= Byte \div 2 THEN Byte - 1 ELSE 0]

\* An operand from the bytes of a load; an i32 is kept in 64 bits as well.
Extend(s, signed) ==
  s \o [i \in 1 .. (Wide - Len(s)) |->
          IF signed /\ s[Len(s)] >= Byte \div 2 THEN Byte - 1 ELSE 0]

Load(n, signed, imm, base) ==
  LET addr == Address(imm, base)
      at == GoInt(addr)
      found == Bytes(Memory, at, n)
  IN
  /\ ops' = ops + 1
  /\ last' = IF ~InBounds(addr, n) THEN Access("load", "trap", addr, n)
             ELSE IF ~Sliced(Memory, at, n) THEN Access("load", "panic", addr, n)
             ELSE [op |-> "load", res |-> "ok", inside |-> addr + n <= Len(Memory),
                   fits |-> addr + n <= intSpace \div 2, signed |-> signed,
                   bytes |-> found, value |-> Extend(found, signed)]
  /\ UNCHANGED <<arrays, vmRef, allocRef, allocLen, pos, size, heap, allocated, blocks>>

Store(n, imm, base, v) ==
  LET addr == Address(imm, base)
      at == GoInt(addr)
  IN
  /\ ops' = ops + 1
  /\ IF ~InBounds(addr, n) THEN
       last' = Access("store", "trap", addr, n) /\ UNCHANGED <<arrays, blocks>>
     ELSE IF ~Sliced(Memory, at, n) THEN
       last' = Access("store", "panic", addr, n) /\ UNCHANGED <<arrays, blocks>>
     ELSE
       /\ last' = Access("store", "ok", addr, n)
       /\ arrays' = [arrays EXCEPT ![vmRef] = Copied(@, at, SubSeq(v, 1, n))]
       /\ blocks' = IF vmRef = allocRef THEN Surviving(Cells(at, n)) ELSE blocks
  /\ UNCHANGED <<vmRef, allocRef, allocLen, pos, size, heap, allocated>>

CurrentMemory ==
  /\ ops' = ops + 1
  /\ last' = [op |-> "current", res |-> "ok", pages |-> Len(Memory) \div PageSize]
  /\ UNCHANGED <<arrays, vmRef, allocRef, allocLen, pos, size, heap, allocated, blocks>>

Int32(i) ==
  IF i % AddrSpace < AddrSpace \div 2 THEN i % AddrSpace
  ELSE (i % AddrSpace) - AddrSpace

GrowBytes(n) == Int32(n * PageSize)

\* Variant: the new memory starts empty.
Grown_Afresh(n) ==
  IF n = 0 THEN arrays
  ELSE [arrays EXCEPT !["grown"] = Zeros(Len(Memory) + n)]

\* append moves to a new array; whether it keeps room there is not observable.
Grown(n) ==
  IF n = 0 THEN arrays
  ELSE [arrays EXCEPT !["grown"] = Memory \o Zeros(n)]

\* growMemory: the product is an int32; a negative length panics.
GrowMemory(n) ==
  LET more == GrowBytes(n) IN
  /\ Len(Memory) + more <= MaxBytes
  /\ ops' = ops + 1
  /\ IF more < 0 THEN
       Report("grow", "panic") /\ UNCHANGED <<arrays, vmRef>>
     ELSE
       /\ last' = [op |-> "grow", res |-> "ok", by |-> n,
                   pages |-> Len(Memory) \div PageSize]
       /\ arrays' = Grown(more)
       /\ vmRef' = IF more = 0 THEN vmRef ELSE "grown"
  /\ UNCHANGED <<allocRef, allocLen, pos, size, heap, allocated, blocks>>

-----------------------------------------------------------------------------

\* Process.WriteAt of the other host functions: what does not fit is left out.
\* Beyond the end of the memory the slice of p has a negative length.
ProcessWriteAt(s, off) ==
  LET n == IF Len(Memory) < Len(s) + off THEN Len(Memory) - off ELSE Len(s) IN
  /\ ops' = ops + 1
  /\ IF n < 0 THEN
       Report("processWrite", "panic") /\ UNCHANGED <<arrays, blocks>>
     ELSE
       /\ Report("processWrite", IF n < Len(s) THEN "short" ELSE "ok")
       /\ arrays' = [arrays EXCEPT ![vmRef] = Copied(@, off, SubSeq(s, 1, n))]
       /\ blocks' = IF vmRef = allocRef THEN Surviving(Cells(off, n)) ELSE blocks
  /\ UNCHANGED <<vmRef, allocRef, allocLen, pos, size, heap, allocated>>

\* Set panics before it changes anything; Go checks against the capacity.
Panics(off, n) == n > 0 /\ (n > allocLen \/ ~Sliced(AllocArray, off, n))

\* Variant: an empty value takes no room.
Room_Exact(n) == n

\* What Set adds to Pos, wherever it writes.
Room(n) == IF n = 0 THEN 1 ELSE n

Set(off, s) ==
  /\ size' = [o \in DOMAIN size \cup {off} |->
                IF o = off THEN Len(s) ELSE size[o]]
  /\ arrays' = [arrays EXCEPT ![allocRef] = Copied(@, off, s)]
  /\ pos' = pos + Room(Len(s))

\* WavmProcess.WriteAt: a zero length also hides the block at its offset.
WriteAt(s, off) ==
  /\ ops' = ops + 1
  /\ IF Panics(off, Len(s)) THEN
       /\ Report("write", "panic")
       /\ UNCHANGED <<arrays, pos, size, blocks>>
     ELSE
       /\ Report("write", "ok")
       /\ Set(off, s)
       /\ blocks' = Surviving(Cells(off, Len(s)) \cup {off})
  /\ UNCHANGED <<vmRef, allocRef, allocLen, heap, allocated>>

SetBytes(s) ==
  /\ ops' = ops + 1
  /\ IF Panics(pos, Len(s)) THEN
       /\ Report("setBytes", "panic")
       /\ UNCHANGED <<arrays, pos, size, allocated, blocks>>
     ELSE
       /\ Report("setBytes", "ok")
       /\ Set(pos, s)
       /\ allocated' = allocated \cup {[off |-> pos, len |-> Len(s)]}
       /\ blocks' = IF pos + Len(s) > allocLen THEN blocks
                    ELSE [o \in DOMAIN blocks \cup {pos} |->
                            IF o = pos THEN s ELSE blocks[o]]
  /\ UNCHANGED <<vmRef, allocRef, allocLen, heap>>

\* Variant: what was in the memory is not kept.
Reallocated_Afresh(n, slack) == Zeros(allocLen + n + slack)

Reallocated(n, slack) == SubSeq(AllocArray, 1, allocLen) \o Zeros(n + slack)

\* append: in place when the capacity allows, otherwise in a new array.
Extended(n) ==
  IF allocLen + n <= Len(AllocArray) THEN
    arrays' = [arrays EXCEPT ![allocRef] = Copied(@, allocLen, Zeros(n))]
    /\ UNCHANGED allocRef
  ELSE
    /\ \E slack \in Slacks :
         arrays' = [arrays EXCEPT !["resized"] = Reallocated(n, slack)]
    /\ allocRef' = "resized"

\* Resize compares with Pos, not with the length of the slice.
Resize(n) ==
  /\ allocLen + n - pos <= MaxBytes
  /\ ops' = ops + 1
  /\ Report("resize", "ok")
  /\ IF pos < n
     THEN Extended(n - pos) /\ allocLen' = allocLen + n - pos
     ELSE UNCHANGED <<arrays, allocRef, allocLen>>
  /\ UNCHANGED <<vmRef, pos, size, heap, allocated, blocks>>

\* A pointer with the sign bit counts from the end of the memory.
Pointer(ptr) ==
  IF Int32(ptr) >= 0 THEN ptr ELSE (allocLen + Int32(ptr)) % AddrSpace

\* GetPtr, and Get, which copies: nothing for an unknown or an empty block.
GetPtr(ptr) ==
  LET off == Pointer(ptr) IN
  IF off \in DOMAIN size /\ allocLen > off
  THEN Bytes(AllocArray, off, size[off]) ELSE <<>>

\* AddHeapPointer moves the heap of the module, never Pos.
AddHeapPointer(n) ==
  /\ n >= 0
  /\ ops' = ops + 1
  /\ Report("addHeap", "ok")
  /\ heap' = IF heap = NoHeap THEN heap ELSE heap + n
  /\ UNCHANGED <<arrays, vmRef, allocRef, allocLen, pos, size, allocated, blocks>>

-----------------------------------------------------------------------------

\* NewInterpreter: a module without a memory gets one page.
Init ==
  /\ intSpace \in IntSpaces
  /\ \E p \in InitialPages \cup {1} :
       arrays = [r \in {"first", "grown", "resized"} |->
         IF r = "first" THEN Zeros(p * PageSize) ELSE <<>>]
  /\ vmRef = "first" /\ allocRef = "first" /\ allocLen = Len(arrays["first"])
  /\ heap \in HeapStarts
  /\ pos = IF heap = NoHeap THEN 0 ELSE heap
  /\ size = <<>> /\ blocks = <<>> /\ allocated = {}
  /\ last = [op |-> "none", res |-> "ok"]
  /\ ops = 0

Instruction ==
  \/ \E n \in Widths, signed \in BOOLEAN, imm, base \in Addresses :
       Load(n, signed, imm, base)
  \/ \E n \in Widths, imm, base \in Addresses, v \in Operands :
       Store(n, imm, base, v)
  \/ CurrentMemory
  \/ \E n \in Growths : GrowMemory(n)

HostFunction ==
  \/ \E s \in Contents, off \in Addresses :
       ProcessWriteAt(s, off) \/ WriteAt(s, off)
  \/ \E s \in Contents : SetBytes(s)
  \/ \E n \in Resizes : Resize(n)
  \/ \E n \in Growths : AddHeapPointer(n)

Next == ops < MaxOps /\ (Instruction \/ HostFunction) /\ UNCHANGED intSpace

Spec == Init /\ [][Next]_vars

-----------------------------------------------------------------------------

\* AccessesInside: a load or store goes through exactly when all its bytes are in
\* the memory, whatever the address sum and the conversions do; otherwise it
\* traps with ErrOutOfBoundsMemoryAccess, except that one whose last place does
\* not fit an int may fail Go's own check instead (memory.go:16-31).  An int of
\* 64 bits holds every place; one of 32 bits does not, against memory.go:20.
AccessesInside ==
  last.op \in {"load", "store"} =>
    /\ last.res = "ok" <=> last.inside
    /\ last.res = "panic" => ~last.fits

\* SetBytes never gives out an offset or a byte twice: not after writes elsewhere, empty
\* values, panics that were recovered, or a memory that was replaced.
BlocksDisjoint ==
  \A a, b \in allocated :
    a # b => /\ a.off # b.off
             /\ Cells(a.off, a.len) \cap Cells(b.off, b.len) = {}

\* The strengthening of BlocksDisjoint that is inductive.
BelowPos ==
  \A a \in allocated : a.off >= 0 /\ a.off < pos /\ a.off + a.len <= pos

\* What SetBytes stored can be read at the offset it returned until somebody
\* writes over it, also after the memory or the allocator has grown.  This
\* holds for blocks within the length of the memory, as memory.go:61 demands;
\* one in the capacity beyond it is zeroed by the next Resize.
ReadBack == \A o \in DOMAIN blocks : GetPtr(o) = blocks[o]

\* The strengthening of ReadBack that is inductive: the block of an offset lies below
\* Pos and within the length, and it is what the allocator's array holds there.
BlocksHeld ==
  /\ allocLen <= MaxBytes
  /\ \A o \in DOMAIN blocks :
       /\ o \in Nat /\ o < pos /\ o + Len(blocks[o]) <= pos
       /\ o + Len(blocks[o]) <= allocLen
       /\ o \in DOMAIN size /\ size[o] = Len(blocks[o])
       /\ \A i \in 1 .. Len(blocks[o]) : AllocArray[o + i] = blocks[o][i]

\* Growing keeps the contents, adds zeros, and as many pages as were asked
\* for when their size fits an i32; nothing else changes the length.
KeepsContents ==
  /\ Len(Memory) <= Len(Memory')
  /\ last'.op = "grow" /\ last'.res = "ok" =>
       /\ IsPrefix(Memory, Memory')
       /\ \A i \in (Len(Memory) + 1) .. Len(Memory') : Memory'[i] = 0
       /\ last'.pages * PageSize = Len(Memory)
       /\ (last'.by * PageSize) \in 0 .. (AddrSpace \div 2 - 1) =>
            Len(Memory') = Len(Memory) + last'.by * PageSize
  /\ last'.op # "grow" => Len(Memory) = Len(Memory')
GrowKeeps == [][KeepsContents]_vars

\* The number that bytes stand for, the lowest first, when the bits above them are
\* all clear (0) or all set (-1).
NumberBelow(above, s) ==
  LET f[i \in 0 .. Len(s)] ==
        IF i = 0 THEN above ELSE Byte * f[i - 1] + s[Len(s) - i + 1]
  IN  f[Len(s)]
Number(s) == NumberBelow(0, s)
SignedNumber(s) == NumberBelow(IF s[Len(s)] < Byte \div 2 THEN 0 ELSE -1, s)

\* A load gives the number that is in the memory: as a signed number when the
\* instruction says so, at every width (memory.go:27-143).
LoadsNumber ==
  last.op = "load" /\ last.res = "ok" =>
    IF last.signed THEN SignedNumber(last.value) = SignedNumber(last.bytes)
    ELSE Number(last.value) = Number(last.bytes)
=============================================================================
