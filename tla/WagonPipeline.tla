----------------------------- MODULE WagonPipeline -----------------------------
(***************************************************************************)
(* The life of one function body in wagon: VerifyModule reads it, NewVM    *)
(* disassembles and compiles it, ExecCode runs it.                         *)
(*                                                                         *)
(* The body is not given: "Verify" reads any next instruction, so every    *)
(* body of each kind in Kinds is verified, and those that are complete are *)
(* loaded and run.  Next to the verifier and to the       *)
(* compiled machine run the typing and the machine of structured code      *)
(* (WasmStructured), which say what they should do.  The two machines run  *)
(* on their own between calls of host functions, and meet at every call:   *)
(* they must make the same call with the same arguments, and then receive  *)
(* the same answer.                                                        *)
(***************************************************************************)
EXTENDS WagonValidate, WagonCompile, WagonExec

CONSTANTS Kinds,      \* kinds of bodies: [instrs, max], the instructions they
                      \* are made of and a bound on their length
          Inputs,     \* what host functions answer and arguments are
          MaxStack,   \* bound on the height the compiled machine may reach
          OnlyTyped,  \* whether bodies the typing rules refuse are left out
          Allowed     \* which of the deviations below bodies may exhibit

W == INSTANCE WasmStructured

VARIABLES phase,   \* "verify", "run", "refused" (NewVM failed) or "done"
          body,    \* the instructions read so far
          mock,    \* the mock machine of the verifier
          typ,     \* what the typing rules say of the body
          prog,    \* the compiled function
          con, abs \* the machines of compiled and of structured code

vars == <<phase, body, mock, typ, prog, con, abs>>

NoProg == [code |-> <<>>, tables |-> <<>>, max |-> 0]

-------------------------------------------------------------------------------
(* The classes of bodies on which the code is known to deviate from the    *)
(* meaning of structured code; the passing runs leave them out.             *)
(*   "else"   an else whose if has operands below it: the disassembler     *)
(*            restarts its height at 0;                                    *)
(*   "br_if"  a br_if that has operands to discard and none to keep: the   *)
(*            compiler writes 0 for the number to discard;                 *)
(*   "loop"   a branch to a loop that has a signature: unwound as if it    *)
(*            carried the result of the loop;                              *)
(*   "table"  a loop placed at a byte address that is also a label of a    *)
(*            br_table in it: PatchTable takes the one for the other.      *)

DeviationsAt(body_, dis, k) ==
  LET d == Disassemble(SubSeq(body_, 1, k - 1))      \* before instruction k
      i == dis.code[k]
      n == Len(d.opens)
      TypedLoop(l) == l < n /\ body_[d.opens[n - l]].op = "loop" /\ body_[d.opens[n - l]].sig # Empty
  IN (IF i.op = "else" /\ d.depths[Parent(d.depths)] > 0 THEN {"else"} ELSE {})
     \cup (IF i.op = "br_if" /\ ~i.unreachable /\ ~i.return /\ ~i.stack[1].keep /\ i.stack[1].diff > 0
           THEN {"br_if"} ELSE {})
     \cup (IF \E l \in DOMAIN Labels(i) : TypedLoop(i.imm[l]) THEN {"loop"} ELSE {})

TableDeviations(dis) ==
  LET tables == CompileBody(dis.code).tables
  IN IF \E k \in DOMAIN tables : \E a \in tables[k].patched : a \in 1 .. tables[k].blocksLen - 1
     THEN {"table"} ELSE {}

\* The deviations of a body that was disassembled.
Deviations(body_, dis) ==
  UNION {DeviationsAt(body_, dis, k) : k \in DOMAIN dis.code}
  \cup (IF dis.status = "ok" THEN TableDeviations(dis) ELSE {})

-------------------------------------------------------------------------------
Init ==
  /\ phase = "verify" /\ body = <<>> /\ mock = InitMock /\ typ = W!InitTyping
  /\ prog = NoProg
  /\ con = Enter(0, <<>>) /\ abs = W!EnterStructured(<<>>)

\* One iteration of verifyBody, on any next instruction that keeps the body of
\* some kind and leaves room to close the open blocks.
Verify(i) ==
  /\ phase = "verify" /\ mock.status = "ok"
  /\ body' = Append(body, i)
  /\ mock' = VerifyOp(mock, i)
  /\ \E kind \in Kinds : /\ Range(body') \subseteq kind.instrs
                         /\ Len(body') + Len(mock'.blocks) <= kind.max
  /\ typ' = W!TypeStep(typ, i)
  /\ OnlyTyped => typ'.ok
  /\ UNCHANGED <<phase, prog, con, abs>>

\* NewVM on a verified module, then ExecCode with any arguments; the locals
\* after them are 0.
Load ==
  /\ phase = "verify" /\ mock.status = "ok" /\ W!Complete(typ) /\ body # <<>>
  /\ LET dis == Disassemble(body)
         out == Compile(dis.code)
     IN /\ Deviations(body, dis) \subseteq Allowed
        /\ IF dis.status # "ok" \/ out.status # "ok"
           THEN /\ phase' = "refused"
                /\ UNCHANGED <<prog, con, abs>>
           ELSE /\ phase' = "run"
                /\ prog' = [code |-> out.code, tables |-> out.tables, max |-> dis.max]
                /\ \E args \in [1 .. Len(Self.params) -> Inputs] :
                     LET locals == [k \in DOMAIN LocalTypes |->
                                      IF k \in DOMAIN args THEN args[k] ELSE 0]
                     IN con' = Enter(dis.max, locals) /\ abs' = W!EnterStructured(locals)
  /\ UNCHANGED <<body, mock, typ>>

\* One instruction of structured code.
RunStructured ==
  /\ phase = "run" /\ abs.status = "run"
  /\ abs' = W!StructuredStep(body, abs)
  /\ UNCHANGED <<phase, body, mock, typ, prog, con>>

\* One iteration of execCode; structured code is already at the next call.
RunCompiled ==
  /\ phase = "run" /\ abs.status # "run" /\ con.status = "run"
  /\ con.len <= MaxStack
  /\ con' = Exec(prog, con)
  /\ UNCHANGED <<phase, body, mock, typ, prog, abs>>

\* The host function both machines are calling answers.
HostAnswers ==
  /\ phase = "run" /\ abs.status = "call" /\ con.status = "call"
  /\ \E rs \in [1 .. Len(Sigs[body[abs.pc].imm[1]].rets) -> Inputs] :
       /\ con' = HostReturns(prog, con, rs)
       /\ abs' = W!StructuredReturns(body, abs, rs)
  /\ UNCHANGED <<phase, body, mock, typ, prog>>

\* ExecCode returns, or panics.
Finish ==
  /\ phase = "run" /\ {abs.status, con.status} \subseteq {"done", "trap"}
  /\ phase' = "done"
  /\ UNCHANGED <<body, mock, typ, prog, con, abs>>

Instrs == UNION {kind.instrs : kind \in Kinds}

Next == (\E i \in Instrs : Verify(i)) \/ Load \/ RunStructured \/ RunCompiled \/ HostAnswers \/ Finish

Spec == Init /\ [][Next]_vars

\* The interpreter is one goroutine in a loop: it does not stop half-way.
FairSpec == Spec /\ WF_vars(RunStructured) /\ WF_vars(RunCompiled)

-------------------------------------------------------------------------------
\* AcceptsTyped: a body the typing rules accept is accepted.  verifyBody returns
\* no error, and where code can be reached the height it tracks with its index is
\* the height of the typing rules, through every reset at an else or an end
\* (vm.go:158-197); NewVM loads it: Disassemble finds no underflow, and neither
\* pass indexes out of range (disasm.go:109-464, compile.go:124-329).
AcceptsTyped ==
  /\ typ.ok => mock.status = "ok"
  /\ (typ.ok /\ \A k \in DOMAIN typ.frames : ~typ.frames[k].dead)
       => mock.top = Len(typ.ops)
  /\ phase # "refused"

\* Compiled code makes the calls structured code makes, with the same
\* arguments and in the same order, and ends with the same result or trap.
SameBehaviour ==
  (phase = "run" /\ abs.status # "run" /\ con.status # "run")
    => Observe(prog, con) = W!StructuredObserve(body, abs)

\* "After we leave the sequence, the stack height is restored using the
\* discard operator" (compile.go): at every call the operand stack of the VM
\* holds exactly what that of structured code holds.
SameStack ==
  (phase = "run" /\ abs.status = "call" /\ con.status = "call")
    => SubSeq(con.arr, 1, con.len) = abs.stack

\* The MaxDepth of Disassemble bounds the stack at every instruction that
\* execCode executes, so the stack ExecCode allocates is never copied.
WithinMaxDepth == phase = "run" => con.len <= prog.max

\* Compiled code does not run on: once structured code has reached its next
\* call or its end, execCode reaches one too.
KeepsUp == (phase = "run" /\ abs.status # "run") ~> (con.status # "run")
===============================================================================
