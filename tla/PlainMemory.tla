---------------------------- MODULE PlainMemory ----------------------------
(***************************************************************************)
(* What assignments and reads mean to the author of a program: a memory of *)
(* named storage, read and written through the expressions of Proxies.     *)
(* There is no cache and no frame; CachedProgram runs it beside ValueCache. *)
(***************************************************************************)
EXTENDS Proxies

VARIABLES
  mem,   \* variable |-> value
  seen   \* the value that the function read last

Store(dest, value) ==
  /\ mem' = Replaced(mem, Locate(mem, dest), value)
  /\ UNCHANGED seen

Assign(dest, op, operand) ==
  Store(dest, IF op = "=" THEN Value(mem, operand) ELSE Sum(Value(mem, dest), Value(mem, operand)))

Read(p) ==
  /\ seen' = Value(mem, p)
  /\ UNCHANGED mem

\* The callee stores its argument in a global and returns it increased.
Call(arg, global, dest) ==
  LET m == [mem EXCEPT ![global] = Value(mem, arg)] IN
  /\ mem' = Replaced(m, Locate(m, dest), Sum(Value(mem, arg), 1))
  /\ UNCHANGED seen

\* Storage that is left and entered again has no value of its own; the program
\* initializes it again.
Reset(ended, fresh) ==
  /\ mem' = [v \in DOMAIN mem |-> IF v \in ended THEN fresh[v] ELSE mem[v]]
  /\ UNCHANGED seen

LeaveScope(v, fresh) == Reset({v}, fresh)
Return(outlive, fresh) == Reset(DOMAIN fresh \ outlive, fresh)

Init(m) == mem = m /\ seen = Junk
============================================================================
