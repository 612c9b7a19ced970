-------------------------------- MODULE Bfint --------------------------------
(* The interpreter that comes with the library (tools/bfint/bfint.cc): a text  *)
(* is made into instructions, repeats as one and brackets with the place of    *)
(* their partner, and these are run on a tape that grows.                      *)
(*                                                                             *)
(* Places in the code count from 1.  '?' and the curses mode are left out.     *)
EXTENDS Integers, Sequences, FiniteSets

CONSTANTS CellBits, TapeLength

ASSUME BfintAssumption == CellBits \in Nat \ {0} /\ TapeLength \in Nat \ {0}

VARIABLES code,                 \* d_code: records op, arg
          codePointer, dataPointer, tape,
          depth,                \* loops entered and not left
          input, output,
          interrupted,          \* s_interrupted, which SIGINT sets
          outcome               \* "running", "ended", "interrupted", "failed", "rejected"
bfVars == <<code, codePointer, dataPointer, tape, depth, input, output, interrupted, outcome>>

Repeatable == {"<", ">", "+", "-"}

-----------------------------------------------------------------------------
(* preprocess: a stack holds the places of the loops begun and not ended.  A   *)
(* bracket without its partner is refused; other characters are skipped, also  *)
(* in the middle of a repeat.                                                  *)
Op(c, n) == [op |-> c, arg |-> n]
Top(s) == s[Len(s)]
Pop(s) == SubSeq(s, 1, Len(s) - 1)

Nothing == [result |-> <<>>, loopStack |-> <<>>, matched |-> TRUE]

Insert(a, c) ==
  LET made == a.result
      at == Len(made) + 1
  IN CASE c \in Repeatable /\ made # <<>> /\ Top(made).op = c ->
            [a EXCEPT !.result[at - 1].arg = @ + 1]
       [] c \in Repeatable /\ ~(made # <<>> /\ Top(made).op = c) ->
            [a EXCEPT !.result = Append(@, Op(c, 1))]
       [] c = "[" -> [a EXCEPT !.result = Append(@, Op(c, 0)), !.loopStack = Append(@, at)]
       [] c = "]" ->
            IF a.loopStack = <<>> THEN [a EXCEPT !.matched = FALSE]
            ELSE [a EXCEPT !.result = Append([@ EXCEPT ![Top(a.loopStack)].arg = at],
                                             Op(c, Top(a.loopStack))),
                           !.loopStack = Pop(@)]
       [] c \in {".", ","} -> [a EXCEPT !.result = Append(@, Op(c, 0))]
       [] OTHER -> a

Preprocess(text) ==
  LET upTo[k \in 0 .. Len(text)] == IF k = 0 THEN Nothing ELSE Insert(upTo[k - 1], text[k])
      all == upTo[Len(text)]
  IN [all EXCEPT !.matched = @ /\ all.loopStack = <<>>]

(* What was made of a text is run, or refused. *)
Load(made, given) ==
  /\ code = made.result
  /\ outcome = IF made.matched THEN "running" ELSE "rejected"
  /\ codePointer = 1
  /\ dataPointer = 0
  /\ tape = [c \in 0 .. TapeLength - 1 |-> 0]
  /\ depth = 0
  /\ input = given
  /\ output = <<>>
  /\ interrupted = FALSE

-----------------------------------------------------------------------------
(* run *)
Fetching == outcome = "running" /\ ~interrupted /\ codePointer <= Len(code)
At(op) == Fetching /\ code[codePointer].op = op
Arg == code[codePointer].arg

Wrapped(n) == n % 2^CellBits
Advance == codePointer' = codePointer + 1
Put(n) == tape' = [tape EXCEPT ![dataPointer] = n]

Plus == At("+") /\ Put(Wrapped(tape[dataPointer] + Arg)) /\ Advance
        /\ UNCHANGED <<code, dataPointer, depth, input, output, interrupted, outcome>>

Minus == At("-") /\ Put(Wrapped(tape[dataPointer] - Arg)) /\ Advance
         /\ UNCHANGED <<code, dataPointer, depth, input, output, interrupted, outcome>>

(* extendTape: doubled until the pointer is on it. *)
Right ==
  /\ At(">")
  /\ dataPointer' = dataPointer + Arg
  /\ LET length == Cardinality(DOMAIN tape)
         doublings == CHOOSE n \in 0 .. dataPointer' :
                        /\ dataPointer' < length * 2^n
                        /\ n = 0 \/ dataPointer' >= length * 2^(n - 1)
     IN tape' = [c \in 0 .. length * 2^doublings - 1 |-> IF c < length THEN tape[c] ELSE 0]
  /\ Advance
  /\ UNCHANGED <<code, depth, input, output, interrupted, outcome>>

(* checkNegative throws: the run has failed. *)
Left ==
  /\ At("<")
  /\ dataPointer' = dataPointer - Arg
  /\ IF dataPointer' < 0 THEN outcome' = "failed" /\ UNCHANGED codePointer
                         ELSE Advance /\ UNCHANGED outcome
  /\ UNCHANGED <<code, tape, depth, input, output, interrupted>>

(* The jump is to the partner itself, and the step after it goes beyond. *)
StartLoop ==
  /\ At("[")
  /\ IF tape[dataPointer] # 0 THEN depth' = depth + 1 /\ Advance
                              ELSE codePointer' = Arg + 1 /\ UNCHANGED depth
  /\ UNCHANGED <<code, dataPointer, tape, input, output, interrupted, outcome>>

EndLoop ==
  /\ At("]")
  /\ IF tape[dataPointer] # 0
       THEN codePointer' = Arg + 1 /\ UNCHANGED <<depth, outcome>>
       ELSE /\ depth' = depth - 1
            /\ IF depth' < 0 THEN outcome' = "failed" /\ UNCHANGED codePointer
                             ELSE Advance /\ UNCHANGED outcome
  /\ UNCHANGED <<code, dataPointer, tape, input, output, interrupted>>

WriteCell ==
  /\ At(".")
  /\ output' = Append(output, tape[dataPointer])
  /\ Advance
  /\ UNCHANGED <<code, dataPointer, tape, depth, input, interrupted, outcome>>

(* At the end of the input a zero is read. *)
ReadCell ==
  /\ At(",")
  /\ Put(IF input = <<>> THEN 0 ELSE Head(input))
  /\ input' = IF input = <<>> THEN input ELSE Tail(input)
  /\ Advance
  /\ UNCHANGED <<code, dataPointer, depth, output, interrupted, outcome>>

(* The loop over the code ends at its end, or where a signal is noticed. *)
Finish ==
  /\ outcome = "running"
  /\ interrupted \/ codePointer > Len(code)
  /\ outcome' = IF codePointer <= Len(code) THEN "interrupted" ELSE "ended"
  /\ UNCHANGED <<code, codePointer, dataPointer, tape, depth, input, output, interrupted>>

Signal ==
  /\ outcome = "running" /\ ~interrupted
  /\ interrupted' = TRUE
  /\ UNCHANGED <<code, codePointer, dataPointer, tape, depth, input, output, outcome>>

Operate ==
  \/ Plus \/ Minus \/ Right \/ Left \/ StartLoop \/ EndLoop \/ WriteCell \/ ReadCell \/ Finish
=============================================================================
