--------------------------- MODULE BrainfuckText ---------------------------
(* simplifyBrainfuck (assembler_codegen.cc): opposite commands cancel, and the *)
(* clearing of cells that are known to be zero, or that nobody looks at        *)
(* afterwards, is left out.                                                    *)
EXTENDS Integers, Sequences, FiniteSetsExt

Count(text, first, last, c) == Cardinality({k \in first .. last : text[k] = c})

Without(text, gone) ==
  LET kept == SelectSeq([k \in DOMAIN text |-> k], LAMBDA k : k \notin gone)
  IN [i \in DOMAIN kept |-> text[kept[i]]]

(* Mutant of Cancel: a run goes on behind the end of a loop. *)
CancelPastLoops(text, up, down) ==
  LET flushed(a) == a.result \o [k \in 1 .. IF a.count < 0 THEN -a.count ELSE a.count |->
                                   IF a.count > 0 THEN up ELSE down]
      next(a, c) == CASE c = up -> [a EXCEPT !.count = @ + 1]
                      [] c = down -> [a EXCEPT !.count = @ - 1]
                      [] c = "]" -> [a EXCEPT !.result = Append(@, c)]
                      [] OTHER -> [result |-> Append(flushed(a), c), count |-> 0]
      upTo[k \in 0 .. Len(text)] ==
        IF k = 0 THEN [result |-> <<>>, count |-> 0] ELSE next(upTo[k - 1], text[k])
  IN flushed(upTo[Len(text)])

(* Within a run of the two commands only the surplus of one is kept. *)
Cancel(text, up, down) ==
  LET flushed(a) == a.result \o [k \in 1 .. IF a.count < 0 THEN -a.count ELSE a.count |->
                                   IF a.count > 0 THEN up ELSE down]
      next(a, c) == CASE c = up -> [a EXCEPT !.count = @ + 1]
                      [] c = down -> [a EXCEPT !.count = @ - 1]
                      [] OTHER -> [result |-> Append(flushed(a), c), count |-> 0]
      upTo[k \in 0 .. Len(text)] ==
        IF k = 0 THEN [result |-> <<>>, count |-> 0] ELSE next(upTo[k - 1], text[k])
  IN flushed(upTo[Len(text)])

(* Where "[-]" stands, and the places it takes. *)
ZeroesIn(text) ==
  {k \in 1 .. Len(text) - 2 : text[k] = "[" /\ text[k + 1] = "-" /\ text[k + 2] = "]"}
Spanned(starts) == UNION {k .. k + 2 : k \in starts}

(* After a loop its cell is zero.  Matches do not overlap: of several "[-]" in *)
(* a row the first goes, the second is what the third follows.                 *)
AfterLoop(text) ==
  LET zeroes == ZeroesIn(text)
      follows(k) == k > 1 /\ text[k - 1] = "]"
      row(k) == CHOOSE n \in 0 .. k : /\ \A i \in 1 .. n : k - 3 * i \in zeroes /\ follows(k - 3 * i)
                                      /\ ~(k - 3 * (n + 1) \in zeroes /\ follows(k - 3 * (n + 1)))
  IN Without(text, Spanned({k \in zeroes : follows(k) /\ row(k) % 2 = 0}))

(* Mutant of CleanHead: what is read from the input is taken for zero. *)
CleanHeadUnread(text) ==
  LET zeroes == ZeroesIn(text)
      loops == {k \in DOMAIN text \ zeroes : text[k] = "["}
      head == {k \in DOMAIN text : \A i \in loops : k < i}
      place(k) == Count(text, 1, k - 1, ">") - Count(text, 1, k - 1, "<")
      unknown(k) == \E j \in head \ Spanned(zeroes) :
                      j < k /\ text[j] \in {"+", "-"} /\ place(j) = place(k)
  IN Without(text, Spanned({k \in head \cap zeroes : ~unknown(k)}))

(* Before the first other loop, the cells that may hold something are known. *)
CleanHead(text) ==
  LET zeroes == ZeroesIn(text)
      loops == {k \in DOMAIN text \ zeroes : text[k] = "["}
      head == {k \in DOMAIN text : \A i \in loops : k < i}
      place(k) == Count(text, 1, k - 1, ">") - Count(text, 1, k - 1, "<")
      changed == {k \in head \ Spanned(zeroes) : text[k] \in {"+", "-", ","}}
      unknown(k) == \E j \in changed :
                      /\ j < k /\ place(j) = place(k)
                      /\ ~\E i \in zeroes : j < i /\ i < k /\ place(i) = place(k)
  IN Without(text, Spanned({k \in head \cap zeroes : ~unknown(k)}))

(* After the last command anyone can notice, nothing is needed. *)
CleanTail(text) ==
  LET idle == {k \in DOMAIN text : text[k] \in {"<", ">", "+", "-"}} \cup Spanned(ZeroesIn(text))
  IN SubSeq(text, 1, Max({0} \cup (DOMAIN text \ idle)))

SimplifyBrainfuck(text) ==
  CleanTail(CleanHead(AfterLoop(Cancel(Cancel(text, ">", "<"), "+", "-"))))
=============================================================================
