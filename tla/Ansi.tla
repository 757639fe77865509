-------------------------------- MODULE Ansi --------------------------------
(***************************************************************************)
(* The colours of pane output (lib/ansi.tsx): an SGR escape is a list of   *)
(* codes, of which 38 and 48 are followed by parameters that are codes of  *)
(* their own elsewhere.  applySgr takes the whole list; the variables take *)
(* it a code at a time, as a terminal does.                                *)
(***************************************************************************)
EXTENDS Integers, Sequences

CONSTANTS
    Codes,    \* the codes of an escape
    MaxCodes  \* bounds their number


VARIABLES
    before, \* the style when the escape begins
    codes,  \* the codes so far
    look,   \* the style a terminal would have if the escape ended here
    taking  \* the parameters of a 38 or 48 it is in the middle of

ansiVars == <<before, codes, look, taking>>

(* A colour: none, one of the palette, or its three parts.                 *)
Default == <<>>
Plain == [color |-> Default, background |-> Default, bold |-> FALSE, dim |-> FALSE]
-----------------------------------------------------------------------------
Level(v) == IF v = 0 THEN 0 ELSE 55 + v * 40
xterm256(n) ==
    IF n < 16 THEN <<n>>
    ELSE IF n < 232 THEN LET i == n - 16 IN <<Level(i \div 36), Level((i \div 6) % 6), Level(i % 6)>>
    ELSE LET v == 8 + (n - 232) * 10 IN <<v, v, v>>

Target(c) == IF c % 50 = 38 THEN "color" ELSE "background"
Extended == {38, 48}
Basic(s, c) ==
    CASE c = 0 -> Plain
      [] c = 1 -> [s EXCEPT !.bold = TRUE]
      [] c = 2 -> [s EXCEPT !.dim = TRUE]
      [] c = 22 -> [s EXCEPT !.bold = FALSE, !.dim = FALSE]
      [] c = 39 -> [s EXCEPT !.color = Default]
      [] c = 49 -> [s EXCEPT !.background = Default]
      [] c \in 30..37 -> [s EXCEPT !.color = <<c - 30>>]
      [] c \in 90..97 -> [s EXCEPT !.color = <<c - 82>>]
      [] c \in 40..47 -> [s EXCEPT !.background = <<c - 40>>]
      [] c \in 100..107 -> [s EXCEPT !.background = <<c - 92>>]
      [] OTHER -> s

(* A code with the codes after it; what is missing of three parts is 0.     *)
Part(cs, i) == IF i \in DOMAIN cs THEN cs[i] ELSE 0
Mode(cs, i) == IF i \in DOMAIN cs THEN cs[i] ELSE -1
Painted(s, cs, i) ==
    IF cs[i] \notin Extended THEN Basic(s, cs[i])
    ELSE CASE Mode(cs, i + 1) = 5 /\ i + 2 \in DOMAIN cs -> [s EXCEPT ![Target(cs[i])] = xterm256(cs[i + 2])]
           [] Mode(cs, i + 1) = 2 -> [s EXCEPT ![Target(cs[i])] = <<Part(cs, i + 2), Part(cs, i + 3), Part(cs, i + 4)>>]
           [] OTHER -> s

(* mutated form: the parameters are not consumed                            *)
Leaks(cs, i) == 0
Consumed(cs, i) ==
    IF cs[i] \notin Extended THEN 0
    ELSE CASE Mode(cs, i + 1) = 5 -> 2
           [] Mode(cs, i + 1) = 2 -> 4
           [] OTHER -> 0

applySgr(s, cs) ==
    LET run[i \in 0..Len(cs)] ==
          IF i = 0 THEN [style |-> s, skip |-> 0]
          ELSE LET acc == run[i - 1] IN
               IF acc.skip > 0 THEN [acc EXCEPT !.skip = @ - 1]
               ELSE [style |-> Painted(acc.style, cs, i), skip |-> Consumed(cs, i)]
    IN  run[Len(cs)].style
-----------------------------------------------------------------------------
(* The terminal: taking is empty, or the code, the mode and its numbers.    *)
Paint(t) == [look EXCEPT ![Target(t[1])] =
    IF t[2] = 5 THEN xterm256(t[3]) ELSE [k \in 1..3 |-> IF k + 2 \in DOMAIN t THEN t[k + 2] ELSE 0]]

Starts(c) == taking' = <<c>> /\ look' = look
Takes(c) ==
    LET t == Append(taking, c) IN
    /\ taking' = IF Len(t) = (IF t[2] = 5 THEN 3 ELSE 5) THEN <<>> ELSE t
    /\ look' = IF t[2] = 2 \/ Len(t) = 3 THEN Paint(t) ELSE look
Plainly(c) == taking' = <<>> /\ look' = Basic(look, c)

Feed(c) ==
    /\ Len(codes) < MaxCodes
    /\ codes' = Append(codes, c)
    /\ IF Len(taking) > 1 \/ (Len(taking) = 1 /\ c \in {2, 5}) THEN Takes(c)
       ELSE IF c \in Extended THEN Starts(c) ELSE Plainly(c)
    /\ UNCHANGED before

AnsiInit == before \in {Plain, [Plain EXCEPT !.bold = TRUE, !.color = <<1>>]} /\ codes = <<>> /\ look = before /\ taking = <<>>
AnsiNext == \E c \in Codes : Feed(c)

(* A list of codes gives the style that a terminal arrives at code by code:   *)
(* no parameter of an extended colour acts as a code of its own, and the code *)
(* after a malformed one is not lost.                                         *)
AsTerminal == applySgr(before, codes) = look
=============================================================================
