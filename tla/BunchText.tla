------------------------------ MODULE BunchText ------------------------------
(***************************************************************************)
(* Two small algorithms between bunches and text: the summary of a         *)
(* waveform over the enabled bunches, assess_complexity() of               *)
(* epics/src/bunch_select.c, and the list of bunches that BUNCH_SELECT     *)
(* accepts, parse_bunch_select() of epics/src/bunch_set.c.                 *)
(*                                                                         *)
(* The text is a sequence of numbers and colons, anything else is Junk;    *)
(* the parser takes one item of the list at a time.                        *)
(***************************************************************************)
EXTENDS Naturals, Sequences, FiniteSets

CONSTANTS
  TextBunches,   \* bunches per turn
  TextValues,    \* values of the waveform
  MaxTokens,     \* bound: length of the text
  None           \* no enables are given

ASSUME TextAssumption ==
  TextBunches \in Nat \ {0} /\ TextValues # {} /\ MaxTokens \in Nat

VARIABLES
  wf, enables,   \* the waveform to sum up, and its enables or None
  summary,       \* what assess_complexity() says of it
  text, rest,    \* the text written and what is left of it
  parsed,        \* the selection so far
  selection,     \* bunch_set->selection
  result         \* "parsing", then "ok" or "error"; "summing", then "summed"

textVars == <<wf, enables, summary, text, rest, parsed, selection, result>>

TextBunch == 0 .. TextBunches - 1
Number == 0 .. TextBunches      \* the last one out of range
Colon == TextBunches + 1        \* the tokens that are no numbers
Junk == TextBunches + 2
Token == Number \cup {Colon, Junk}
Texts == UNION {[1 .. n -> Token] : n \in 0 .. MaxTokens}
Kinds == {"none", "disabled", "same", "single", "but_one", "mixed"}

TextTypeOK ==
  /\ wf \in [TextBunch -> TextValues]
  /\ enables \in (SUBSET TextBunch) \cup {None}
  /\ summary.kind \in Kinds /\ summary.at \in TextBunch
  /\ Len(rest) <= Len(text)
  /\ parsed \subseteq TextBunch /\ selection \subseteq TextBunch
  /\ result \in {"summing", "summed", "parsing", "ok", "error"}

NoSummary == [kind |-> "none", value |-> 0, other |-> 0, at |-> 0]

\* Either a waveform or a text is given; all bunches have been selected.
TextInit ==
  /\ summary = NoSummary /\ parsed = {} /\ selection = TextBunch
  /\ \/ /\ wf \in [TextBunch -> TextValues]
        /\ enables \in (SUBSET TextBunch) \cup {None}
        /\ text = <<>> /\ result = "summing"
     \/ /\ wf = [i \in TextBunch |-> CHOOSE v \in TextValues : TRUE]
        /\ enables = None
        /\ text \in Texts /\ result = "parsing"
  /\ rest = text

-----------------------------------------------------------------------------
(* The summary.                                                            *)

Enabled == IF enables = None THEN TextBunch ELSE enables
Least(S) == CHOOSE i \in S : \A j \in S : i <= j
Greatest(S) == CHOOSE i \in S : \A j \in S : i >= j

\* next_enabled_index(): always 0 if there are no enables.
NextEnabled(start) ==
  IF enables = None THEN 0 ELSE Least({i \in enables : i >= start})

\* count_value(): how many have the value, and the last that has not.
Counted(v) == Cardinality({i \in Enabled : wf[i] = v})
LastOther(v) == LET others == {i \in Enabled : wf[i] # v}
                IN  IF others = {} THEN 0 ELSE Greatest(others)

Summary(kind, v, at) ==
  [kind |-> kind, value |-> v, other |-> wf[at], at |-> at]

\* Several values: all but one the same, counted by the first value or, if
\* that is the odd one, by the next.
OneDiffers(v) ==
  LET others == Cardinality(Enabled) - 1
      first == NextEnabled(0)
      next == wf[NextEnabled(first + 1)]
  IN  IF Counted(v) = others THEN Summary("but_one", v, LastOther(v))
      ELSE IF Counted(v) = 1 /\ Counted(next) = others
      THEN Summary("but_one", next, LastOther(next))
      ELSE Summary("mixed", v, 0)

\* assess_complexity()
Complexity ==
  LET first == NextEnabled(0)
      v == wf[first]
  IN  IF Enabled = {} THEN [NoSummary EXCEPT !.kind = "disabled"]
      ELSE IF Counted(v) < Cardinality(Enabled) THEN OneDiffers(v)
      ELSE Summary(IF Counted(v) = 1 THEN "single" ELSE "same", v, first)

\* update_status_core()
UpdateStatus ==
  /\ result = "summing" /\ result' = "summed"
  /\ summary' = Complexity
  /\ UNCHANGED <<wf, enables, text, rest, parsed, selection>>

-----------------------------------------------------------------------------
(* The list.                                                               *)

\* parse_bunch_num(): a number in range at the start of the text.
Num(tokens) == tokens # <<>> /\ Head(tokens) \in TextBunch
ColonNext(tokens) == tokens # <<>> /\ Head(tokens) = Colon
Drop(tokens, n) == SubSeq(tokens, n + 1, Len(tokens))

\* Mutant of SetRange: the end is left out.
SetRangeOpen(start, skip, end) ==
  {i \in TextBunch : i >= start /\ i < end /\ (i - start) % skip = 0}

\* set_range()
SetRange(start, skip, end) ==
  {i \in TextBunch : i >= start /\ i <= end /\ (i - start) % skip = 0}

\* The item at the start of the text: its bunches, its length, or an error.
Item(tokens) ==
  LET good(set, n) == [ok |-> TRUE, set |-> set, length |-> n]
      bad == [ok |-> FALSE, set |-> {}, length |-> 0]
      range(start, skip, end, n) ==
        IF start <= end /\ skip > 0
        THEN good(SetRange(start, skip, end), n) ELSE bad
      third == Drop(tokens, 2)
  IN  IF ~Num(tokens) THEN bad
      ELSE IF ~ColonNext(Tail(tokens)) THEN good({Head(tokens)}, 1)
      ELSE IF ~Num(third) THEN bad
      ELSE IF ~ColonNext(Tail(third)) THEN range(Head(tokens), 1, Head(third), 3)
      ELSE IF ~Num(Drop(third, 2)) THEN bad
      ELSE range(Head(tokens), Head(third), Drop(third, 2)[1], 5)

\* write_bunch_select() rejects the text and leaves the selection alone ...
Reject ==
  /\ result' = "error"
  /\ UNCHANGED <<rest, parsed, selection>>

\* ... or takes it over.
Accept(set) ==
  /\ result' = "ok" /\ selection' = set
  /\ rest' = <<>> /\ parsed' = set

\* parse_bunch_select(): a colon alone, or item after item.
Parse ==
  /\ result = "parsing"
  /\ IF rest = text /\ ColonNext(text)
     THEN IF Len(text) = 1 THEN Accept(TextBunch) ELSE Reject
     ELSE LET item == Item(rest)
              left == Drop(rest, item.length)
          IN  IF ~item.ok THEN Reject
              ELSE IF left = <<>> THEN Accept(parsed \cup item.set)
              ELSE /\ rest' = left /\ parsed' = parsed \cup item.set
                   /\ UNCHANGED <<selection, result>>
  /\ UNCHANGED <<wf, enables, summary, text>>

TextNext == UpdateStatus \/ Parse
TextSpec == TextInit /\ [][TextNext]_textVars

-----------------------------------------------------------------------------
(* Properties.                                                             *)

\* v is the value of all the enabled bunches but the one at i.
AllBut(v, i) ==
  /\ i \in Enabled /\ wf[i] # v /\ Enabled # {i}
  /\ \A j \in Enabled \ {i} : wf[j] = v

SummaryTrue ==
  LET s == summary IN
  /\ s.kind = "disabled" <=> Enabled = {}
  /\ s.kind = "single" <=> Enabled = {s.at}
  /\ s.kind \in {"same", "single"} <=>
       Enabled # {} /\ \A j \in Enabled : wf[j] = s.value
  /\ s.kind = "but_one" <=> AllBut(s.value, s.at) /\ wf[s.at] = s.other
  /\ s.kind = "mixed" => ~\E i \in Enabled, v \in TextValues : AllBut(v, i)

\* The summary of gains and outputs says what the enabled bunches have: one
\* value, one but for one bunch and which, or neither (assess_complexity).
StatusExact == (result = "summed" /\ enables # None) => SummaryTrue

\* What the text means, read as a whole: a number that no colon precedes
\* starts an item, which spans up to three numbers joined by colons.
Start(p) == text[p] \in TextBunch /\ (p = 1 \/ text[p - 1] # Colon)
Span(p, q) ==
  /\ q - p \in {0, 2, 4}
  /\ q = Len(text) \/ text[q + 1] # Colon
  /\ \A k \in p .. q :
       IF (k - p) % 2 = 0 THEN text[k] \in TextBunch ELSE text[k] = Colon
Skip(p, q) == IF q - p = 4 THEN text[p + 2] ELSE 1

WellFormed ==
  /\ text # <<>> /\ text[1] # Colon
  /\ \A p \in DOMAIN text :
       /\ text[p] \in TextBunch \cup {Colon}
       /\ Start(p) => \E q \in p .. Len(text) :
            Span(p, q) /\ text[p] <= text[q] /\ Skip(p, q) > 0

Meant == {i \in TextBunch :
  \E p \in DOMAIN text : Start(p) /\
    \E q \in p .. Len(text), n \in TextBunch :
      Span(p, q) /\ i = text[p] + n * Skip(p, q) /\ i <= text[q]}

\* A text is accepted exactly if it is a list of bunches and ranges, and then
\* it selects those; a text that is rejected, wherever the error is, changes
\* nothing (parse_bunch_select, write_bunch_select).
SelectionExact ==
  result \in {"ok", "error"} =>
    /\ result = "ok" <=> (text = <<Colon>> \/ WellFormed)
    /\ selection = IF WellFormed THEN Meant ELSE TextBunch

\* The two texts of a bunch record, the one it shows and the one it takes, say
\* what the waveforms have (update_status_core, parse_bunch_select).
TextExact == StatusExact /\ SelectionExact

=============================================================================
