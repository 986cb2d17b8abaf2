----------------------------- MODULE ShortNames -----------------------------
(***************************************************************************)
(* ShortFileName (filename.rs): the name of a file as a directory entry    *)
(* has it, from the text a caller gives, and the text it is shown as.  A   *)
(* name is BaseLen characters and an extension, padded with blanks; a text *)
(* is a sequence of characters.  "E5" is the character U+00E5, whose byte  *)
(* marks an entry as deleted when it is the first of a name.               *)
(***************************************************************************)
EXTENDS Integers, Sequences, SequencesExt

CONSTANTS
  BaseLen, TotalLen,   \* BASE_LEN and TOTAL_LEN: 8 and 11
  Char,                \* the characters of texts
  InvalidChar,         \* those a short name cannot have
  Upper                \* to_ascii_uppercase, which leaves U+00E5 alone

Period == "."
Blank == " "

ASSUME NameAssumption ==
  /\ {BaseLen, TotalLen} \subseteq Nat /\ 1 < BaseLen /\ BaseLen < TotalLen
  /\ {Period, "E5"} \subseteq Char /\ Blank \in InvalidChar /\ Period \notin InvalidChar
  /\ Upper \in [Char -> Char] /\ \A ch \in Char : Upper[ch] = Period => ch = Period
  /\ \A ch \in Char \ InvalidChar : Upper[ch] \notin InvalidChar /\ Upper[Upper[ch]] = Upper[ch]

NoName == <<>>   \* an Err(FilenameError)

Padded(s) == s \o [i \in 1 .. TotalLen - Len(s) |-> Blank]

\* create_from_str, one character: sfn, idx and seen_dot, or an error.
Room(scan) == IF scan.dot THEN TotalLen ELSE BaseLen

\* Mutant: an extension cannot follow a base of full length.
PeriodInBase(scan) == scan.idx \in 1 .. BaseLen - 1
PeriodAllowed(scan) == scan.idx \in 1 .. BaseLen

TakeChar(scan, ch) ==
  LET may == scan.sfn # NoName /\ ch \notin InvalidChar IN
  CASE may /\ ch = Period /\ PeriodAllowed(scan) -> [scan EXCEPT !.idx = BaseLen, !.dot = TRUE]
    [] may /\ ch # Period /\ scan.idx < Room(scan) ->
         [scan EXCEPT !.sfn[scan.idx + 1] = Upper[ch], !.idx = @ + 1]
    [] OTHER -> [scan EXCEPT !.sfn = NoName]

Scanned(text) ==
  LET after[i \in 0 .. Len(text)] ==
        IF i = 0 THEN [sfn |-> Padded(<<>>), idx |-> 0, dot |-> FALSE]
        ELSE TakeChar(after[i - 1], text[i])
  IN  after[Len(text)]

CreateFromStr(text) ==
  CASE text = <<Period, Period>> -> Padded(text)
    [] text \in {<<>>, <<Period>>} -> Padded(<<Period>>)
    [] OTHER -> Scanned(text).sfn

\* fmt of Display: a period where the extension begins, and no blanks.
Displayed(name) ==
  LET upTo[i \in 0 .. TotalLen] ==
        IF i = 0 THEN <<>>
        ELSE IF name[i] = Blank THEN upTo[i - 1]
        ELSE Append(IF i = BaseLen + 1 THEN Append(upTo[i - 1], Period) ELSE upTo[i - 1], name[i])
  IN  upTo[TotalLen]

-----------------------------------------------------------------------------
(* What a text means *)

\* What a text means: a base, then any periods and an extension, in upper case.
Base(text, b) == SubSeq(text, 1, b)
Gap(text, b, e) == SubSeq(text, b + 1, Len(text) - e)
Ext(text, e) == SubSeq(text, Len(text) - e + 1, Len(text))

IsSplit(text, b, e) ==
  /\ b + e <= Len(text)
  /\ Period \notin ToSet(Base(text, b)) \cup ToSet(Ext(text, e))
  /\ ToSet(Gap(text, b, e)) \subseteq {Period} /\ (Gap(text, b, e) = <<>> => e = 0)

Splits(text) ==
  {s \in (1 .. BaseLen) \X (0 .. TotalLen - BaseLen) : IsSplit(text, s[1], s[2])}

Capital(s) == [i \in DOMAIN s |-> Upper[s[i]]]

Meaning(text) ==
  {SubSeq(Padded(Capital(Base(text, s[1]))), 1, BaseLen)
     \o SubSeq(Padded(Capital(Ext(text, s[2]))), 1, TotalLen - BaseLen) : s \in Splits(text)}

\* CreateFromStr makes of every text without invalid characters the one name it
\* means, so that nothing is cut short, and of what Display shows that name again.
\* For every text up to one character longer than a name with its period.
NamesMeant ==
  \A text \in BoundedSeq(Char, TotalLen + 2) :
    LET name == CreateFromStr(text) IN
    /\ name # NoName => CreateFromStr(Displayed(name)) = name
    /\ text \in {<<>>, <<Period>>, <<Period, Period>>} \/ {name} \ {NoName} =
         IF ToSet(text) \cap InvalidChar = {} THEN Meaning(text) ELSE {}
=============================================================================
