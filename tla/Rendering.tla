------------------------------ MODULE Rendering -------------------------------
(***************************************************************************)
(* From what a template prints to the label that is shown                  *)
(* (src/internal/render/engine.go and width.go): missing values are        *)
(* stripped, control characters blanked, and the rest is cut to the        *)
(* configured width with its outer padding kept.                           *)
(*                                                                         *)
(* A text is a sequence of the graphemes it is displayed as, of the kinds  *)
(* these functions tell apart.  A "missing" is text/template's <no value>. *)
(* "A" and "B" are two regional indicators, and "AB" is the flag they make *)
(* when one follows the other: where graphemes are put next to each other  *)
(* that were not, other ones may be displayed.                             *)
(***************************************************************************)
EXTENDS Integers, Sequences, SequencesExt

CONSTANTS
    Texts,    \* what templates may print
    MaxWidth  \* bound: the widths a configuration may ask for

Cells == [letter |-> 1, wide |-> 2, space |-> 1, control |-> 0, missing |-> 10, ellipsis |-> 1,
          A |-> 2, B |-> 2, AA |-> 2, AB |-> 2, BA |-> 2, BB |-> 2]

\* The indicators that indicators and flags consist of.
First  == [A |-> "A", B |-> "B", AA |-> "A", AB |-> "A", BA |-> "B", BB |-> "B"]
Second == [AA |-> "A", AB |-> "B", BA |-> "A", BB |-> "B"]

Flags      == DOMAIN Second
Indicators == DOMAIN First
Lone       == Indicators \ Flags

Flag(x, y) == CHOOSE flag \in Flags : First[flag] = x /\ Second[flag] = y

\* Grapheme g comes after those displayed: a lone indicator takes the first of
\* g's, whose second is then lone.
Join(displayed, g) ==
    IF displayed # <<>> /\ Last(displayed) \in Lone /\ g \in Indicators
    THEN Front(displayed) \o <<Flag(Last(displayed), First[g])>>
             \o (IF g \in Lone THEN <<>> ELSE <<Second[g]>>)
    ELSE Append(displayed, g)

\* uniseg: how graphemes are displayed, and split again, one after the other.
Segmented(graphemes) == FoldLeft(Join, <<>>, graphemes)

ASSUME ConstantsAssumption ==
    /\ Texts \subseteq Seq(DOMAIN Cells \ {"ellipsis"})
    /\ \A t \in Texts : Segmented(t) = t
    /\ MaxWidth \in Nat

Ellipsis == <<"ellipsis">>
Space    == <<"space">>

DisplayWidth(text) == FoldLeft(LAMBDA width, g : width + Cells[g], 0, text)

-----------------------------------------------------------------------------
(* Cutting.                                                                *)

\* A plausible mistake: stop only after the width is used up.
TakePrefixUntilFull(text, width) ==
    LET n == CHOOSE n \in 0..Len(text) :
                /\ DisplayWidth(SubSeq(text, 1, n)) >= width \/ n = Len(text)
                /\ n = 0 \/ DisplayWidth(SubSeq(text, 1, n - 1)) < width
    IN  SubSeq(text, 1, n)

\* As many graphemes as fit; the first that does not ends it.
TakePrefix(text, width) ==
    LET n == CHOOSE n \in 0..Len(text) :
                /\ n = 0 \/ DisplayWidth(SubSeq(text, 1, n)) <= width
                /\ n = Len(text) \/ DisplayWidth(SubSeq(text, 1, n + 1)) > width
    IN  SubSeq(text, 1, n)

\* A plausible mistake: leave the suffix in the order it was collected in.
TakeSuffixReversed(text, width) == Segmented(TakePrefix(Reverse(text), width))

ReverseGraphemes(collected) == Segmented(Reverse(Segmented(collected)))

\* The suffix is collected from the end, and then split again to be reversed.
TakeSuffix(text, width) == ReverseGraphemes(TakePrefix(Reverse(text), width))

\* What truncate and truncateMiddle do alike; cut is the shortened text.
OrFits(text, width, cut) ==
    IF width <= 0 THEN <<>>
    ELSE IF DisplayWidth(text) <= width THEN text
    ELSE IF width = 1 THEN Ellipsis
    ELSE cut

\* A plausible mistake: count the ellipsis in bytes.
TruncateByBytes(text, width) ==
    OrFits(text, width, TakePrefix(text, width - 3) \o Ellipsis)

Truncate(text, width) ==
    OrFits(text, width, TakePrefix(text, width - 1) \o Ellipsis)

TruncateMiddle(text, width) ==
    OrFits(text, width,
           TakePrefix(text, width \div 2) \o Ellipsis \o TakeSuffix(text, (width - 1) \div 2))

Padded(text) == text # <<>> /\ Head(text) = "space" /\ Last(text) = "space"

\* A plausible mistake: cut the label together with its padding.
CutWithPadding(label, width) ==
    IF width <= 0 THEN label ELSE Truncate(label, width)

ApplyMaxWidth(label, width) ==
    IF width <= 0 \/ DisplayWidth(label) <= width THEN label
    ELSE IF width >= 3 /\ Padded(label)
    THEN Space \o Truncate(SubSeq(label, 2, Len(label) - 1), width - 2) \o Space
    ELSE Truncate(label, width)

-----------------------------------------------------------------------------
(* Cleaning.                                                               *)

Present(text) ==
    FoldLeft(LAMBDA kept, g : IF g = "missing" THEN kept ELSE Append(kept, g), <<>>, text)

StripMissingValues(text) == Segmented(Present(text))

SanitizeControls(text) ==
    [i \in 1..Len(text) |-> IF text[i] = "control" THEN "space" ELSE text[i]]

IsControlOnly(text) == \A i \in 1..Len(text) : text[i] = "control"

\* A plausible mistake: blank the controls but leave missing values in.
OnlySanitized(text) == SanitizeControls(text)

Cleaned(text) == SanitizeControls(StripMissingValues(text))

TrimSpace(text) ==
    LET solid == {i \in DOMAIN text : text[i] # "space"}
    IN  IF solid = {} THEN <<>> ELSE SubSeq(text, Min(solid), Max(solid))

-----------------------------------------------------------------------------
(* One call of the engine, for every text and every width.                 *)

VARIABLES
    text,     \* what the template prints
    width,    \* the configured width, 0 for none
    call,     \* the function called, "none" before
    shown,    \* the label it returns
    refused   \* whether it returns an error instead

vars == <<text, width, call, shown, refused>>

Init ==
    /\ text \in Texts
    /\ width \in 0..MaxWidth
    /\ call = "none"
    /\ shown = <<>>
    /\ refused = FALSE

Call(function) ==
    /\ call = "none"
    /\ call' = function
    /\ UNCHANGED <<text, width>>

Execute ==
    /\ Call("Execute")
    /\ text # <<>> /\ ~IsControlOnly(text)
    /\ shown' = ApplyMaxWidth(Cleaned(text), width)
    /\ UNCHANGED refused

ExecuteRefuses ==
    /\ Call("Execute")
    /\ text = <<>> \/ IsControlOnly(text)
    /\ refused' = TRUE
    /\ UNCHANGED shown

ExecuteSession ==
    /\ Call("ExecuteSession")
    /\ shown' = TrimSpace(ApplyMaxWidth(Cleaned(text), width))
    /\ UNCHANGED refused

\* The template helper, on a value that needs no cleaning.
HelperTruncatesMiddle ==
    /\ text = Cleaned(text)
    /\ Call("truncateMiddle")
    /\ shown' = TruncateMiddle(text, width)
    /\ UNCHANGED refused

Next == Execute \/ ExecuteRefuses \/ ExecuteSession \/ HelperTruncatesMiddle

Spec == Init /\ [][Next]_vars

-----------------------------------------------------------------------------
(* Properties.                                                             *)

(***************************************************************************)
(* README on max_width: a label takes no more cells than configured, wide  *)
(* graphemes at the cut and kept padding included.                         *)
(***************************************************************************)
FitsWidth ==
    call # "none" /\ width > 0 => DisplayWidth(shown) <= width

(***************************************************************************)
(* Cutting never costs more than it must: what is left uses every cell but *)
(* those a wide grapheme at a cut could not use.                           *)
(***************************************************************************)
WastesNoCells ==
    call \in {"Execute", "truncateMiddle"} /\ shown # Cleaned(text) /\ ~refused =>
        DisplayWidth(shown) >= width - (IF call = "Execute" THEN 1 ELSE 2)

(***************************************************************************)
(* The padding of a label survives the cut (comment on applyMaxWidth), so  *)
(* tabs keep their distance whatever their names.                          *)
(***************************************************************************)
KeepsPadding ==
    call = "Execute" /\ ~refused /\ width # 1 /\ width # 2 /\ Padded(Cleaned(text)) =>
        Padded(shown)

(***************************************************************************)
(* truncateMiddle keeps the beginning and the end of the value as they     *)
(* were, unless three or more indicators in a row, an odd number, make the *)
(* value one that reads differently from its end: AB A comes out as BA A.  *)
(***************************************************************************)
ReadsAlike(value) ==
    \A i \in 1..Len(value) - 1 : value[i] \in Flags => value[i + 1] \notin Lone

KeepsBothEnds ==
    call = "truncateMiddle" /\ width > 0 /\ shown # text /\ ReadsAlike(text) =>
        \E i, j \in 0..Len(text) :
            shown = SubSeq(text, 1, i) \o Ellipsis \o SubSeq(text, Len(text) - j + 1, Len(text))

(***************************************************************************)
(* Neither a control character nor <no value> reaches the tab bar (comment *)
(* on stripMissingValues).                                                 *)
(***************************************************************************)
OnlyDisplayable ==
    \A i \in 1..Len(shown) : shown[i] \notin {"control", "missing"}

=============================================================================
