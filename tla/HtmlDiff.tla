------------------------------ MODULE HtmlDiff ------------------------------
(***************************************************************************)
(* The line diff between two versions of a document                        *)
(* (src/internal/session/htmldiff.go): SplitLines, DiffLines, Summarize.   *)
(*                                                                         *)
(* A text is a sequence of characters, one of them NL; DiffLines compares  *)
(* sequences of lines, whatever a line is.                                 *)
(***************************************************************************)
EXTENDS Lists

CONSTANTS
    NL,             \* the newline
    MaxDiffLines,   \* 10000 in the code
    MaxDiffCells    \* 10000000 in the code

ASSUME LimitsAssumption == MaxDiffLines \in Nat /\ MaxDiffCells \in Nat

(***************************************************************************)
(* SplitLines: strings.Split at the newlines, less one trailing empty line.*)
(***************************************************************************)
Ends(text) == {0} \cup {k \in DOMAIN text : text[k] = NL} \cup {Len(text) + 1}

Split(text) ==
    LET cuts == Increasing(Ends(text))
    IN  [k \in 1..Cardinality(Ends(text)) - 1 |-> SubSeq(text, cuts[k] + 1, cuts[k + 1] - 1)]

\* A plausible bug: all trailing empty lines are dropped.
SplitLinesTrimmed(text) ==
    LET lines == Split(text)
        last == Max({0} \cup {k \in DOMAIN lines : lines[k] # <<>>})
    IN  SubSeq(lines, 1, last)

SplitLines(text) ==
    LET lines == Split(text)
    IN  IF text = <<>> THEN <<>>
        ELSE IF Last(lines) = <<>> THEN Front(lines) ELSE lines

(***************************************************************************)
(* DiffLines.                                                              *)
(***************************************************************************)
TooLarge(old, new) ==
    \/ Len(old) > MaxDiffLines \/ Len(new) > MaxDiffLines
    \/ (Len(old) + 1) * (Len(new) + 1) > MaxDiffCells

Cells(old, new) == (1..Len(old) + 1) \X (1..Len(new) + 1)

\* dp[<<i, j>>]: the length of the longest common subsequence of old from line
\* i and new from line j.
Table(old, new) ==
    LET dp[c \in Cells(old, new)] ==
            LET i == c[1]
                j == c[2]
            IN  IF i > Len(old) \/ j > Len(new) THEN 0
                ELSE IF old[i] = new[j] THEN dp[<<i + 1, j + 1>>] + 1
                ELSE IF dp[<<i + 1, j>>] >= dp[<<i, j + 1>>] THEN dp[<<i + 1, j>>] ELSE dp[<<i, j + 1>>]
    IN  dp

\* The walk stands at line i of old and line j of new; oldNo is i and newNo is j.
Start == [i |-> 1, j |-> 1, ops |-> <<>>]
Equal(old, at) ==
    [i |-> at.i + 1, j |-> at.j + 1,
     ops |-> Append(at.ops, [kind |-> "equal", text |-> old[at.i], oldNo |-> at.i, newNo |-> at.j])]
Delete(old, at) ==
    [i |-> at.i + 1, j |-> at.j,
     ops |-> Append(at.ops, [kind |-> "delete", text |-> old[at.i], oldNo |-> at.i, newNo |-> 0])]
Add(new, at) ==
    [i |-> at.i, j |-> at.j + 1,
     ops |-> Append(at.ops, [kind |-> "add", text |-> new[at.j], oldNo |-> 0, newNo |-> at.j])]

\* A plausible bug: what is left of the new text is not drained.
AdvanceWithoutTail(old, new, dp, at) ==
    IF at.i <= Len(old) /\ at.j <= Len(new) /\ old[at.i] = new[at.j] THEN Equal(old, at)
    ELSE IF at.i <= Len(old) /\ (at.j > Len(new) \/ dp[<<at.i + 1, at.j>>] >= dp[<<at.i, at.j + 1>>])
        THEN Delete(old, at)
    ELSE IF at.i <= Len(old) THEN Add(new, at)
    ELSE at

\* A plausible bug: the walk deletes first whatever the table says.
AdvanceGreedily(old, new, dp, at) ==
    IF at.i <= Len(old) /\ at.j <= Len(new) /\ old[at.i] = new[at.j] THEN Equal(old, at)
    ELSE IF at.i <= Len(old) THEN Delete(old, at)
    ELSE IF at.j <= Len(new) THEN Add(new, at)
    ELSE at

\* One round of the walk or of the loops that drain what is left, if any.
Advance(old, new, dp, at) ==
    IF at.i <= Len(old) /\ at.j <= Len(new) /\ old[at.i] = new[at.j] THEN Equal(old, at)
    ELSE IF at.i <= Len(old) /\ (at.j > Len(new) \/ dp[<<at.i + 1, at.j>>] >= dp[<<at.i, at.j + 1>>])
        THEN Delete(old, at)
    ELSE IF at.j <= Len(new) THEN Add(new, at)
    ELSE at

\* Each round reads a line at least, so this many are enough.
Walk(old, new) ==
    LET dp == Table(old, new)
        at[n \in 0..Len(old) + Len(new)] == IF n = 0 THEN Start ELSE Advance(old, new, dp, at[n - 1])
    IN  at[Len(old) + Len(new)].ops

DiffLines(old, new) ==
    IF TooLarge(old, new)
        THEN [ops |-> <<[kind |-> "equal", text |-> "[diff skipped]", oldNo |-> 0, newNo |-> 0]>>,
              tooLarge |-> TRUE]
        ELSE [ops |-> Walk(old, new), tooLarge |-> FALSE]

OfKind(ops, kinds) == {k \in DOMAIN ops : ops[k].kind \in kinds}
Summarize(ops) ==
    [added |-> Cardinality(OfKind(ops, {"add"})), removed |-> Cardinality(OfKind(ops, {"delete"}))]

(***************************************************************************)
(* What the diff view promises.                                            *)
(***************************************************************************)
TextOf(ops) == [k \in DOMAIN ops |-> ops[k].text]

(***************************************************************************)
(* Without its additions a diff reads as the old text, without its         *)
(* deletions as the new one, and the line numbers count each side from 1   *)
(* (DiffLines' walk and its two tails).                                    *)
(***************************************************************************)
RebuildsBothTexts(old, new) ==
    LET d == DiffLines(old, new)
        oldSide == Entries(d.ops, OfKind(d.ops, {"equal", "delete"}))
        newSide == Entries(d.ops, OfKind(d.ops, {"equal", "add"}))
    IN  d.tooLarge \/ /\ TextOf(oldSide) = old /\ TextOf(newSide) = new
                      /\ \A k \in DOMAIN oldSide : oldSide[k].oldNo = k
                      /\ \A k \in DOMAIN newSide : newSide[k].newNo = k

\* The longest common subsequence, from its definition.
CommonLength(old, new) ==
    LET of(text) == {Entries(text, S) : S \in SUBSET DOMAIN text}
    IN  Max({Len(s) : s \in of(old) \cap of(new)})

(***************************************************************************)
(* No diff of the two texts changes fewer lines, and the summary counts    *)
(* them (the table, and the choice the walk takes from it).                *)
(***************************************************************************)
ChangesAsLittleAsPossible(old, new) ==
    LET d == DiffLines(old, new)
        common == CommonLength(old, new)
    IN  d.tooLarge \/ Summarize(d.ops) = [added |-> Len(new) - common, removed |-> Len(old) - common]

(***************************************************************************)
(* A diff without additions and deletions is shown only for texts that are *)
(* the same up to one newline at the end (SplitLines before DiffLines).    *)
(***************************************************************************)
ShowsEveryChange(oldText, newText) ==
    LET d == DiffLines(SplitLines(oldText), SplitLines(newText))
    IN  ~d.tooLarge /\ Summarize(d.ops) = [added |-> 0, removed |-> 0] =>
            newText \in {oldText, Append(oldText, NL)} \/ oldText = Append(newText, NL)
=============================================================================
