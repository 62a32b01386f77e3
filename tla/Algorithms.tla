----------------------------- MODULE Algorithms -----------------------------
(***************************************************************************)
(* The pure algorithms, each asked about any one of its inputs.  A state   *)
(* is nothing yet, or one input; each property is about the inputs of its  *)
(* kind.                                                                   *)
(***************************************************************************)
EXTENDS HtmlDiff, SendArchive, CommandLine

CONSTANTS
    Lines,          \* lines to compare
    Chars,          \* characters of a text, NL among them
    Versions,       \* texts as sequences of lines
    Texts,          \* texts as sequences of characters
    Trees,          \* sites to send
    Denials,        \* sets of directories that the client may not list
    EntryPaths,     \* entries of `sth send`
    Roots,          \* roots of `sth send --root`
    PostedEntries,  \* entries as anybody may post them
    Archives,       \* archives as anybody may post them
    Bodies,         \* numbers of bytes of a request
    CommandLines,   \* arguments of `sth start`
    Environments    \* values of its environment variables

ASSUME TextsAssumption == NL \in Chars /\ Versions \subseteq Seq(Lines) /\ Texts \subseteq Seq(Chars)
ASSUME SitesAssumption ==
    /\ Trees \subseteq Sites /\ EntryPaths \subseteq Seq(Names) \ {<<>>} /\ Roots \subseteq Seq(Names)
    /\ Denials \subseteq SUBSET Seq(Names)
    /\ PostedEntries \subseteq RawPaths /\ Archives \subseteq Seq(Archived) /\ Bodies \subseteq Nat
ASSUME CommandLinesAssumption == CommandLines \subseteq Seq(Pieces)

VARIABLE input
Nothing == <<"nothing">>

Init == input = Nothing

Compare == \E old, new \in Versions : input' = <<"lines", old, new>>
CompareTexts == \E old, new \in Texts : input' = <<"texts", old, new>>
SendSite == \E tree \in Trees, denied \in Denials, entry \in EntryPaths, root \in Roots,
               hasRoot, single \in BOOLEAN, body \in Bodies :
                input' = <<"send", tree, denied, entry, hasRoot, root, single, body>>
PostArchive == \E entry \in PostedEntries, archive \in Archives, body \in Bodies :
                input' = <<"post", entry, archive, body>>
StartServer == \E pieces \in CommandLines, env \in Environments : input' = <<"start", pieces, env>>

Next == input = Nothing /\ (Compare \/ CompareTexts \/ SendSite \/ PostArchive \/ StartServer)
Spec == Init /\ [][Next]_input

Of(kind) == input[1] = kind

(***************************************************************************)
(* DiffLines shows both texts completely, with their line numbers.         *)
(***************************************************************************)
DiffsRebuildBothTexts == Of("lines") => RebuildsBothTexts(input[2], input[3])

(***************************************************************************)
(* DiffLines changes no more lines than it must.                           *)
(***************************************************************************)
DiffsAreMinimal == Of("lines") => ChangesAsLittleAsPossible(input[2], input[3])

(***************************************************************************)
(* An empty diff is shown only for texts equal up to one newline at the    *)
(* end (SplitLines).                                                       *)
(***************************************************************************)
DiffsShowEveryChange == Of("texts") => ShowsEveryChange(input[2], input[3])

(***************************************************************************)
(* What `sth send` packs, handleCreateUploadedSession stores, but for      *)
(* names that differ in white space only.                                  *)
(***************************************************************************)
SentSitesArrive ==
    Of("send") => SendsArrive(input[2], input[3], input[4], input[5], input[6], input[7], input[8])

(***************************************************************************)
(* Whatever is posted, extractZIPArchive stays below the session's root    *)
(* and within the limits.                                                  *)
(***************************************************************************)
ExtractionIsBounded == Of("post") => StoredIsBounded(input[2], input[3], input[4])

(***************************************************************************)
(* parseArgs and popBoolFlag read every command line as it was written.    *)
(***************************************************************************)
LinesReadBack == Of("start") => ArgumentsReadBack(input[2])

(***************************************************************************)
(* runStart's posture is the one asked for.                                *)
(***************************************************************************)
StartsAsAsked == Of("start") => PostureIsAsAsked(input[2], input[3])
=============================================================================
