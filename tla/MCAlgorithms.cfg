SPECIFICATION Spec
CHECK_DEADLOCK FALSE
CONSTANTS
    NL = NL
    MaxDiffLines = 4
    MaxDiffCells = 20
    Lines = {"x", "y", "z"}
    Chars = {"x", "y", NL}
    Versions <- SmallVersions
    Texts <- SmallTexts
    Names = {"page.html", " page.html", "a", " ", ".git", "notes.md"}
    Hidden = {".git"}
    Assets = {"page.html", " page.html"}
    HTML = {"page.html", " page.html"}
    TrimLeft <- WithoutLeft
    TrimRight <- WithoutRight
    MaxFiles = 2
    MaxBytes = 3
    Trees <- SmallTrees
    Denials <- SomeDenials
    EntryPaths <- Paths
    Roots <- SomeRoots
    PostedEntries <- SomeEntries
    Archives <- SmallArchives
    Bodies <- SomeBodies
    Words = {"page", "a", "x"}
    Flags = {"tag", "db"}
    Values = {"false", "1", "maybe"}
    CommandLines <- SmallCommandLines
    Environments <- SomeEnvironments
INVARIANTS
    DiffsRebuildBothTexts
    DiffsAreMinimal
    DiffsShowEveryChange
    SentSitesArrive
    ExtractionIsBounded
    LinesReadBack
    StartsAsAsked
