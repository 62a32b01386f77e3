------------------------------ MODULE MCDocViews ------------------------------
(* An instance of DocViews for TLC: two old sessions and one being uploaded. *)
EXTENDS DocViews

CONSTANTS d1, d2, d3, ann, bob, x, y, r1, r2

OldSessions == <<d1, d2>>

\* One project: only the users keep the chains apart.
Forms ==
    [d \in Docs |->
       [user |-> IF d = d2 THEN bob ELSE ann,
        tags |-> {x}, category |-> x, project |-> x,
        text |-> IF d = d2 THEN y ELSE x, zip |-> TRUE]]

Says(words) == {[NoAsk EXCEPT !.word = w] : w \in words}

\* Edits lead from x to y; a search asks for either.
FewAsks ==
    [k \in Kinds |->
       CASE k \in {"add", "categorize", "place", "update"} -> Says({y})
         [] k = "remove" -> Says({x})
         [] k = "search" -> {[a EXCEPT !.page = 2] : a \in Says({x, y})}
         [] k = "list" -> {[NoAsk EXCEPT !.filter.project = c, !.page = 2] : c \in {None, x}}
         [] k = "diff" -> {[NoAsk EXCEPT !.pair = <<1, 2>>]}
         [] OTHER -> {NoAsk}]

\* One edit of the tags and one of a column stand for two of each; a metadata
\* view is the first five statements of a peers view.
Slots == [r \in Requests |-> IF r = r1 THEN Views \ {"metadata"}
                             ELSE {"remove", "place", "delete", "update"}]
===============================================================================
