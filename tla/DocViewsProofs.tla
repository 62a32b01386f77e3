--------------------------- MODULE DocViewsProofs ---------------------------
(***************************************************************************)
(* Proofs about DocViews for any number of documents, users and requests:  *)
(* what a view answers while uploads, edits and deletions run between its  *)
(* statements.                                                             *)
(***************************************************************************)
EXTENDS DocViews, ListLemmas

(***************************************************************************)
(* The lists of the views: a clamped page takes the members whose ranks    *)
(* fall on it and is empty only when there are none, and the documents     *)
(* made so far can be counted and told apart by their age.                 *)
(***************************************************************************)
\* Slice takes the members of a list after the first off ones, n at most.
LEMMA SliceTakesRanks ==
    ASSUME NEW T, NEW s \in Seq(T), NEW off \in Nat, NEW n \in Nat
    PROVE  LET t == Slice(s, off, n)
           IN  /\ t \in Seq(T)
               /\ Len(t) = IF off >= Len(s) THEN 0 ELSE IF off + n <= Len(s) THEN n ELSE Len(s) - off
               /\ \A i \in 1..Len(t) : off + i \in 1..Len(s) /\ t[i] = s[off + i]
               /\ ToSet(t) \subseteq ToSet(s)
               /\ off = 0 /\ Len(t) < n => t = s
<1> DEFINE t == Slice(s, off, n)
           last == IF off + n <= Len(s) THEN off + n ELSE Len(s)
<1>1. Len(s) \in Nat /\ last \in Nat /\ last <= Len(s) /\ last <= off + n
  BY DEF last
<1>2. t = SubSeq(s, off + 1, last)
  <2>1. off + n \in Int /\ Len(s) \in Int
    BY <1>1
  <2> QED
    BY <2>1, MinMaxOfTwo DEF Slice
<1>3. \A i \in off + 1..last : s[i] \in T
  BY <1>1, ElementOfSeq
<1> HIDE DEF last
<1>4. /\ t \in Seq(T)
      /\ Len(t) = IF off + 1 <= last THEN last - (off + 1) + 1 ELSE 0
      /\ \A i \in 1..last - (off + 1) + 1 : t[i] = s[off + 1 + i - 1]
  BY <1>1, <1>2, <1>3, SubSeqProperties
<1> HIDE DEF t
<1>5. Len(t) = IF off >= Len(s) THEN 0 ELSE IF off + n <= Len(s) THEN n ELSE Len(s) - off
  BY <1>1, <1>4 DEF last
<1>6. \A i \in 1..Len(t) : off + i \in 1..Len(s) /\ t[i] = s[off + i]
  BY <1>1, <1>4
<1>7. DOMAIN t = 1..Len(t) /\ DOMAIN s = 1..Len(s)
  BY <1>4
<1>8. ToSet(t) \subseteq ToSet(s)
  BY <1>6, <1>7 DEF ToSet
<1>9. ASSUME off = 0, Len(t) < n PROVE t = s
  <2>1. Len(t) = Len(s)
    BY <1>1, <1>5, <1>9
  <2>2. \A i \in 1..Len(t) : t[i] = s[i]
    BY <1>6, <1>9
  <2> QED
    BY <1>4, <2>1, <2>2, SeqEqual
<1> QED
  BY <1>4, <1>5, <1>6, <1>8, <1>9 DEF t

\* The documents made so far are finitely many, and made at different times.
LEMMA AgesDiffer ==
    ASSUME made \in Seq(Docs), IsInjective(made)
    PROVE  /\ IsFiniteSet(ToSet(made)) /\ ToSet(made) \subseteq Docs
           /\ \A d \in ToSet(made) : CreatedAt(d) \in 1..Len(made) /\ made[CreatedAt(d)] = d
           /\ \A i \in 1..Len(made) : CreatedAt(made[i]) = i
<1>1. DOMAIN made = 1..Len(made) /\ Len(made) \in Nat
  OBVIOUS
<1>2. made \in [1..Len(made) -> ToSet(made)] /\ \A d \in ToSet(made) : \E i \in 1..Len(made) : made[i] = d
  BY <1>1 DEF ToSet
<1>3. made \in Surjection(1..Len(made), ToSet(made))
  BY <1>2, Fun_IsSurj
<1>4. IsFiniteSet(1..Len(made))
  BY <1>1, FS_Interval
<1>5. IsFiniteSet(ToSet(made))
  BY <1>3, <1>4, FS_Surjection
<1>6. ToSet(made) \subseteq Docs
  BY <1>1 DEF ToSet
<1>7. ASSUME NEW d \in ToSet(made) PROVE CreatedAt(d) \in 1..Len(made) /\ made[CreatedAt(d)] = d
  <2>1. \E i \in DOMAIN made : made[i] = d
    BY <1>1, <1>2
  <2> QED
    BY <1>1, <2>1 DEF CreatedAt
<1>8. ASSUME NEW i \in 1..Len(made) PROVE CreatedAt(made[i]) = i
  <2>1. made[i] \in ToSet(made)
    BY <1>1 DEF ToSet
  <2>2. CreatedAt(made[i]) \in 1..Len(made) /\ made[CreatedAt(made[i])] = made[i]
    BY <1>7, <2>1
  <2> QED
    BY <1>1, <2>2 DEF IsInjective
<1> QED
  BY <1>5, <1>6, <1>7, <1>8

\* Newest lists each document of a set once, and before it those made later.
LEMMA NewestFirst ==
    ASSUME made \in Seq(Docs), IsInjective(made), NEW S \in SUBSET ToSet(made)
    PROVE  LET o == Newest(S)
           IN  /\ IsFiniteSet(S) /\ Cardinality(S) \in Nat
               /\ o \in Seq(S) /\ o \in Seq(Docs) /\ Len(o) = Cardinality(S) /\ DOMAIN o = 1..Cardinality(S)
               /\ ToSet(o) = S
               /\ IsInjective(o)
               /\ \A i \in DOMAIN o : Cardinality({e \in S : CreatedAt(e) > CreatedAt(o[i])}) = i - 1
<1> DEFINE key == [d \in S |-> -CreatedAt(d)]
           o == Ordered(S, key)
<1>1. IsFiniteSet(S) /\ S \subseteq Docs
  BY AgesDiffer, FS_Subset
<1>2. \A d \in S : CreatedAt(d) \in Nat /\ made[CreatedAt(d)] = d
  BY AgesDiffer
<1>3. IsKey(S, key)
  BY <1>2 DEF IsKey
<1>4. /\ Cardinality(S) \in Nat
      /\ o \in Seq(S) /\ Len(o) = Cardinality(S) /\ DOMAIN o = 1..Cardinality(S)
      /\ ToSet(o) = S
      /\ IsInjective(o)
      /\ \A i \in DOMAIN o : Cardinality(Below(S, key, o[i])) = i - 1
  BY <1>1, <1>3, OrderedBySmallerKeys
<1>5. \A d \in S : Below(S, key, d) = {e \in S : CreatedAt(e) > CreatedAt(d)}
  BY <1>2 DEF Below
<1>6. o = Newest(S)
  BY DEF Newest
<1> HIDE DEF o, key
<1>7. \A i \in DOMAIN o : o[i] \in S
  BY <1>4
<1>8. o \in Seq(Docs)
  BY <1>1, <1>4
<1> QED
  BY <1>1, <1>4, <1>5, <1>6, <1>7, <1>8

\* The page shown is a page, and begins before the end of what there is to show.
LEMMA PageNumbers ==
    ASSUME NEW page \in Nat \ {0}, NEW total \in Nat
    PROVE  /\ ClampedPage(page, total) \in Nat \ {0}
           /\ (page - 1) * PageSize \in Nat
           /\ total # 0 => (ClampedPage(page, total) - 1) * PageSize < total
<1>1. PageSize \in Nat \ {0}
  BY SizesAssumption
<1> DEFINE a == total + PageSize - 1
           m == a \div PageSize
<1>2. a \in Nat
  BY <1>1
<1>3. m \in Nat
  <2> HIDE DEF a
  <2> QED
    BY <1>1, <1>2
<1>4. m * PageSize <= a
  <2> HIDE DEF a
  <2> QED
    BY <1>1, <1>2, <1>3, QuotientAndRemainder
<1>5. \A i \in Nat : i <= m => i * PageSize <= m * PageSize
  <2> HIDE DEF m
  <2> QED
    BY <1>1, <1>3
<1> DEFINE k == Max({1, m})
<1> HIDE DEF m
<1>6. k = IF 1 >= m THEN 1 ELSE m
  BY <1>3, MinMaxOfTwo
<1>7. k \in Int /\ k >= 1
  BY <1>3, <1>6
<1> HIDE DEF k
<1> DEFINE c == Min({page, k})
<1>8. c = IF page <= k THEN page ELSE k
  BY <1>7, MinMaxOfTwo
<1> HIDE DEF c
<1>9. c \in Nat \ {0} /\ (c = 1 \/ c <= m)
  BY <1>3, <1>6, <1>7, <1>8
<1>10. c = ClampedPage(page, total)
  BY DEF ClampedPage, m, k, c, a
<1>11. (page - 1) * PageSize \in Nat
  BY <1>1
<1>12. ASSUME total # 0 PROVE (c - 1) * PageSize < total
  <2>1. (c - 1) * PageSize = c * PageSize - PageSize
    BY <1>1, <1>9
  <2>2. CASE c = 1
    BY <1>1, <1>12, <2>2
  <2>3. CASE c <= m
    <3> DEFINE cp == c * PageSize
               mp == m * PageSize
    <3>1. cp <= mp /\ cp \in Int /\ mp \in Int /\ mp <= total + PageSize - 1
      BY <1>1, <1>3, <1>4, <1>5, <1>9, <2>3
    <3>2. (c - 1) * PageSize = cp - PageSize
      BY <2>1
    <3> HIDE DEF cp, mp
    <3> QED
      BY <1>1, <3>1, <3>2
  <2> QED
    BY <1>9, <2>2, <2>3
<1> QED
  BY <1>9, <1>10, <1>11, <1>12

\* The members that a page takes.
Takes(s, off, t) ==
    /\ Len(t) = IF off >= Len(s) THEN 0 ELSE IF off + PageSize <= Len(s) THEN PageSize ELSE Len(s) - off
    /\ \A i \in 1..Len(t) : off + i \in 1..Len(s) /\ t[i] = s[off + i]

LEMMA SliceTakes ==
    ASSUME NEW T, NEW s \in Seq(T), NEW off \in Nat, PageSize \in Nat
    PROVE  Slice(s, off, PageSize) \in Seq(T) /\ Takes(s, off, Slice(s, off, PageSize))
<1> DEFINE t == Slice(s, off, PageSize)
<1>1. /\ t \in Seq(T)
      /\ Len(t) = IF off >= Len(s) THEN 0 ELSE IF off + PageSize <= Len(s) THEN PageSize ELSE Len(s) - off
      /\ \A i \in 1..Len(t) : off + i \in 1..Len(s) /\ t[i] = s[off + i]
  BY SliceTakesRanks, ZenonT(40)
<1> QED
  BY <1>1 DEF Takes

LEMMA PageTakes ==
    ASSUME NEW T, NEW s \in Seq(T), NEW page \in Nat \ {0}
    PROVE  PageOf(s, page) \in Seq(T) /\ Takes(s, (page - 1) * PageSize, PageOf(s, page))
<1>1. PageSize \in Nat /\ (page - 1) * PageSize \in Nat
  BY PageNumbers, SizesAssumption
<1> DEFINE off == (page - 1) * PageSize
<1> HIDE DEF off
<1>2. off \in Nat
  BY <1>1 DEF off
<1>3. Slice(s, off, PageSize) \in Seq(T) /\ Takes(s, off, Slice(s, off, PageSize))
  BY <1>1, <1>2, SliceTakes
<1> QED
  BY <1>3 DEF PageOf, off

\* rank gives the place in a list, from 0.
Ranks(s, rank) == \A i \in 1..Len(s) : rank[s[i]] = i - 1

\* The clamped page of a list shows the members whose place in it falls on that
\* page, in order, and shows some unless there are none.
LEMMA PageShowsItsRanks ==
    ASSUME NEW T, NEW s \in Seq(T), NEW rank, Ranks(s, rank), NEW asked \in Nat \ {0}
    PROVE  LET page == ClampedPage(asked, Len(s))
               found == PageOf(s, page)
           IN  /\ ToSet(found) = {d \in ToSet(s) : rank[d] \div PageSize = page - 1}
               /\ \A i \in DOMAIN found : rank[found[i]] % PageSize = i - 1
               /\ found = <<>> => ToSet(s) = {}
<1> DEFINE n == Len(s)
           page == ClampedPage(asked, n)
           k == page - 1
           off == k * PageSize
           found == PageOf(s, page)
<1>1. PageSize \in Nat \ {0} /\ n \in Nat /\ DOMAIN s = 1..n
  BY SizesAssumption
<1>2. page \in Nat \ {0} /\ off \in Nat /\ (n # 0 => off < n)
  BY <1>1, PageNumbers
<1>3. k \in Nat
  BY <1>2
<1>4. /\ found \in Seq(T)
      /\ Len(found) = IF off >= n THEN 0 ELSE IF off + PageSize <= n THEN PageSize ELSE n - off
      /\ \A i \in 1..Len(found) : off + i \in 1..n /\ found[i] = s[off + i]
  <2>1. found \in Seq(T) /\ Takes(s, off, found)
    BY <1>2, PageTakes
  <2> HIDE DEF off, found
  <2> QED
    BY <2>1 DEF Takes
<1> DEFINE len == Len(found)
<1>5. len \in Nat /\ DOMAIN found = 1..len
  BY <1>4
<1> HIDE DEF page, k, off, found, n
<1>6. len = IF off >= n THEN 0 ELSE IF off + PageSize <= n THEN PageSize ELSE n - off
  BY <1>4
<1>7. \A i \in 1..len : off + i \in 1..n /\ found[i] = s[off + i]
  BY <1>4
<1> HIDE DEF len
<1>8. \A a \in Nat : /\ a \div PageSize = k <=> off <= a /\ a < off + PageSize
                     /\ a \div PageSize = k => a % PageSize = a - off
  <2>1. SUFFICES ASSUME NEW a \in Nat
                 PROVE  /\ a \div PageSize = k <=> off <= a /\ a < off + PageSize
                        /\ a \div PageSize = k => a % PageSize = a - off
    OBVIOUS
  <2>2. /\ a \div PageSize = k <=> k * PageSize <= a /\ a < k * PageSize + PageSize
        /\ a \div PageSize = k => a % PageSize = a - k * PageSize
    BY <1>1, <1>3, QuotientAndRemainder
  <2> QED
    BY <2>2 DEF off
<1>9. ASSUME NEW i \in 1..len
      PROVE  /\ found[i] \in ToSet(s) /\ rank[found[i]] \div PageSize = k
             /\ rank[found[i]] % PageSize = i - 1
  <2>1. off + i \in 1..n /\ found[i] = s[off + i] /\ i <= PageSize /\ i \in Nat \ {0}
    BY <1>1, <1>2, <1>5, <1>6, <1>7
  <2>2. rank[found[i]] = off + i - 1
    <3>1. off + i \in 1..Len(s) /\ off \in Nat
      BY <1>2, <2>1 DEF n
    <3>2. rank[s[off + i]] = (off + i) - 1
      BY <3>1 DEF Ranks
    <3> QED
      BY <2>1, <3>1, <3>2
  <2>3. off + i - 1 \in Nat /\ off <= off + i - 1 /\ off + i - 1 < off + PageSize /\ (off + i - 1) - off = i - 1
    BY <1>1, <1>2, <2>1
  <2>4. (off + i - 1) \div PageSize = k /\ (off + i - 1) % PageSize = (off + i - 1) - off
    BY <1>8, <2>3
  <2>5. found[i] \in ToSet(s)
    BY <1>1, <2>1 DEF ToSet
  <2> QED
    BY <2>2, <2>3, <2>4, <2>5
<1>10. ASSUME NEW d \in ToSet(s), rank[d] \div PageSize = k PROVE d \in ToSet(found)
  <2>1. PICK j \in 1..n : s[j] = d
    BY <1>1 DEF ToSet
  <2>2. rank[d] = j - 1 /\ j - 1 \in Nat
    BY <1>1, <2>1 DEF n, Ranks
  <2>3. off <= j - 1 /\ j - 1 < off + PageSize
    BY <1>8, <1>10, <2>2
  <2>4. j - off \in 1..len /\ off + (j - off) = j
    BY <1>1, <1>2, <1>6, <2>1, <2>3
  <2>5. found[j - off] = d
    BY <1>7, <2>1, <2>4
  <2> QED
    BY <1>5, <2>4, <2>5 DEF ToSet
<1>11. ToSet(found) = {d \in ToSet(s) : rank[d] \div PageSize = k}
  <2>1. \A d \in ToSet(found) : \E i \in 1..len : found[i] = d
    BY <1>5 DEF ToSet
  <2> QED
    BY <1>9, <1>10, <2>1
<1>12. ASSUME found = <<>> PROVE ToSet(s) = {}
  <2>1. len = 0
    BY <1>12 DEF len
  <2>2. n = 0
    BY <1>1, <1>2, <1>6, <2>1
  <2> QED
    BY <1>1, <2>2 DEF ToSet
<1> QED
  BY <1>5, <1>9, <1>11, <1>12 DEF found, page, n, k

(***************************************************************************)
(* Statements in order.                                                    *)
(***************************************************************************)
Before(k, n, s) == \E i \in 1..n - 1 : Statements(k)[i] = s
Passed(q, s) == Before(q.kind, q.next, s)

(***************************************************************************)
(* What holds of the documents: an upload has got as far as its row shows, *)
(* and the live versions of a chain have different numbers.                *)
(***************************************************************************)
RowFollowsUpload(d) ==
    /\ posted[d] >= 2 <=> Here(d)
    /\ row[d].owner = IF auth /\ posted[d] > 2 THEN Form[d].user ELSE Nobody
    /\ row[d].chain # None => posted[d] = Len(Upload) + 1 /\ row[d].chain = ChainKey(d, auth)

VersionsDiffer ==
    \A d, e \in Docs :
        Live(d) /\ Live(e) /\ row[d].chain # None /\ row[d].chain = row[e].chain /\ row[d].no = row[e].no
            => d = e

(***************************************************************************)
(* What a request's statements have established, whatever happens to the   *)
(* documents in between.                                                   *)
(***************************************************************************)
Named(q) == ToSet(q.found) \cup ToSet(q.others) \cup {q.versions[i].doc : i \in DOMAIN q.versions}

Flow(q) ==
    /\ q.next \in 1..Len(Statements(q.kind)) + 1
    /\ q.status = "busy" => q.next <= Len(Statements(q.kind))
    /\ q.status = "done" => q.next = Len(Statements(q.kind)) + 1 \/ (q.kind = "chain" /\ q.next = 6)
    /\ q.uid \in Callers /\ q.ask \in Asks[q.kind]
    /\ q.kind \notin Home => q.doc \in Docs
    /\ Passed(q, "session") => Here(q.doc)
    /\ Passed(q, "owner") /\ q.uid # Nobody => Here(q.doc) /\ row[q.doc].owner = q.uid
    /\ Passed(q, "row") => row[q.doc].chain # None
    /\ Passed(q, "versions") /\ q.kind = "diff" => Len(q.found) = 2
    /\ \A d \in Named(q) : Here(d)

Flows == \A r \in Requests : req[r].status # "off" => Flow(req[r])
IInv == TypeOK /\ (\A d \in Docs : RowFollowsUpload(d)) /\ VersionsDiffer /\ Flows

(***************************************************************************)
(* What a request has read is still so, but for the touched documents.     *)
(***************************************************************************)
NamedAreOwn(q) ==
    q.kind \in Views => \A d \in Named(q) :
        /\ q.uid # Nobody => row[d].owner = q.uid
        /\ row[d].deleted => d \in q.touched

EditsHold(q) ==
    q.kind \notin Home /\ q.doc \notin q.touched =>
        /\ q.kind \in Edits /\ Passed(q, "write") => row[q.doc] = Edited(row[q.doc], q.kind, q.ask.word)
        /\ \A part \in MetaParts : Passed(q, part) => q.meta[part] = row[q.doc][part]

\* The text of a side: its file's, or none if that could not be read.
FileText(q, i) == IF q.found[i] \in q.unread THEN None ELSE row[q.found[i]].text

SidesHold(q) ==
    q.kind = "diff" =>
        /\ Len(q.texts) = IF q.next <= 8 THEN 0 ELSE q.next - 8
        /\ ~Passed(q, "versions") => q.unread = {}
        /\ Passed(q, "versions") =>
              /\ q.found[1] # q.found[2]
              /\ \A i \in 1..2 : /\ row[q.found[i]].chain = row[q.doc].chain
                                 /\ row[q.found[i]].no = q.ask.pair[i]
              /\ q.unread \subseteq {q.found[i] : i \in DOMAIN q.texts}
              /\ \A i \in DOMAIN q.texts : q.found[i] \notin q.touched => q.texts[i] = FileText(q, i)

PeersHold(r, part) ==
    LET q == req[r]
        peers == IF part = "category" THEN q.found ELSE q.others
        alike(d) == row[d][part] = q.meta[part] /\ d # q.doc
    IN  /\ \A d \in ToSet(peers) \ q.touched : alike(d)
        /\ Len(peers) <= PeerLimit
        /\ q.meta[part] # None /\ Len(peers) < PeerLimit =>
              {d \in Scope(r) : alike(d)} \subseteq ToSet(peers) \cup q.touched

By(part) == IF part = "category" THEN "byCategory" ELSE "byProject"
AllPeersHold(r) ==
    req[r].kind = "peers" =>
        \A part \in {"category", "project"} : Passed(req[r], By(part)) => PeersHold(r, part)

SearchHolds(r) ==
    LET q == req[r]
    IN  q.kind = "search" =>
        /\ Passed(q, "search") /\ ~Passed(q, "grep") =>
              IsInjective(q.found) /\ MetaMatches(r) \subseteq ToSet(q.found) \cup q.touched
        /\ Passed(q, "list") /\ ~Passed(q, "grep") => Filtered(r) \subseteq ToSet(q.others) \cup q.touched
        /\ Passed(q, "grep") =>
              /\ IsInjective(q.others)
              /\ Filtered(r) \cap (MetaMatches(r) \cup (FileMatches(r) \ q.unread))
                   \subseteq ToSet(q.others) \cup q.touched

VersionsHold(q) ==
    q.kind = "chain" =>
        /\ q.next = 6 /\ q.status = "done" =>
              /\ Len(q.versions) = 1 /\ q.versions[1].doc = q.doc
              /\ row[q.doc].chain # None => q.touched # {}
        /\ Passed(q, "versions") =>
              /\ \E i \in DOMAIN q.versions : q.versions[i].doc = q.doc
              /\ \A i, j \in DOMAIN q.versions : i < j =>
                    q.versions[i].no < q.versions[j].no /\ q.versions[i].doc # q.versions[j].doc
              /\ q.touched = {} => q.versions = ChainVersions(q.doc)
        /\ Passed(q, "diffs") /\ q.touched = {} =>
              /\ Len(q.diffs) = Len(q.versions)
              /\ \A i \in DOMAIN q.versions :
                    q.diffs[i] = DiffVersions(IF i = 1 THEN [no |-> 0, meta |-> NoMeta] ELSE q.versions[i - 1],
                                              q.versions[i])

FoundByFile(r) == (Filtered(r) \ MetaMatches(r)) \cap FileMatches(r)
FoundByMeta(r) == Newest(MetaMatches(r)) \o Newest(FoundByFile(r) \ req[r].unread)
ListHolds(r) ==
    LET q == req[r]
    IN  q.kind = "list" =>
        /\ ~Passed(q, "count") => q.page = q.ask.page
        /\ Passed(q, "count") => q.page = ClampedPage(q.ask.page, q.total)
        /\ q.touched = {} /\ Passed(q, "count") => q.total = Cardinality(Filtered(r))
        /\ q.touched = {} /\ Passed(q, "page") => q.found = PageOf(Newest(Filtered(r)), q.page)

FoundHolds(r) ==
    LET q == req[r]
    IN  q.kind = "search" =>
        /\ ~Passed(q, "grep") => q.page = q.ask.page
        /\ q.touched = {} /\ Passed(q, "search") /\ ~Passed(q, "grep") => q.found = Newest(MetaMatches(r))
        /\ q.touched = {} /\ Passed(q, "list") /\ ~Passed(q, "grep") => q.others = Newest(Filtered(r))
        /\ q.touched = {} /\ Passed(q, "grep") =>
              /\ q.total = Len(FoundByMeta(r))
              /\ q.page = ClampedPage(q.ask.page, q.total) /\ q.found = PageOf(FoundByMeta(r), q.page)
(***************************************************************************)
(* Lemmas about the order of the statements.                               *)
(***************************************************************************)

\* The statements of each kind, one by one.
LEMMA Table ==
    ASSUME NEW k
    PROVE  /\ k \in Edits => Statements(k) = <<"owner", "session", "write", "tags", "category", "project">>
           /\ k = "delete" => Statements(k) = <<"owner", "write">>
           /\ k = "update" => Statements(k) = <<"session", "owner", "write">>
           /\ k = "list" => Statements(k) = <<"count", "page">>
           /\ k = "search" => Statements(k) = <<"search", "list", "grep">>
           /\ k = "metadata" => Statements(k) = <<"session", "owner", "tags", "category", "project">>
           /\ k = "peers" => Statements(k) = <<"session", "owner", "tags", "category", "project",
                                               "byCategory", "byProject">>
           /\ k = "chain" => Statements(k) = <<"session", "owner", "tags", "category", "project",
                                               "row", "versions", "diffs">>
           /\ k = "diff" => Statements(k) = <<"session", "owner", "tags", "category", "project",
                                              "row", "versions", "from", "to">>
<1>1. CASE k \in Edits
  BY <1>1 DEF Statements, Edits
<1>2. CASE k = "delete"
  BY <1>2 DEF Statements, Edits
<1>3. CASE k = "update"
  BY <1>3 DEF Statements, Edits
<1>4. CASE k = "list"
  BY <1>4 DEF Statements, Edits
<1>5. CASE k = "search"
  BY <1>5 DEF Statements, Edits
<1>6. CASE k = "metadata"
  BY <1>6 DEF Statements, Edits
<1>7. CASE k = "peers"
  BY <1>7 DEF Statements, Edits
<1>8. CASE k = "chain"
  BY <1>8 DEF Statements, Edits
<1>9. CASE k = "diff"
  BY <1>9 DEF Statements, Edits
<1>10. CASE k \notin Edits \cup {"delete", "update", "list", "search", "metadata", "peers", "chain", "diff"}
  BY <1>10 DEF Edits
<1> QED
  BY <1>1, <1>2, <1>3, <1>4, <1>5, <1>6, <1>7, <1>8, <1>9, <1>10

\* Every handler has a first statement.
LEMMA SomeStatements ==
    ASSUME NEW k \in Kinds
    PROVE  /\ Len(Statements(k)) \in Nat \ {0}
           /\ k = "chain" => Len(Statements(k)) = 8
           /\ k = "diff" => Len(Statements(k)) = 9
<1>1. CASE k \in Edits
  BY <1>1, Table DEF Edits
<1>2. CASE k = "delete"
  BY <1>2, Table DEF Edits
<1>3. CASE k = "update"
  BY <1>3, Table DEF Edits
<1>4. CASE k = "list"
  BY <1>4, Table DEF Edits
<1>5. CASE k = "search"
  BY <1>5, Table DEF Edits
<1>6. CASE k = "metadata"
  BY <1>6, Table DEF Edits
<1>7. CASE k = "peers"
  BY <1>7, Table DEF Edits
<1>8. CASE k = "chain"
  BY <1>8, Table DEF Edits
<1>9. CASE k = "diff"
  BY <1>9, Table DEF Edits
<1> QED
  BY <1>1, <1>2, <1>3, <1>4, <1>5, <1>6, <1>7, <1>8, <1>9 DEF Kinds, Views, Edits

\* Whose statement a statement is, and at which place it stands.
LEMMA Places ==
    ASSUME NEW k \in Kinds, NEW n \in 1..Len(Statements(k)), NEW s, s = Statements(k)[n]
    PROVE  /\ s = "session" => k \notin Home \cup {"delete"} /\ n = IF k \in Edits THEN 2 ELSE 1
           /\ s = "owner" => k \notin Home /\ n = IF k \in Edits \cup {"delete"} THEN 1 ELSE 2
           /\ s = "write" => k \in Writing /\ n = IF k = "delete" THEN 2 ELSE 3
           /\ s \in MetaParts => /\ k \in Edits \cup {"metadata", "peers", "chain", "diff"}
                                 /\ n = CASE s = "tags" -> IF k \in Edits THEN 4 ELSE 3
                                          [] s = "category" -> IF k \in Edits THEN 5 ELSE 4
                                          [] s = "project" -> IF k \in Edits THEN 6 ELSE 5
           /\ s = "count" => k = "list" /\ n = 1
           /\ s = "page" => k = "list" /\ n = 2
           /\ s = "search" => k = "search" /\ n = 1
           /\ s = "list" => k = "search" /\ n = 2
           /\ s = "grep" => k = "search" /\ n = 3
           /\ s = "byCategory" => k = "peers" /\ n = 6
           /\ s = "byProject" => k = "peers" /\ n = 7
           /\ s = "row" => k \in {"chain", "diff"} /\ n = 6
           /\ s = "versions" => k \in {"chain", "diff"} /\ n = 7
           /\ s = "diffs" => k = "chain" /\ n = 8
           /\ s = "from" => k = "diff" /\ n = 8
           /\ s = "to" => k = "diff" /\ n = 9
<1>1. CASE k \in Edits
  <2>1. Statements(k) = <<"owner", "session", "write", "tags", "category", "project">>
    BY <1>1, Table
  <2>2. Len(Statements(k)) = 6
    BY <2>1
  <2> QED
    BY <1>1, <2>1, <2>2 DEF MetaParts, Home, Writing, Edits
<1>2. CASE k = "delete"
  <2>1. Statements(k) = <<"owner", "write">>
    BY <1>2, Table
  <2>2. Len(Statements(k)) = 2
    BY <2>1
  <2> QED
    BY <1>2, <2>1, <2>2 DEF MetaParts, Home, Writing, Edits
<1>3. CASE k = "update"
  <2>1. Statements(k) = <<"session", "owner", "write">>
    BY <1>3, Table
  <2>2. Len(Statements(k)) = 3
    BY <2>1
  <2> QED
    BY <1>3, <2>1, <2>2 DEF MetaParts, Home, Writing, Edits
<1>4. CASE k = "list"
  <2>1. Statements(k) = <<"count", "page">>
    BY <1>4, Table
  <2>2. Len(Statements(k)) = 2
    BY <2>1
  <2> QED
    BY <1>4, <2>1, <2>2 DEF MetaParts, Home, Writing, Edits
<1>5. CASE k = "search"
  <2>1. Statements(k) = <<"search", "list", "grep">>
    BY <1>5, Table
  <2>2. Len(Statements(k)) = 3
    BY <2>1
  <2> QED
    BY <1>5, <2>1, <2>2 DEF MetaParts, Home, Writing, Edits
<1>6. CASE k = "metadata"
  <2>1. Statements(k) = <<"session", "owner", "tags", "category", "project">>
    BY <1>6, Table
  <2>2. Len(Statements(k)) = 5
    BY <2>1
  <2> QED
    BY <1>6, <2>1, <2>2 DEF MetaParts, Home, Writing, Edits
<1>7. CASE k = "peers"
  <2>1. Statements(k) = <<"session", "owner", "tags", "category", "project", "byCategory", "byProject">>
    BY <1>7, Table
  <2>2. Len(Statements(k)) = 7
    BY <2>1
  <2> QED
    BY <1>7, <2>1, <2>2 DEF MetaParts, Home, Writing, Edits
<1>8. CASE k = "chain"
  <2>1. Statements(k) = <<"session", "owner", "tags", "category", "project", "row", "versions", "diffs">>
    BY <1>8, Table
  <2>2. Len(Statements(k)) = 8
    BY <2>1
  <2> QED
    BY <1>8, <2>1, <2>2 DEF MetaParts, Home, Writing, Edits
<1>9. CASE k = "diff"
  <2>1. Statements(k) = <<"session", "owner", "tags", "category", "project", "row", "versions", "from", "to">>
    BY <1>9, Table
  <2>2. Len(Statements(k)) = 9
    BY <2>1
  <2> QED
    BY <1>9, <2>1, <2>2 DEF MetaParts, Home, Writing, Edits
<1> QED
  BY <1>1, <1>2, <1>3, <1>4, <1>5, <1>6, <1>7, <1>8, <1>9 DEF Kinds, Views, Edits

\* What comes before a place in each kind of request.
LEMMA Order ==
    ASSUME NEW k \in Kinds, NEW n \in 1..Len(Statements(k)) + 1
    PROVE  /\ k \in Edits => /\ Before(k, n, "owner") <=> n > 1
                             /\ Before(k, n, "session") <=> n > 2
                             /\ Before(k, n, "write") <=> n > 3
                             /\ Before(k, n, "tags") <=> n > 4
                             /\ Before(k, n, "category") <=> n > 5
                             /\ Before(k, n, "project") <=> n > 6
           /\ k = "delete" => (Before(k, n, "owner") <=> n > 1)
           /\ k \in {"update", "metadata", "peers", "chain", "diff"} =>
                             /\ Before(k, n, "session") <=> n > 1
                             /\ Before(k, n, "owner") <=> n > 2
           /\ k \in {"metadata", "peers", "chain", "diff"} =>
                             /\ Before(k, n, "tags") <=> n > 3
                             /\ Before(k, n, "category") <=> n > 4
                             /\ Before(k, n, "project") <=> n > 5
           /\ k = "list" => (Before(k, n, "count") <=> n > 1) /\ (Before(k, n, "page") <=> n > 2)
           /\ k = "search" => /\ Before(k, n, "search") <=> n > 1
                              /\ Before(k, n, "list") <=> n > 2
                              /\ Before(k, n, "grep") <=> n > 3
           /\ k = "peers" => (Before(k, n, "byCategory") <=> n > 6) /\ (Before(k, n, "byProject") <=> n > 7)
           /\ k \in {"chain", "diff"} => (Before(k, n, "row") <=> n > 6) /\ (Before(k, n, "versions") <=> n > 7)
           /\ k = "chain" => (Before(k, n, "diffs") <=> n > 8)
           /\ k = "diff" => (Before(k, n, "from") <=> n > 8) /\ (Before(k, n, "to") <=> n > 9)
<1>1. CASE k \in Edits
  <2>1. Statements(k) = <<"owner", "session", "write", "tags", "category", "project">>
    BY <1>1, Table
  <2>2. Len(Statements(k)) = 6
    BY <2>1
  <2> QED
    BY <1>1, <2>1, <2>2 DEF Before, Edits
<1>2. CASE k = "delete"
  <2>1. Statements(k) = <<"owner", "write">>
    BY <1>2, Table
  <2>2. Len(Statements(k)) = 2
    BY <2>1
  <2> QED
    BY <1>2, <2>1, <2>2 DEF Before, Edits
<1>3. CASE k = "update"
  <2>1. Statements(k) = <<"session", "owner", "write">>
    BY <1>3, Table
  <2>2. Len(Statements(k)) = 3
    BY <2>1
  <2> QED
    BY <1>3, <2>1, <2>2 DEF Before, Edits
<1>4. CASE k = "list"
  <2>1. Statements(k) = <<"count", "page">>
    BY <1>4, Table
  <2>2. Len(Statements(k)) = 2
    BY <2>1
  <2> QED
    BY <1>4, <2>1, <2>2 DEF Before, Edits
<1>5. CASE k = "search"
  <2>1. Statements(k) = <<"search", "list", "grep">>
    BY <1>5, Table
  <2>2. Len(Statements(k)) = 3
    BY <2>1
  <2> QED
    BY <1>5, <2>1, <2>2 DEF Before, Edits
<1>6. CASE k = "metadata"
  <2>1. Statements(k) = <<"session", "owner", "tags", "category", "project">>
    BY <1>6, Table
  <2>2. Len(Statements(k)) = 5
    BY <2>1
  <2> QED
    BY <1>6, <2>1, <2>2 DEF Before, Edits
<1>7. CASE k = "peers"
  <2>1. Statements(k) = <<"session", "owner", "tags", "category", "project", "byCategory", "byProject">>
    BY <1>7, Table
  <2>2. Len(Statements(k)) = 7
    BY <2>1
  <2> QED
    BY <1>7, <2>1, <2>2 DEF Before, Edits
<1>8. CASE k = "chain"
  <2>1. Statements(k) = <<"session", "owner", "tags", "category", "project", "row", "versions", "diffs">>
    BY <1>8, Table
  <2>2. Len(Statements(k)) = 8
    BY <2>1
  <2> QED
    BY <1>8, <2>1, <2>2 DEF Before, Edits
<1>9. CASE k = "diff"
  <2>1. Statements(k) = <<"session", "owner", "tags", "category", "project", "row", "versions", "from", "to">>
    BY <1>9, Table
  <2>2. Len(Statements(k)) = 9
    BY <2>1
  <2> QED
    BY <1>9, <2>1, <2>2, SMTT(30) DEF Before, Edits
<1> QED
  BY <1>1, <1>2, <1>3, <1>4, <1>5, <1>6, <1>7, <1>8, <1>9 DEF Kinds, Views, Edits

\* A statement comes before the next place when it came before, or is there.
LEMMA OneFurther ==
    ASSUME NEW k, NEW n \in Nat \ {0}, NEW s
    PROVE  /\ Before(k, n + 1, s) <=> Before(k, n, s) \/ Statements(k)[n] = s
           /\ ~Before(k, 1, s)
  BY DEF Before


(***************************************************************************)
(* The documents.                                                          *)
(***************************************************************************)
RowType == [owner : Users \cup {Nobody}, tags : SUBSET Words, category : Word,
            project : Word, chain : Chains \cup {None}, no : Nat, text : Word, deleted : BOOLEAN]

\* TypeOK but for the requests.
DocTypes ==
    /\ auth \in BOOLEAN
    /\ made \in Seq(Docs) /\ IsInjective(made)
    /\ row \in [Docs -> RowType]
    /\ posted \in [Docs -> 1..7]
    /\ writes \in 0..MaxWrites

DocInv == DocTypes /\ (\A d \in Docs : RowFollowsUpload(d)) /\ VersionsDiffer

\* Which statement of an upload stands at which place.
LEMMA UploadPlaces ==
    ASSUME NEW d \in Docs, posted[d] \in 1..7, NEW s, Doing(d, s)
    PROVE  /\ s = "insert" => posted[d] = 1
           /\ s = "owner" => posted[d] = 2
           /\ s \in MetaParts => posted[d] \in 3..5
           /\ s = "link" => posted[d] = 6
           /\ posted[d] \in 1..6
  BY DEF Doing, Upload, MetaParts

\* An upload's form.
LEMMA FormTypes ==
    ASSUME NEW d \in Docs
    PROVE  /\ Form[d].user \in Users /\ Form[d].tags \subseteq Words /\ Form[d].category \in Words
           /\ Form[d].project \in Words /\ Form[d].text \in Words /\ Form[d].zip \in BOOLEAN
           /\ \A a : ChainKey(d, a) \in Chains /\ ChainKey(d, a) # None
  BY FormAssumption, NamesAssumption DEF ChainKey, Chains

\* What an upload's statement does to the documents.
UploadChanges(d, new) ==
    /\ posted' = [posted EXCEPT ![d] = posted[d] + 1] /\ posted[d] \in 1..6
    /\ row' = [row EXCEPT ![d] = new]
    /\ new \in RowType /\ new.deleted = row[d].deleted
    /\ made' = IF posted[d] = 1 THEN Append(made, d) ELSE made
    /\ new.owner = IF posted[d] = 2 /\ auth THEN Form[d].user ELSE row[d].owner
    /\ posted[d] # 6 => new.chain = row[d].chain /\ new.no = row[d].no
    /\ posted[d] = 6 /\ ~Form[d].zip => new = row[d]
    /\ posted[d] = 6 /\ Form[d].zip =>
          new.chain = ChainKey(d, auth)
          /\ \A e \in Docs : Live(e) /\ row[e].chain = ChainKey(d, auth) => row[e].no < new.no
    /\ UNCHANGED <<auth, writes>>
    /\ req' = Touch(d)

\* The number LinkToChain gives is greater than those of the live versions.
LEMMA NextNumber ==
    ASSUME DocTypes, NEW c
    PROVE  LET no == 1 + Max({0} \cup {row[e].no : e \in InChain(c)})
           IN  no \in Nat /\ \A e \in InChain(c) : row[e].no < no
<1> DEFINE S == {0} \cup {row[e].no : e \in InChain(c)}
           number == [e \in InChain(c) |-> row[e].no]
<1>1. S \in SUBSET Nat
  BY DEF DocTypes, RowType, InChain
<1>2. IsFiniteSet(S)
  <2>1. InChain(c) \in SUBSET ToSet(made) /\ IsFiniteSet(ToSet(made))
    BY AgesDiffer DEF DocTypes, InChain, Live, Here
  <2>2. IsFiniteSet(InChain(c))
    BY <2>1, FS_Subset
  <2>3. number \in Surjection(InChain(c), {row[e].no : e \in InChain(c)})
    BY Fun_IsSurj
  <2>4. IsFiniteSet({row[e].no : e \in InChain(c)})
    BY <2>2, <2>3, FS_Surjection
  <2>5. IsFiniteSet({0})
    BY FS_Singleton
  <2> QED
    BY <2>4, <2>5, FS_Union
<1>3. Max(S) \in S /\ \A x \in S : x <= Max(S)
  BY <1>1, <1>2, MaxOfNaturals
<1>4. \A e \in InChain(c) : row[e].no \in S /\ row[e].no \in Nat
  BY <1>1
<1> HIDE DEF S
<1>5. Max(S) \in Nat
  BY <1>1, <1>3
<1> QED
  BY <1>3, <1>4, <1>5 DEF S

\* Every statement of an upload changes its own document, and as it says.
LEMMA UploadEffect ==
    ASSUME DocTypes, NEW d \in Docs, UploadStep(d)
    PROVE  \E new : UploadChanges(d, new)
<1> /\ posted[d] \in 1..7 /\ row[d] \in RowType /\ row \in [Docs -> RowType]
    /\ Form[d].user \in Users /\ Form[d].tags \subseteq Words /\ Form[d].category \in Words
    /\ Form[d].project \in Words /\ Form[d].text \in Words /\ Form[d].zip \in BOOLEAN
    /\ ChainKey(d, auth) \in Chains
  BY FormTypes DEF DocTypes
<1>1. CASE Insert(d)
  <2> DEFINE new == [row[d] EXCEPT !.text = Form[d].text]
  <2>1. posted[d] = 1
    BY <1>1, UploadPlaces DEF Insert
  <2>2. row' = [row EXCEPT ![d] = new]
    BY <1>1 DEF Insert
  <2>3. new \in RowType /\ new.deleted = row[d].deleted /\ new.owner = row[d].owner
        /\ new.chain = row[d].chain /\ new.no = row[d].no
    BY DEF RowType, Word
  <2> HIDE DEF new
  <2>4. /\ posted' = [posted EXCEPT ![d] = posted[d] + 1] /\ made' = Append(made, d)
        /\ UNCHANGED <<auth, writes>> /\ req' = Touch(d)
    BY <1>1 DEF Insert, Posted
  <2>5. UploadChanges(d, new)
    BY <2>1, <2>2, <2>3, <2>4 DEF UploadChanges
  <2> QED
    BY <2>5
<1>2. CASE SetSessionOwner(d)
  <2> DEFINE new == [row[d] EXCEPT !.owner = IF auth THEN Form[d].user ELSE @]
  <2>1. posted[d] = 2
    BY <1>2, UploadPlaces DEF SetSessionOwner
  <2>2. UploadChanges(d, new)
    BY <1>2, <2>1 DEF SetSessionOwner, Posted, UploadChanges, RowType
  <2> QED
    BY <2>2
<1>3. CASE SetSessionMetadata(d)
  <2>1. PICK part \in MetaParts :
          /\ Doing(d, part) /\ Posted(d)
          /\ row' = [row EXCEPT ![d][part] = IF part = "tags" THEN @ \cup Form[d].tags ELSE Form[d][part]]
          /\ req' = Touch(d)
          /\ UNCHANGED <<auth, made, writes>>
    BY <1>3 DEF SetSessionMetadata
  <2> DEFINE new == [row[d] EXCEPT ![part] = IF part = "tags" THEN @ \cup Form[d].tags ELSE Form[d][part]]
  <2>2. posted[d] \in 3..5
    BY <2>1, UploadPlaces
  <2>3. row' = [row EXCEPT ![d] = new]
    BY <2>1
  <2>4. new \in RowType /\ new.deleted = row[d].deleted /\ new.owner = row[d].owner
        /\ new.chain = row[d].chain /\ new.no = row[d].no
    <3>1. CASE part = "tags"
      BY <3>1 DEF RowType
    <3>2. CASE part = "category"
      BY <3>2 DEF RowType, Word
    <3>3. CASE part = "project"
      BY <3>3 DEF RowType, Word
    <3> QED
      BY <3>1, <3>2, <3>3 DEF MetaParts
  <2> HIDE DEF new
  <2>5. /\ posted' = [posted EXCEPT ![d] = posted[d] + 1] /\ made' = made
        /\ UNCHANGED <<auth, writes>> /\ req' = Touch(d)
    BY <2>1 DEF Posted
  <2>6. UploadChanges(d, new)
    BY <2>2, <2>3, <2>4, <2>5 DEF UploadChanges
  <2> QED
    BY <2>6
<1>4. CASE LinkToChain(d)
  <2> DEFINE no == 1 + Max({0} \cup {row[e].no : e \in InChain(ChainKey(d, auth))})
             new == IF Form[d].zip THEN [row[d] EXCEPT !.chain = ChainKey(d, auth), !.no = no] ELSE row[d]
  <2>1. posted[d] = 6
    BY <1>4, UploadPlaces DEF LinkToChain
  <2>2. no \in Nat /\ \A e \in InChain(ChainKey(d, auth)) : row[e].no < no
    BY NextNumber
  <2>3. row' = [row EXCEPT ![d] = new]
    BY <1>4 DEF LinkToChain
  <2> HIDE DEF no
  <2>4. new \in RowType /\ new.deleted = row[d].deleted /\ new.owner = row[d].owner
    BY <2>2 DEF RowType
  <2>5. /\ ~Form[d].zip => new = row[d]
        /\ Form[d].zip => new.chain = ChainKey(d, auth) /\ new.no = no
    BY DEF RowType
  <2>6. \A e \in Docs : Live(e) /\ row[e].chain = ChainKey(d, auth) => row[e].no < no
    BY <2>2 DEF InChain
  <2> HIDE DEF new
  <2>7. /\ posted' = [posted EXCEPT ![d] = posted[d] + 1] /\ made' = made
        /\ UNCHANGED <<auth, writes>> /\ req' = Touch(d)
    BY <1>4 DEF LinkToChain, Posted
  <2>8. UploadChanges(d, new)
    BY <2>1, <2>3, <2>4, <2>5, <2>6, <2>7 DEF UploadChanges
  <2> QED
    BY <2>8
<1> QED
  BY <1>1, <1>2, <1>3, <1>4 DEF UploadStep


\* Another document made.
LEMMA AppendSet ==
    ASSUME NEW T, NEW s \in Seq(T), NEW x \in T
    PROVE  /\ ToSet(Append(s, x)) = ToSet(s) \cup {x}
           /\ IsInjective(s) /\ x \notin ToSet(s) => IsInjective(Append(s, x))
<1>1. DOMAIN s = 1..Len(s) /\ Len(s) \in Nat
  OBVIOUS
<1>2. /\ Append(s, x) \in Seq(T) /\ DOMAIN Append(s, x) = 1..Len(s) + 1
      /\ \A i \in 1..Len(s) : Append(s, x)[i] = s[i]
      /\ Append(s, x)[Len(s) + 1] = x
  OBVIOUS
<1>3. ToSet(Append(s, x)) \subseteq ToSet(s) \cup {x}
  BY <1>1, <1>2 DEF ToSet
<1>4. ToSet(s) \cup {x} \subseteq ToSet(Append(s, x))
  BY <1>1, <1>2 DEF ToSet
<1>5. ASSUME IsInjective(s), x \notin ToSet(s) PROVE IsInjective(Append(s, x))
  <2>1. \A i, j \in 1..Len(s) : s[i] = s[j] => i = j
    BY <1>1, <1>5 DEF IsInjective
  <2>2. \A i \in 1..Len(s) : s[i] # x
    BY <1>1, <1>5 DEF ToSet
  <2> QED
    BY <1>1, <1>2, <2>1, <2>2 DEF IsInjective
<1> QED
  BY <1>3, <1>4, <1>5

\* An edit keeps the owner and the place in the chain, never undeletes, and
\* done twice it changes nothing more.
LEMMA EditedRow ==
    ASSUME NEW old \in RowType, NEW k \in Writing, NEW w \in Word, k = "add" => w # None
    PROVE  LET new == Edited(old, k, w)
           IN  /\ new \in RowType
               /\ new.owner = old.owner /\ new.chain = old.chain /\ new.no = old.no
               /\ old.deleted => new.deleted
               /\ Edited(new, k, w) = new
<1>1. CASE k = "add"
  BY <1>1 DEF Edited, RowType, Word
<1>2. CASE k = "remove"
  BY <1>2 DEF Edited, RowType, Word
<1>3. CASE k = "categorize"
  BY <1>3 DEF Edited, RowType, Word
<1>4. CASE k = "place"
  BY <1>4 DEF Edited, RowType, Word
<1>5. CASE k = "delete"
  BY <1>5 DEF Edited, RowType, Word
<1>6. CASE k = "update"
  BY <1>6 DEF Edited, RowType, Word
<1> QED
  BY <1>1, <1>2, <1>3, <1>4, <1>5, <1>6 DEF Writing, Edits

\* What a write does: it refuses, or edits the one document and tells the others.
WriteChanges(r, d, new) ==
    /\ Here(d) /\ new = Edited(row[d], req[r].kind, req[r].ask.word)
    /\ row' = [row EXCEPT ![d] = new]
    /\ req' = [(IF new = row[d] THEN req ELSE Touch(d))
                 EXCEPT ![r] = Then([req[r] EXCEPT !.touched = {}])]
    /\ new \in RowType
    /\ new.owner = row[d].owner /\ new.chain = row[d].chain /\ new.no = row[d].no
    /\ row[d].deleted => new.deleted
    /\ Edited(new, req[r].kind, req[r].ask.word) = new
    /\ UNCHANGED <<auth, made, posted, writes>>

\* What a busy request asks is something one may ask.
LEMMA AskTypes ==
    ASSUME NEW q \in RequestType, Flow(q)
    PROVE  /\ q.kind \in Kinds /\ q.ask \in Asking /\ q.ask.word \in Word
           /\ q.kind \in {"add", "search"} => q.ask.word # None
  BY AsksAssumption DEF Flow, RequestType, Asking

\* A request's statement is one of its handler's.
LEMMA AtPlace ==
    ASSUME NEW r \in Requests, req[r] \in RequestType, Flow(req[r]), NEW s, At(r, s)
    PROVE  /\ req[r].kind \in Kinds
           /\ req[r].next \in 1..Len(Statements(req[r].kind))
           /\ Statements(req[r].kind)[req[r].next] = s
           /\ req[r].status = "busy"
<1>1. req[r].kind \in Kinds
  BY DEF RequestType
<1>2. Len(Statements(req[r].kind)) \in Nat
  BY <1>1, SomeStatements
<1> QED
  BY <1>1, <1>2 DEF At, Flow

\* A write is refused and changes nothing, or edits the document asked for.
LEMMA WriteEffect ==
    ASSUME DocTypes, NEW r \in Requests, req[r] \in RequestType, Flow(req[r]), Write(r)
    PROVE  /\ req[r].doc \in Docs /\ req[r].kind \in Writing
           /\ \/ Refused(r) /\ UNCHANGED <<auth, made, row, posted, writes>>
              \/ WriteChanges(r, req[r].doc, Edited(row[req[r].doc], req[r].kind, req[r].ask.word))
<1> DEFINE d == req[r].doc
           new == Edited(row[d], req[r].kind, req[r].ask.word)
<1>1. req[r].kind \in Writing
  BY AtPlace, Places DEF Write
<1>2. d \in Docs
  BY <1>1 DEF Flow, Writing, Home, Edits
<1>3. row[d] \in RowType
  BY <1>2 DEF DocTypes
<1>4. /\ new \in RowType
      /\ new.owner = row[d].owner /\ new.chain = row[d].chain /\ new.no = row[d].no
      /\ row[d].deleted => new.deleted
      /\ Edited(new, req[r].kind, req[r].ask.word) = new
  BY <1>1, <1>3, AskTypes, EditedRow
<1> QED
  BY <1>1, <1>2, <1>4 DEF Write, WriteChanges

\* A step that is no write leaves the documents alone.
Reading(r) ==
    \/ RequireSession(r) \/ RequireOwner(r) \/ ReadMetadata(r)
    \/ CountDocuments(r) \/ ListPage(r) \/ SearchDocuments(r) \/ ListDocuments(r) \/ Grep(r)
    \/ PeersByCategory(r) \/ PeersByProject(r)
    \/ ReadRow(r) \/ ListVersions(r) \/ DiffChainMetadata(r) \/ ReadSessionHTML(r)

Arrives(r) ==
    \E k \in Serves[r], u \in Callers : \E d \in IF k \in Home THEN {None} ELSE Docs, ask \in Asks[k] :
        Arrive(r, k, u, d, ask)

\* Whatever a request does but write, the documents and the other requests
\* stay as they are.
LEMMA ReadingEffect ==
    ASSUME NEW r \in Requests, Reading(r) \/ Leave(r) \/ Fails(r) \/ Arrives(r), req \in [Requests -> RequestType],
           writes \in 0..MaxWrites
    PROVE  /\ UNCHANGED <<auth, made, row, posted>>
           /\ writes' \in 0..MaxWrites
           /\ \E new : req' = [req EXCEPT ![r] = new]
<1> USE DEF Refused, ContinueIf
<1>1. CASE RequireSession(r) \/ RequireOwner(r)
  BY <1>1 DEF RequireSession, RequireOwner
<1>2. CASE ReadMetadata(r)
  BY <1>2 DEF ReadMetadata
<1>3. CASE CountDocuments(r) \/ ListPage(r)
  BY <1>3 DEF CountDocuments, ListPage
<1>4. CASE SearchDocuments(r) \/ ListDocuments(r) \/ Grep(r)
  BY <1>4 DEF SearchDocuments, ListDocuments, Grep
<1>5. CASE PeersByCategory(r) \/ PeersByProject(r)
  BY <1>5 DEF PeersByCategory, PeersByProject
<1>6. CASE ReadRow(r)
  BY <1>6 DEF ReadRow, Unlinked
<1>7. CASE ListVersions(r)
  BY <1>7 DEF ListVersions
<1>8. CASE DiffChainMetadata(r) \/ ReadSessionHTML(r)
  BY <1>8 DEF DiffChainMetadata, ReadSessionHTML
<1>9. CASE Leave(r) \/ Fails(r)
  BY <1>9 DEF Leave, Fails
<1>10. CASE Arrives(r)
  <2>1. PICK k \in Serves[r], u \in Callers : \E d \in IF k \in Home THEN {None} ELSE Docs, ask \in Asks[k] :
            Arrive(r, k, u, d, ask)
    BY <1>10 DEF Arrives
  <2>2. PICK d \in IF k \in Home THEN {None} ELSE Docs, ask \in Asks[k] : Arrive(r, k, u, d, ask)
    BY <2>1
  <2>3. (writes' = writes + 1 /\ writes < MaxWrites) \/ writes' = writes
    BY <2>2 DEF Arrive
  <2>4. writes' \in 0..MaxWrites
    BY <2>3, SizesAssumption
  <2>5. UNCHANGED <<auth, made, row, posted>>
    BY <2>2 DEF Arrive
  <2>6. \E new : req' = [req EXCEPT ![r] = new]
    BY <2>2 DEF Arrive
  <2> QED
    BY <2>4, <2>5, <2>6
<1> QED
  BY <1>1, <1>2, <1>3, <1>4, <1>5, <1>6, <1>7, <1>8, <1>9, <1>10 DEF Reading

\* The kinds of steps there are.
LEMMA StepKinds ==
    ASSUME Next
    PROVE  \/ \E d \in Docs : UploadStep(d)
           \/ \E r \in Requests : Write(r) \/ Reading(r) \/ Leave(r) \/ Fails(r) \/ Arrives(r)
  BY DEF Next, HandlerStep, Reading, Arrives


\* What never changes back about documents, and which of them changed.
Changes(T) ==
    /\ auth' = auth
    /\ made' = made \/ \E d \in T : made' = Append(made, d)
    /\ \A d \in Docs :
          /\ Here(d) => Here(d)'
          /\ row[d].deleted => row'[d].deleted
          /\ row[d].chain # None => row'[d].chain = row[d].chain /\ row'[d].no = row[d].no
          /\ row[d].owner # Nobody => row'[d].owner = row[d].owner
          /\ d \notin T => row'[d] = row[d] /\ (Here(d)' <=> Here(d))

Seen(r, T) ==
    req'[r] = IF req[r].status = "off" THEN req[r] ELSE [req[r] EXCEPT !.touched = @ \cup T]

\* An upload's statement keeps the invariant of the documents, changes its own
\* document only, and every other request sees which.
LEMMA UploadKeepsDocs ==
    ASSUME DocInv, req \in [Requests -> RequestType], NEW d \in Docs, UploadStep(d)
    PROVE  DocInv' /\ Changes({d}) /\ req' = Touch(d)
<1>1. PICK new : UploadChanges(d, new)
  BY UploadEffect DEF DocInv
<1> USE DEF DocInv
<1>2. /\ posted[d] \in 1..6 /\ posted \in [Docs -> 1..7] /\ row \in [Docs -> RowType]
      /\ posted' = [posted EXCEPT ![d] = posted[d] + 1]
      /\ row' = [row EXCEPT ![d] = new] /\ new \in RowType
  BY <1>1 DEF UploadChanges, DocTypes
<1>3. /\ \A e \in Docs : Here(e)' <=> Here(e) \/ e = d
      /\ made' \in Seq(Docs) /\ IsInjective(made')
      /\ made' = made \/ made' = Append(made, d)
  <2>1. CASE posted[d] = 1
    <3>1. made' = Append(made, d) /\ d \notin ToSet(made)
      BY <1>1, <2>1 DEF UploadChanges, RowFollowsUpload, Here
    <3>2. ToSet(made') = ToSet(made) \cup {d} /\ IsInjective(made') /\ made' \in Seq(Docs)
      BY <3>1, AppendSet DEF DocTypes
    <3> QED
      BY <3>1, <3>2 DEF Here
  <2>2. CASE posted[d] # 1
    <3>1. made' = made /\ Here(d)
      BY <1>1, <1>2, <2>2 DEF UploadChanges, RowFollowsUpload
    <3> QED
      BY <3>1 DEF Here, DocTypes
  <2> QED
    BY <2>1, <2>2
<1>4. DocTypes'
  <2>1. posted' \in [Docs -> 1..7] /\ row' \in [Docs -> RowType]
    BY <1>2
  <2>2. auth' = auth /\ writes' = writes
    BY <1>1 DEF UploadChanges
  <2> QED
    BY <1>3, <2>1, <2>2 DEF DocTypes
<1>5. \A e \in Docs : e # d => row'[e] = row[e] /\ posted'[e] = posted[e]
  BY <1>2
<1>6. row'[d] = new /\ posted'[d] = posted[d] + 1
  BY <1>2
<1>7. auth' = auth /\ new.deleted = row[d].deleted
      /\ new.owner = (IF posted[d] = 2 /\ auth THEN Form[d].user ELSE row[d].owner)
      /\ (posted[d] # 6 => new.chain = row[d].chain /\ new.no = row[d].no)
      /\ (posted[d] = 6 /\ ~Form[d].zip => new = row[d])
      /\ (posted[d] = 6 /\ Form[d].zip => new.chain = ChainKey(d, auth))
      /\ (posted[d] = 6 /\ Form[d].zip =>
            \A e \in Docs : Live(e) /\ row[e].chain = ChainKey(d, auth) => row[e].no < new.no)
  BY <1>1 DEF UploadChanges
<1>8. ASSUME NEW e \in Docs PROVE RowFollowsUpload(e)'
  <2>1. CASE e = d
    <3>1. RowFollowsUpload(d)
      OBVIOUS
    <3>2. posted'[d] >= 2 /\ Here(d)'
      BY <1>2, <1>3, <1>6
    <3>3. new.owner = IF auth /\ posted[d] + 1 > 2 THEN Form[d].user ELSE Nobody
      BY <1>2, <1>7, <3>1 DEF RowFollowsUpload
    <3>4. new.chain # None => posted[d] + 1 = 7 /\ new.chain = ChainKey(d, auth)
      <4>1. row[d].chain = None
        BY <1>2, <3>1 DEF RowFollowsUpload, Upload
      <4> QED
        BY <1>2, <1>7, <4>1
    <3>5. Len(Upload) + 1 = 7
      BY DEF Upload
    <3> QED
      BY <1>6, <1>7, <2>1, <3>2, <3>3, <3>4, <3>5 DEF RowFollowsUpload, ChainKey
  <2>2. CASE e # d
    BY <1>3, <1>5, <1>7, <2>2 DEF RowFollowsUpload, ChainKey
  <2> QED
    BY <2>1, <2>2
<1>9. row[d].chain = None
  BY <1>2 DEF RowFollowsUpload, Upload
<1>10. VersionsDiffer'
  <2>1. SUFFICES ASSUME NEW e \in Docs, NEW f \in Docs, Live(e)', Live(f)', row'[e].chain # None,
                        row'[e].chain = row'[f].chain, row'[e].no = row'[f].no, e # f
                 PROVE  FALSE
    BY DEF VersionsDiffer
  <2>2. ASSUME NEW g \in Docs, g # d, Live(g)' PROVE Live(g)
    BY <1>3, <1>5, <2>2 DEF Live
  <2>3. CASE e # d /\ f # d
    BY <1>5, <2>1, <2>2, <2>3 DEF VersionsDiffer
  <2>4. ASSUME NEW g \in Docs, g # d, Live(g)', row'[g].chain = row'[d].chain, row'[d].chain # None,
               row'[g].no = row'[d].no
        PROVE  FALSE
    <3>1. posted[d] = 6 /\ Form[d].zip /\ new.chain = ChainKey(d, auth)
      BY <1>6, <1>7, <1>9, <2>4, FormTypes
    <3>2. Live(g) /\ row[g].chain = ChainKey(d, auth) /\ row[g].no = new.no
      BY <1>5, <1>6, <2>2, <2>4, <3>1
    <3>3. row[g].no < new.no /\ new.no \in Nat
      BY <1>2, <1>7, <3>1, <3>2 DEF RowType
    <3> QED
      BY <3>2, <3>3
  <2> QED
    BY <2>1, <2>3, <2>4
<1>11. Changes({d})
  <2>1. row[d].owner # Nobody => new.owner = row[d].owner
    BY <1>2, <1>7 DEF RowFollowsUpload
  <2> QED
    BY <1>3, <1>5, <1>6, <1>7, <1>9, <2>1 DEF Changes
<1> QED
  BY <1>1, <1>4, <1>8, <1>10, <1>11 DEF UploadChanges

\* An edit, deletion or update keeps it as well.
LEMMA WriteKeepsDocs ==
    ASSUME DocInv, NEW r \in Requests, NEW d \in Docs, NEW new, WriteChanges(r, d, new)
    PROVE  DocInv' /\ Changes(IF new = row[d] THEN {} ELSE {d})
<1> USE DEF DocInv
<1>1. /\ row \in [Docs -> RowType] /\ row' = [row EXCEPT ![d] = new] /\ new \in RowType
      /\ new.owner = row[d].owner /\ new.chain = row[d].chain /\ new.no = row[d].no
      /\ row[d].deleted => new.deleted
      /\ UNCHANGED <<auth, made, posted, writes>>
  BY DEF WriteChanges, DocTypes
<1>2. DocTypes'
  BY <1>1 DEF DocTypes
<1>3. \A e \in Docs : /\ row'[e].owner = row[e].owner /\ row'[e].chain = row[e].chain /\ row'[e].no = row[e].no
                      /\ row[e].deleted => row'[e].deleted
                      /\ e # d \/ new = row[d] => row'[e] = row[e]
                      /\ Here(e)' <=> Here(e)
  BY <1>1 DEF Here
<1>4. \A e \in Docs : RowFollowsUpload(e)'
  BY <1>1, <1>3 DEF RowFollowsUpload, ChainKey
<1>5. VersionsDiffer'
  <2>1. \A e \in Docs : Live(e)' => Live(e)
    BY <1>1, <1>3, <1>2 DEF Live
  <2> QED
    BY <1>3, <2>1 DEF VersionsDiffer
<1>6. Changes(IF new = row[d] THEN {} ELSE {d})
  BY <1>1, <1>3 DEF Changes
<1> QED
  BY <1>2, <1>4, <1>5, <1>6

\* Steps that leave the documents alone.
LEMMA DocsUnchanged ==
    ASSUME DocInv, UNCHANGED <<auth, made, row, posted>>, writes' \in 0..MaxWrites
    PROVE  DocInv' /\ Changes({})
<1>1. \A d \in Docs : (Here(d)' <=> Here(d)) /\ (Live(d)' <=> Live(d))
  BY DEF Here, Live
<1>2. DocTypes'
  BY DEF DocInv, DocTypes
<1>3. \A d \in Docs : RowFollowsUpload(d)'
  BY <1>1 DEF DocInv, RowFollowsUpload, ChainKey
<1>4. VersionsDiffer'
  BY <1>1 DEF DocInv, VersionsDiffer
<1>5. Changes({})
  BY <1>1 DEF Changes
<1> QED
  BY <1>2, <1>3, <1>4, <1>5 DEF DocInv


(***************************************************************************)
(* What the statements of a request read.                                  *)
(***************************************************************************)

\* The versions of a chain: its live members by increasing number.
LEMMA ChainInOrder ==
    ASSUME DocInv, NEW d \in Docs, row[d].chain # None
    PROVE  LET vs == ChainVersions(d)
               n == Cardinality(InChain(row[d].chain))
           IN  /\ vs \in Seq(Versions) /\ n \in Nat /\ DOMAIN vs = 1..n /\ Len(vs) = n
               /\ \A i \in 1..n : vs[i].doc \in InChain(row[d].chain) /\ vs[i] = Version(vs[i].doc)
               /\ \A i, j \in 1..n : i < j => vs[i].no < vs[j].no /\ vs[i].doc # vs[j].doc
               /\ \A e \in InChain(row[d].chain) : \E i \in 1..n : vs[i].doc = e
<1> DEFINE S == InChain(row[d].chain)
           key == [e \in Docs |-> row[e].no]
           o == Ordered(S, key)
           n == Cardinality(S)
           vs == ChainVersions(d)
<1>1. IsFiniteSet(S) /\ S \subseteq Docs
  <2>1. S \in SUBSET ToSet(made) /\ IsFiniteSet(ToSet(made)) /\ ToSet(made) \subseteq Docs
    BY AgesDiffer DEF DocInv, DocTypes, InChain, Live, Here
  <2> QED
    BY <2>1, FS_Subset
<1>2. IsKey(S, key)
  BY DEF IsKey, InChain, DocInv, DocTypes, RowType, VersionsDiffer
<1>3. /\ n \in Nat /\ o \in Seq(S) /\ Len(o) = n /\ DOMAIN o = 1..n
      /\ ToSet(o) = S
      /\ \A i, j \in DOMAIN o : i < j => key[o[i]] < key[o[j]]
  BY <1>1, <1>2, OrderedBySmallerKeys
<1>4. \A i \in 1..n : o[i] \in S
  BY <1>3
<1>5. vs = [i \in 1..n |-> Version(o[i])]
  BY <1>3 DEF ChainVersions
<1>6. \A e \in S : \E i \in 1..n : o[i] = e
  BY <1>3 DEF ToSet
<1> HIDE DEF o, key, vs, S, n
<1>7. \A e \in Docs : Version(e) \in Versions /\ Version(e).doc = e /\ Version(e).no = row[e].no
                      /\ Version(e).meta = MetaOf(e)
  BY DEF Version, Versions, MetaOf, Meta, DocInv, DocTypes, RowType
<1>8. \A i \in 1..n : vs[i] \in Versions /\ vs[i].doc = o[i] /\ vs[i].no = row[o[i]].no /\ vs[i] = Version(o[i])
  BY <1>1, <1>4, <1>5, <1>7
<1>9. vs \in [1..n -> Versions] /\ DOMAIN vs = 1..n
  BY <1>5, <1>8
<1>10. vs \in Seq(Versions) /\ Len(vs) = n
  BY <1>3, <1>9
<1>11. \A i, j \in 1..n : i < j => row[o[i]].no < row[o[j]].no
  BY <1>1, <1>3, <1>4 DEF key
<1>12. \A i \in 1..n : row[o[i]].no \in Nat
  BY <1>1, <1>4 DEF DocInv, DocTypes, RowType
<1>13. \A i, j \in 1..n : i < j => vs[i].no < vs[j].no /\ vs[i].doc # vs[j].doc
  BY <1>8, <1>11, <1>12
<1> QED
  BY <1>3, <1>4, <1>6, <1>8, <1>9, <1>10, <1>13 DEF vs, S, n

\* The documents that a page, a search or a list of peers can be about.
LEMMA ScopeIsMade ==
    ASSUME DocTypes, NEW r
    PROVE  /\ Scope(r) \in SUBSET ToSet(made) /\ Filtered(r) \in SUBSET ToSet(made)
           /\ MetaMatches(r) \in SUBSET ToSet(made) /\ MetaMatches(r) \subseteq Filtered(r)
           /\ Filtered(r) \subseteq Scope(r) /\ ToSet(made) \subseteq Docs
<1>1. ToSet(made) \subseteq Docs
  BY AgesDiffer DEF DocTypes
<1> QED
  BY <1>1 DEF Scope, Filtered, MetaMatches, Live, Here

\* A page, and a list of peers, is a list of some of the documents.
LEMMA PagesAreLists ==
    ASSUME DocTypes, NEW S \in SUBSET ToSet(made), NEW page \in Nat \ {0}
    PROVE  /\ Newest(S) \in Seq(Docs) /\ ToSet(Newest(S)) = S /\ Cardinality(S) \in Nat
           /\ PageOf(Newest(S), page) \in Seq(Docs) /\ ToSet(PageOf(Newest(S), page)) \subseteq S
           /\ Slice(Newest(S), 0, PeerLimit) \in Seq(Docs) /\ ToSet(Slice(Newest(S), 0, PeerLimit)) \subseteq S
           /\ Len(Slice(Newest(S), 0, PeerLimit)) <= PeerLimit
           /\ Len(Slice(Newest(S), 0, PeerLimit)) < PeerLimit => ToSet(Slice(Newest(S), 0, PeerLimit)) = S
<1>1. Newest(S) \in Seq(Docs) /\ ToSet(Newest(S)) = S /\ Cardinality(S) \in Nat
  BY NewestFirst DEF DocTypes
<1>2. (page - 1) * PageSize \in Nat /\ PageSize \in Nat /\ PeerLimit \in Nat /\ 0 \in Nat
  BY PageNumbers, SizesAssumption
<1>3. PageOf(Newest(S), page) \in Seq(Docs) /\ ToSet(PageOf(Newest(S), page)) \subseteq ToSet(Newest(S))
  BY <1>1, <1>2, SliceTakesRanks DEF PageOf
<1> DEFINE t == Slice(Newest(S), 0, PeerLimit)
<1>4. /\ t \in Seq(Docs) /\ ToSet(t) \subseteq ToSet(Newest(S))
      /\ Len(t) = IF 0 >= Len(Newest(S)) THEN 0
                  ELSE IF 0 + PeerLimit <= Len(Newest(S)) THEN PeerLimit ELSE Len(Newest(S)) - 0
      /\ 0 = 0 /\ Len(t) < PeerLimit => t = Newest(S)
  BY <1>1, <1>2, SliceTakesRanks
<1>5. Len(Newest(S)) \in Nat
  BY <1>1
<1>6. Len(t) <= PeerLimit
  BY <1>2, <1>4, <1>5
<1> QED
  BY <1>1, <1>3, <1>4, <1>6


(***************************************************************************)
(* What each statement that only reads makes of its request.               *)
(***************************************************************************)
Sides(q, vs) ==
    /\ Len(q.found) = 2
    /\ \A i \in 1..2 : \E j \in DOMAIN vs : vs[j].doc = q.found[i] /\ vs[j].no = q.ask.pair[i]
    /\ q.found[1] # q.found[2]

\* What Grep looks for.
Matching(r) == (ToSet(req[r].others) \ ToSet(req[r].found)) \cap FileMatches(r)

Reads(r, s, new) ==
    LET q == req[r]
    IN  /\ new \in RequestType /\ s # "write"
        /\ Named(new) \subseteq Named(q) \cup Scope(r)
        /\ s = "session" => new = q /\ Here(q.doc)
        /\ s = "owner" => new = q /\ (q.uid = Nobody \/ (Here(q.doc) /\ row[q.doc].owner = q.uid))
        /\ s \in MetaParts => new = [q EXCEPT !.meta = [@ EXCEPT ![s] = row[q.doc][s]]]
        /\ s = "count" => new = [q EXCEPT !.total = Cardinality(Filtered(r)),
                                          !.page = ClampedPage(q.page, Cardinality(Filtered(r)))]
        /\ s = "page" => new = [q EXCEPT !.found = PageOf(Newest(Filtered(r)), q.page)]
        /\ s = "search" => new = [q EXCEPT !.found = Newest(MetaMatches(r))]
        /\ s = "list" => new = [q EXCEPT !.others = Newest(Filtered(r))]
        /\ s = "grep" => \E unread \in SUBSET Docs :
              LET all == q.found \o Newest(Matching(r) \ unread)
                  page == ClampedPage(q.page, Len(all))
              IN  new = [q EXCEPT !.others = all, !.total = Len(all), !.page = page, !.found = PageOf(all, page),
                                  !.unread = unread]
        /\ s = "byCategory" => new = [q EXCEPT !.found = Peers(r, "category")]
        /\ s = "byProject" => new = [q EXCEPT !.others = Peers(r, "project")]
        /\ s = "row" => new = q /\ row[q.doc].chain # None
        /\ s = "versions" =>
              LET vs == ChainVersions(q.doc)
              IN  /\ \E found : new = [q EXCEPT !.versions = vs, !.found = found]
                  /\ q.kind = "diff" => Sides(new, vs)
                  /\ q.kind # "diff" => /\ new.found = <<>>
                                        /\ \E i \in DOMAIN vs : vs[i].doc = q.doc
        /\ s = "diffs" =>
              LET vs == ChainVersions(q.doc)
              IN  \E ds : /\ new = [q EXCEPT !.diffs = ds]
                          /\ DOMAIN ds = DOMAIN vs
                          /\ \A i \in DOMAIN vs :
                                ds[i] = DiffVersions(IF i = 1 THEN [no |-> 0, meta |-> NoMeta] ELSE vs[i - 1], vs[i])
        /\ s \in {"from", "to"} =>
              LET side == q.found[IF s = "from" THEN 1 ELSE 2]
              IN  \/ new = [q EXCEPT !.texts = Append(q.texts, row[side].text)]
                  \/ new = [q EXCEPT !.texts = Append(q.texts, None), !.unread = q.unread \cup {side}]

Advances(r, s, new) == At(r, s) /\ Reads(r, s, new) /\ req' = [req EXCEPT ![r] = Then(new)]

\* A chain view of a session in no chain is answered at once.
Answers(r) ==
    /\ At(r, "row") /\ req[r].kind = "chain" /\ row[req[r].doc].chain = None /\ ~row[req[r].doc].deleted
    /\ req' = [req EXCEPT ![r].status = "done",
                          ![r].versions = <<[Version(req[r].doc) EXCEPT !.meta = req[r].meta]>>]

\* The members of two lists, one after the other.
LEMMA ConcatSet ==
    ASSUME NEW T, NEW s \in Seq(T), NEW t \in Seq(T)
    PROVE  /\ ToSet(s \o t) = ToSet(s) \cup ToSet(t)
           /\ IsInjective(s) /\ IsInjective(t) /\ ToSet(s) \cap ToSet(t) = {} => IsInjective(s \o t)
<1>1. /\ s \o t \in Seq(T) /\ Len(s \o t) = Len(s) + Len(t)
      /\ \A i \in 1..Len(s) + Len(t) : (s \o t)[i] = IF i <= Len(s) THEN s[i] ELSE t[i - Len(s)]
  BY ConcatProperties
<1>2. DOMAIN s = 1..Len(s) /\ DOMAIN t = 1..Len(t) /\ Len(s) \in Nat /\ Len(t) \in Nat
      /\ DOMAIN (s \o t) = 1..Len(s) + Len(t)
  BY <1>1
<1> DEFINE c == s \o t
<1> HIDE DEF c
<1>3. /\ DOMAIN c = 1..Len(s) + Len(t)
      /\ \A i \in 1..Len(s) : i \in DOMAIN c /\ c[i] = s[i]
      /\ \A i \in 1..Len(t) : i + Len(s) \in DOMAIN c /\ c[i + Len(s)] = t[i]
      /\ \A i \in DOMAIN c : \/ i \in 1..Len(s) /\ c[i] = s[i]
                             \/ i \notin 1..Len(s) /\ i - Len(s) \in 1..Len(t) /\ c[i] = t[i - Len(s)]
  <2>1. \A i \in 1..Len(s) + Len(t) : c[i] = IF i <= Len(s) THEN s[i] ELSE t[i - Len(s)]
    BY <1>1 DEF c
  <2>2. DOMAIN c = 1..Len(s) + Len(t)
    BY <1>2 DEF c
  <2> QED
    BY <1>2, <2>1, <2>2, SMTT(30)
<1>4. ToSet(c) = ToSet(s) \cup ToSet(t)
  <2>1. ToSet(c) \subseteq ToSet(s) \cup ToSet(t)
    BY <1>2, <1>3 DEF ToSet
  <2>2. ToSet(s) \subseteq ToSet(c)
    BY <1>2, <1>3 DEF ToSet
  <2>3. ToSet(t) \subseteq ToSet(c)
    BY <1>2, <1>3 DEF ToSet
  <2> QED
    BY <2>1, <2>2, <2>3
<1>5. ASSUME IsInjective(s), IsInjective(t), ToSet(s) \cap ToSet(t) = {} PROVE IsInjective(c)
  <2>1. SUFFICES ASSUME NEW i \in DOMAIN c, NEW j \in DOMAIN c, c[i] = c[j] PROVE i = j
    BY DEF IsInjective
  <2>2. \A k \in 1..Len(s) : s[k] \in ToSet(s)
    BY <1>2 DEF ToSet
  <2>3. \A k \in 1..Len(t) : t[k] \in ToSet(t)
    BY <1>2 DEF ToSet
  <2>4. i \in Int /\ j \in Int
    BY <1>3
  <2>5. CASE i \in 1..Len(s) /\ j \in 1..Len(s)
    BY <1>2, <1>3, <1>5, <2>1, <2>5 DEF IsInjective
  <2>6. CASE i \notin 1..Len(s) /\ j \notin 1..Len(s)
    <3>1. i - Len(s) \in 1..Len(t) /\ j - Len(s) \in 1..Len(t) /\ t[i - Len(s)] = t[j - Len(s)]
      BY <1>3, <2>1, <2>6
    <3>2. i - Len(s) = j - Len(s)
      BY <1>2, <1>5, <3>1 DEF IsInjective
    <3> QED
      BY <1>2, <2>4, <3>2
  <2>7. CASE i \in 1..Len(s) /\ j \notin 1..Len(s)
    BY <1>3, <1>5, <2>1, <2>2, <2>3, <2>7
  <2>8. CASE i \notin 1..Len(s) /\ j \in 1..Len(s)
    BY <1>3, <1>5, <2>1, <2>2, <2>3, <2>8
  <2> QED
    BY <2>5, <2>6, <2>7, <2>8
<1> QED
  BY <1>4, <1>5 DEF c

\* RequireSession and RequireOwner pass the request on or refuse it.
LEMMA GuardsEffect ==
    ASSUME NEW r \in Requests, req \in [Requests -> RequestType], RequireSession(r) \/ RequireOwner(r)
    PROVE  Refused(r) \/ \E s, new : Advances(r, s, new)
<1>1. CASE RequireSession(r)
  <2>1. CASE Here(req[r].doc)
    <3>1. Reads(r, "session", req[r])
      BY <2>1 DEF Reads, MetaParts, Named
    <3>2. Advances(r, "session", req[r])
      BY <1>1, <2>1, <3>1 DEF Advances, RequireSession, ContinueIf
    <3> QED
      BY <3>2
  <2> QED
    BY <1>1, <2>1 DEF RequireSession, ContinueIf
<1>2. CASE RequireOwner(r)
  <2>1. CASE req[r].uid = Nobody \/ (Here(req[r].doc) /\ row[req[r].doc].owner = req[r].uid)
    <3>1. Reads(r, "owner", req[r])
      BY <2>1 DEF Reads, MetaParts, Named
    <3>2. Advances(r, "owner", req[r])
      BY <1>2, <2>1, <3>1 DEF Advances, RequireOwner, ContinueIf
    <3> QED
      BY <3>2
  <2> QED
    BY <1>2, <2>1 DEF RequireOwner, ContinueIf
<1> QED
  BY <1>1, <1>2

\* A part of the metadata is read.
LEMMA MetadataEffect ==
    ASSUME DocInv, NEW r \in Requests, req \in [Requests -> RequestType], Flow(req[r]), ReadMetadata(r)
    PROVE  \E s, new : Advances(r, s, new)
<1>1. PICK part \in MetaParts :
          At(r, part) /\ req' = [req EXCEPT ![r] = Then([@ EXCEPT !.meta[part] = row[req[r].doc][part]])]
  BY DEF ReadMetadata
<1> DEFINE q == req[r]
           new == [q EXCEPT !.meta = [@ EXCEPT ![part] = row[q.doc][part]]]
<1>2. req[r].kind \notin Home
  BY <1>1, AtPlace, Places DEF Home, Edits
<1>3. q \in RequestType /\ row[q.doc] \in RowType
  BY <1>2 DEF Flow, DocInv, DocTypes
<1>4. [q.meta EXCEPT ![part] = row[q.doc][part]] \in Meta
  <2>1. CASE part = "tags"
    BY <1>3, <2>1 DEF RequestType, RowType, Meta
  <2>2. CASE part = "category"
    BY <1>3, <2>2 DEF RequestType, RowType, Meta
  <2>3. CASE part = "project"
    BY <1>3, <2>3 DEF RequestType, RowType, Meta
  <2> QED
    BY <2>1, <2>2, <2>3 DEF MetaParts
<1>5. new \in RequestType
  BY <1>3, <1>4 DEF RequestType
<1>6. Named(new) = Named(q)
  BY <1>3 DEF Named, RequestType
<1> HIDE DEF new
<1>7. Reads(r, part, new)
  BY <1>5, <1>6 DEF Reads, MetaParts, new
<1>8. Advances(r, part, new)
  BY <1>1, <1>7 DEF Advances, new
<1> QED
  BY <1>8

\* The home page's statements.
LEMMA HomeEffect ==
    ASSUME DocInv, NEW r \in Requests, req \in [Requests -> RequestType], Flow(req[r]),
           CountDocuments(r) \/ ListPage(r) \/ SearchDocuments(r) \/ ListDocuments(r) \/ Grep(r)
    PROVE  \E s, new : Advances(r, s, new)
<1> DEFINE q == req[r]
<1>1. DocTypes /\ q \in RequestType /\ q.page \in Nat \ {0}
      /\ q.found \in Seq(Docs) /\ q.others \in Seq(Docs)
  BY DEF DocInv, RequestType
<1>2. Filtered(r) \in SUBSET ToSet(made) /\ MetaMatches(r) \in SUBSET ToSet(made)
  BY <1>1, ScopeIsMade
<1>3. /\ Cardinality(Filtered(r)) \in Nat
      /\ PageOf(Newest(Filtered(r)), q.page) \in Seq(Docs)
      /\ ToSet(PageOf(Newest(Filtered(r)), q.page)) \subseteq Scope(r)
      /\ Newest(MetaMatches(r)) \in Seq(Docs) /\ ToSet(Newest(MetaMatches(r))) \subseteq Scope(r)
      /\ Newest(Filtered(r)) \in Seq(Docs) /\ ToSet(Newest(Filtered(r))) \subseteq Scope(r)
  <2>1. ASSUME NEW S \in SUBSET ToSet(made), S \subseteq Scope(r)
        PROVE  /\ Cardinality(S) \in Nat /\ Newest(S) \in Seq(Docs) /\ ToSet(Newest(S)) \subseteq Scope(r)
               /\ PageOf(Newest(S), q.page) \in Seq(Docs) /\ ToSet(PageOf(Newest(S), q.page)) \subseteq Scope(r)
    BY <1>1, <2>1, PagesAreLists
  <2>2. Filtered(r) \subseteq Scope(r) /\ MetaMatches(r) \subseteq Scope(r)
    BY <1>1, ScopeIsMade
  <2> QED
    BY <1>2, <2>1, <2>2
<1>4. CASE CountDocuments(r)
  <2> DEFINE total == Cardinality(Filtered(r))
             new == [q EXCEPT !.total = total, !.page = ClampedPage(q.page, total)]
  <2>1. ClampedPage(q.page, total) \in Nat \ {0}
    BY <1>1, <1>3, PageNumbers
  <2>2. new \in RequestType
    BY <1>1, <1>3, <2>1 DEF RequestType
  <2>3. Reads(r, "count", new)
    BY <1>1, <1>3, <2>2 DEF Reads, MetaParts, Named, RequestType
  <2>4. Advances(r, "count", new)
    BY <1>4, <2>3 DEF Advances, CountDocuments
  <2> QED
    BY <2>4
<1>5. CASE ListPage(r)
  <2> DEFINE new == [q EXCEPT !.found = PageOf(Newest(Filtered(r)), q.page)]
  <2>1. new \in RequestType
    BY <1>1, <1>3 DEF RequestType
  <2>2. Reads(r, "page", new)
    BY <1>1, <1>3, <2>1 DEF Reads, MetaParts, Named, RequestType
  <2>3. Advances(r, "page", new)
    BY <1>5, <2>2 DEF Advances, ListPage
  <2> QED
    BY <2>3
<1>6. CASE SearchDocuments(r)
  <2> DEFINE new == [q EXCEPT !.found = Newest(MetaMatches(r))]
  <2>1. new \in RequestType
    BY <1>1, <1>3 DEF RequestType
  <2>2. Reads(r, "search", new)
    BY <1>1, <1>3, <2>1 DEF Reads, MetaParts, Named, RequestType
  <2>3. Advances(r, "search", new)
    BY <1>6, <2>2 DEF Advances, SearchDocuments
  <2> QED
    BY <2>3
<1>7. CASE ListDocuments(r)
  <2> DEFINE new == [q EXCEPT !.others = Newest(Filtered(r))]
  <2>1. new \in RequestType
    BY <1>1, <1>3 DEF RequestType
  <2>2. Reads(r, "list", new)
    BY <1>1, <1>3, <2>1 DEF Reads, MetaParts, Named, RequestType
  <2>3. Advances(r, "list", new)
    BY <1>7, <2>2 DEF Advances, ListDocuments
  <2> QED
    BY <2>3
<1>8. CASE Grep(r)
  <2>9. PICK unread \in SUBSET Matching(r) :
           LET all == q.found \o Newest(Matching(r) \ unread)
               page == ClampedPage(q.page, Len(all))
           IN  req' = [req EXCEPT ![r] = Then([q EXCEPT
                         !.others = all, !.total = Len(all), !.page = page,
                         !.found = PageOf(all, page), !.unread = unread])]
    BY <1>8 DEF Grep, Matching
  <2>10. unread \in SUBSET Docs
    BY DEF Matching, FileMatches
  <2> DEFINE more == Newest(Matching(r) \ unread)
             all == q.found \o more
             page == ClampedPage(q.page, Len(all))
             new == [q EXCEPT !.others = all, !.total = Len(all), !.page = page, !.found = PageOf(all, page),
                              !.unread = unread]
  <2>0. /\ more \in Seq(Docs) /\ ToSet(more) \subseteq ToSet(q.others)
    <3> DEFINE M == Matching(r) \ unread
    <3>1. M \in SUBSET ToSet(made) /\ M \subseteq ToSet(q.others)
      BY DEF Flow, Named, Here, Matching
    <3> HIDE DEF M
    <3>2. Newest(M) \in Seq(Docs) /\ ToSet(Newest(M)) = M
      BY <1>1, <3>1, PagesAreLists
    <3> QED
      BY <3>1, <3>2 DEF M
  <2> HIDE DEF more
  <2>1. all \in Seq(Docs) /\ Len(all) \in Nat
    BY <1>1, <2>0
  <2>8. ToSet(all) = ToSet(q.found) \cup ToSet(more)
    BY <1>1, <2>0, ConcatSet
  <2> HIDE DEF all
  <2>2. page \in Nat \ {0} /\ (page - 1) * PageSize \in Nat /\ PageSize \in Nat
    BY <1>1, <2>1, PageNumbers, SizesAssumption
  <2> HIDE DEF page
  <2>3. PageOf(all, page) \in Seq(Docs) /\ ToSet(PageOf(all, page)) \subseteq ToSet(all)
    BY <2>1, <2>2, SliceTakesRanks DEF PageOf
  <2>4. new \in RequestType
    BY <1>1, <2>1, <2>2, <2>3, <2>10 DEF RequestType
  <2>5. Named(new) \subseteq Named(q)
    BY <1>1, <2>0, <2>8, <2>3 DEF Named, RequestType
  <2> HIDE DEF new
  <2>6. Reads(r, "grep", new)
    BY <2>4, <2>5, <2>10 DEF Reads, MetaParts, all, page, more, new
  <2>7. Advances(r, "grep", new)
    BY <1>8, <2>6, <2>9 DEF Advances, Grep, all, page, more, new
  <2> QED
    BY <2>7
<1> QED
  BY <1>4, <1>5, <1>6, <1>7, <1>8


\* The peers of a session.
LEMMA PeersEffect ==
    ASSUME DocInv, NEW r \in Requests, req \in [Requests -> RequestType], Flow(req[r]),
           PeersByCategory(r) \/ PeersByProject(r)
    PROVE  \E s, new : Advances(r, s, new)
<1> DEFINE q == req[r]
<1>1. q \in RequestType /\ DocTypes
  BY DEF DocInv
<1>2. ASSUME NEW part \in {"category", "project"}
      PROVE  Peers(r, part) \in Seq(Docs) /\ ToSet(Peers(r, part)) \subseteq Scope(r)
  <2> DEFINE A == {d \in Scope(r) \ {q.doc} : row[d][part] = q.meta[part]}
  <2>1. A \in SUBSET ToSet(made) /\ A \subseteq Scope(r)
    BY <1>1, ScopeIsMade
  <2>2. <<>> \in Seq(Docs) /\ ToSet(<<>>) = {}
    BY DEF ToSet
  <2>3. 1 \in Nat \ {0}
    OBVIOUS
  <2> HIDE DEF A
  <2>4. Slice(Newest(A), 0, PeerLimit) \in Seq(Docs) /\ ToSet(Slice(Newest(A), 0, PeerLimit)) \subseteq A
    BY <1>1, <2>1, <2>3, PagesAreLists
  <2>5. Peers(r, part) = IF q.meta[part] = None THEN <<>> ELSE Slice(Newest(A), 0, PeerLimit)
    BY DEF Peers, A
  <2> QED
    BY <2>1, <2>2, <2>4, <2>5
<1>3. CASE PeersByCategory(r)
  <2> DEFINE new == [q EXCEPT !.found = Peers(r, "category")]
  <2>1. new \in RequestType
    BY <1>1, <1>2 DEF RequestType
  <2>2. Reads(r, "byCategory", new)
    BY <1>1, <1>2, <2>1 DEF Reads, MetaParts, Named, RequestType
  <2>3. Advances(r, "byCategory", new)
    BY <1>3, <2>2 DEF Advances, PeersByCategory
  <2> QED
    BY <2>3
<1>4. CASE PeersByProject(r)
  <2> DEFINE new == [q EXCEPT !.others = Peers(r, "project")]
  <2>1. new \in RequestType
    BY <1>1, <1>2 DEF RequestType
  <2>2. Reads(r, "byProject", new)
    BY <1>1, <1>2, <2>1 DEF Reads, MetaParts, Named, RequestType
  <2>3. Advances(r, "byProject", new)
    BY <1>4, <2>2 DEF Advances, PeersByProject
  <2> QED
    BY <2>3
<1> QED
  BY <1>3, <1>4

\* What a chain or diff view knows of its session when it reads a row.
LEMMA ChainViewer ==
    ASSUME NEW r \in Requests, req \in [Requests -> RequestType], Flow(req[r]),
           NEW s \in {"row", "versions", "diffs", "from", "to"}, At(r, s)
    PROVE  /\ req[r].kind \in {"chain", "diff"} /\ req[r].doc \in Docs /\ Here(req[r].doc)
           /\ req[r].uid # Nobody => row[req[r].doc].owner = req[r].uid
           /\ s # "row" => row[req[r].doc].chain # None
           /\ s = "diffs" => req[r].kind = "chain"
           /\ s \in {"from", "to"} => req[r].kind = "diff" /\ Len(req[r].found) = 2
<1> DEFINE k == req[r].kind
           n == req[r].next
<1>1. k \in Kinds /\ n \in 1..Len(Statements(k)) /\ Statements(k)[n] = s /\ Len(Statements(k)) \in Nat
  BY AtPlace, SomeStatements
<1>2. /\ k \in {"chain", "diff"} /\ n >= 6 /\ (s # "row" => n > 6) /\ (s \in {"from", "to"} => n > 7)
      /\ (s = "diffs" => k = "chain") /\ (s \in {"from", "to"} => k = "diff")
  BY <1>1, Places
<1>3. /\ Before(k, n, "session") /\ Before(k, n, "owner") /\ (s # "row" => Before(k, n, "row"))
      /\ (s \in {"from", "to"} => Before(k, n, "versions"))
  BY <1>1, <1>2, Order
<1> QED
  BY <1>2, <1>3 DEF Flow, Passed, Home

\* The row of the session asked about is read.
LEMMA RowEffect ==
    ASSUME DocInv, NEW r \in Requests, req \in [Requests -> RequestType], Flow(req[r]), ReadRow(r)
    PROVE  Refused(r) \/ Answers(r) \/ \E s, new : Advances(r, s, new)
<1> DEFINE q == req[r]
<1>1. At(r, "row") /\ q.kind \in {"chain", "diff"}
  BY ChainViewer DEF ReadRow
<1>2. CASE row[q.doc].deleted
  BY <1>2 DEF ReadRow
<1>3. CASE ~row[q.doc].deleted /\ row[q.doc].chain = None
  BY <1>1, <1>3 DEF ReadRow, Unlinked, Answers
<1>4. CASE ~row[q.doc].deleted /\ row[q.doc].chain # None
  <2>1. Reads(r, "row", q)
    BY <1>4 DEF Reads, MetaParts, Named
  <2>2. Advances(r, "row", q)
    BY <1>1, <1>4, <2>1 DEF Advances, ReadRow, ContinueIf
  <2> QED
    BY <2>2
<1> QED
  BY <1>2, <1>3, <1>4

\* The chain of a session that can be seen is its owner's.
LEMMA ChainInScope ==
    ASSUME DocInv, NEW r \in Requests, req \in [Requests -> RequestType], NEW d \in Docs, Here(d),
           row[d].chain # None, req[r].uid # Nobody => row[d].owner = req[r].uid, req[r].uid \in Callers
    PROVE  InChain(row[d].chain) \subseteq Scope(r)
<1>1. ASSUME NEW e \in InChain(row[d].chain) PROVE e \in Scope(r)
  <2>1. e \in Docs /\ Live(e) /\ row[e].chain = row[d].chain
    BY DEF InChain
  <2>2. /\ row[e].chain = ChainKey(e, auth) /\ posted[e] = Len(Upload) + 1
        /\ row[d].chain = ChainKey(d, auth) /\ posted[d] = Len(Upload) + 1
        /\ row[e].owner = IF auth /\ posted[e] > 2 THEN Form[e].user ELSE Nobody
        /\ row[d].owner = IF auth /\ posted[d] > 2 THEN Form[d].user ELSE Nobody
    BY <2>1 DEF DocInv, RowFollowsUpload
  <2>3. Len(Upload) + 1 = 7
    BY DEF Upload
  <2>4. (IF auth THEN Form[e].user ELSE Nobody) = (IF auth THEN Form[d].user ELSE Nobody)
    <3>1. ChainKey(e, auth)[1] = ChainKey(d, auth)[1]
      BY <2>1, <2>2
    <3> QED
      BY <3>1 DEF ChainKey
  <2>5. row[e].owner = row[d].owner
    BY <2>2, <2>3, <2>4
  <2> QED
    BY <2>1, <2>5 DEF Scope
<1> QED
  BY <1>1

\* The versions of the chain are read, and the sides of a diff found in them.
LEMMA VersionsEffect ==
    ASSUME DocInv, NEW r \in Requests, req \in [Requests -> RequestType], Flow(req[r]), ListVersions(r)
    PROVE  Refused(r) \/ \E s, new : Advances(r, s, new)
<1> DEFINE q == req[r]
           vs == ChainVersions(q.doc)
           n == Cardinality(InChain(row[q.doc].chain))
           from == VersionSession(vs, q.ask.pair[1])
           to == VersionSession(vs, q.ask.pair[2])
           resolves == q.kind = "diff" /\ from # {} /\ to # {} /\ from # to
           sides == IF resolves THEN <<CHOOSE d \in from : TRUE, CHOOSE d \in to : TRUE>> ELSE <<>>
           new == [q EXCEPT !.versions = vs, !.found = sides]
<1>1. At(r, "versions") /\ q \in RequestType
  BY DEF ListVersions
<1>2. /\ q.kind \in {"chain", "diff"} /\ q.doc \in Docs /\ Here(q.doc)
      /\ q.uid # Nobody => row[q.doc].owner = q.uid
      /\ row[q.doc].chain # None
  BY <1>1, ChainViewer
<1>3. /\ vs \in Seq(Versions) /\ DOMAIN vs = 1..n /\ n \in Nat /\ Len(vs) = n
      /\ \A i \in 1..n : vs[i].doc \in InChain(row[q.doc].chain)
      /\ \A i, j \in 1..n : i < j => vs[i].no < vs[j].no /\ vs[i].doc # vs[j].doc
  BY <1>2, ChainInOrder
<1>4. InChain(row[q.doc].chain) \subseteq Scope(r) /\ InChain(row[q.doc].chain) \subseteq Docs
  BY <1>2, ChainInScope DEF Flow, InChain
<1>5. (IF q.kind = "diff" THEN resolves ELSE \E i \in DOMAIN vs : vs[i].doc = q.doc) \/ Refused(r)
  BY DEF ListVersions
<1>6. SUFFICES ASSUME IF q.kind = "diff" THEN resolves ELSE \E i \in DOMAIN vs : vs[i].doc = q.doc
               PROVE  Advances(r, "versions", new)
  BY <1>5
<1>7. req' = [req EXCEPT ![r] = Then(new)]
  BY <1>6 DEF ListVersions
<1> HIDE DEF vs, n
<1>8. ASSUME NEW no, NEW S, S = VersionSession(vs, no), S # {}
      PROVE  \E j \in 1..n : /\ vs[j].doc = (CHOOSE d \in S : TRUE) /\ vs[j].no = no
                             /\ vs[j].doc \in InChain(row[q.doc].chain)
  <2>1. (CHOOSE d \in S : TRUE) \in S
    BY <1>8
  <2> QED
    BY <1>3, <1>8, <2>1 DEF VersionSession
<1>9. ASSUME resolves
      PROVE  /\ sides \in Seq(Docs) /\ Len(sides) = 2 /\ ToSet(sides) \subseteq Scope(r)
             /\ \A i \in 1..2 : \E j \in DOMAIN vs : vs[j].doc = sides[i] /\ vs[j].no = q.ask.pair[i]
             /\ sides[1] # sides[2]
  <2> DEFINE a == CHOOSE d \in from : TRUE
             b == CHOOSE d \in to : TRUE
  <2>1. PICK i \in 1..n : vs[i].doc = a /\ vs[i].no = q.ask.pair[1] /\ vs[i].doc \in InChain(row[q.doc].chain)
    BY <1>8, <1>9
  <2>2. PICK j \in 1..n : vs[j].doc = b /\ vs[j].no = q.ask.pair[2] /\ vs[j].doc \in InChain(row[q.doc].chain)
    BY <1>8, <1>9
  <2>3. sides = <<a, b>>
    BY <1>9
  <2>4. a # b
    <3>1. \A k \in 1..n : vs[k].no \in Nat
      <4>1. \A k \in 1..n : vs[k] \in Versions
        BY <1>3, ElementOfSeq
      <4> QED
        BY <4>1 DEF Versions
    <3>2. \A k, l \in 1..n : vs[k].no = vs[l].no => k = l
      BY <1>3, <3>1
    <3>3. \A k, l \in 1..n : vs[k].doc = vs[l].doc => k = l
      BY <1>3
    <3>4. from = {vs[i].doc}
      BY <1>3, <2>1, <3>2 DEF VersionSession
    <3>5. to = {vs[j].doc}
      BY <1>3, <2>2, <3>2 DEF VersionSession
    <3> QED
      BY <1>9, <2>1, <2>2, <3>4, <3>5
  <2>5. a \in Docs /\ b \in Docs /\ a \in Scope(r) /\ b \in Scope(r)
    BY <1>4, <2>1, <2>2
  <2> HIDE DEF a, b, from, to, sides
  <2>6. ToSet(<<a, b>>) = {a, b} /\ <<a, b>> \in Seq(Docs) /\ Len(<<a, b>>) = 2
    BY <2>5 DEF ToSet
  <2>7. sides[1] = a /\ sides[2] = b
    BY <2>3
  <2>8. \A k \in 1..2 : k = 1 \/ k = 2
    OBVIOUS
  <2>9. \A k \in 1..2 : \E l \in DOMAIN vs : vs[l].doc = sides[k] /\ vs[l].no = q.ask.pair[k]
    BY <1>3, <2>1, <2>2, <2>7, <2>8
  <2> QED
    BY <2>3, <2>4, <2>5, <2>6, <2>7, <2>9
<1>10. ~resolves => sides = <<>>
  OBVIOUS
<1>11. sides \in Seq(Docs) /\ ToSet(sides) \subseteq Scope(r)
  <2>1. <<>> \in Seq(Docs) /\ ToSet(<<>>) = {}
    BY DEF ToSet
  <2> QED
    BY <1>9, <1>10, <2>1
<1>12. {vs[i].doc : i \in DOMAIN vs} \subseteq Scope(r)
  BY <1>3, <1>4
<1>13. q.kind # "diff" => sides = <<>>
  OBVIOUS
<1> HIDE DEF from, to, sides
<1>14. new \in RequestType
  BY <1>1, <1>3, <1>11 DEF RequestType
<1>15. /\ new.versions = vs /\ new.found = sides /\ new.ask = q.ask /\ new.others = q.others
  BY <1>1 DEF RequestType
<1>16. Named(new) \subseteq Named(q) \cup Scope(r)
  BY <1>11, <1>12, <1>15 DEF Named
<1>17. q.kind = "diff" => Sides(new, vs)
  BY <1>6, <1>9, <1>15 DEF Sides
<1> HIDE DEF new
<1>18. Reads(r, "versions", new)
  BY <1>6, <1>13, <1>14, <1>15, <1>16, <1>17 DEF Reads, MetaParts, vs, new
<1> QED
  BY <1>1, <1>7, <1>18 DEF Advances


\* The differences of each version from the one before.
LEMMA DiffsEffect ==
    ASSUME DocInv, NEW r \in Requests, req \in [Requests -> RequestType], Flow(req[r]), DiffChainMetadata(r)
    PROVE  \E s, new : Advances(r, s, new)
<1> DEFINE q == req[r]
           vs == ChainVersions(q.doc)
           n == Cardinality(InChain(row[q.doc].chain))
           before(i) == IF i = 1 THEN [no |-> 0, meta |-> NoMeta] ELSE vs[i - 1]
           ds == [i \in DOMAIN vs |-> DiffVersions(before(i), vs[i])]
           new == [q EXCEPT !.diffs = ds]
<1>1. At(r, "diffs") /\ q \in RequestType
  BY DEF DiffChainMetadata
<1>2. q.doc \in Docs /\ row[q.doc].chain # None
  BY <1>1, ChainViewer
<1>3. vs \in Seq(Versions) /\ DOMAIN vs = 1..n /\ n \in Nat /\ Len(vs) = n
  BY <1>2, ChainInOrder
<1> HIDE DEF n
<1>4. ASSUME NEW a, NEW b, a.no \in Nat, a.meta \in Meta, b \in Versions
      PROVE  DiffVersions(a, b) \in Diffs
  BY <1>4 DEF DiffVersions, Diffs, Versions, Meta
<1>5. \A i \in 1..n : vs[i] \in Versions
  BY <1>3, ElementOfSeq
<1>6. \A i \in 1..n : ds[i] \in Diffs /\ ds[i] = DiffVersions(before(i), vs[i])
  <2>1. SUFFICES ASSUME NEW i \in 1..n PROVE DiffVersions(before(i), vs[i]) \in Diffs
    BY <1>3
  <2>2. NoMeta \in Meta
    BY DEF NoMeta, Meta, Word
  <2>3. CASE i = 1
    <3>1. before(i) = [no |-> 0, meta |-> NoMeta]
      BY <2>3
    <3>2. before(i).no \in Nat /\ before(i).meta \in Meta
      BY <2>2, <3>1
    <3> QED
      BY <1>4, <1>5, <3>2
  <2>4. CASE i # 1
    <3>1. i - 1 \in 1..n
      BY <1>3, <2>4
    <3>2. before(i) \in Versions
      BY <1>5, <2>4, <3>1
    <3>3. before(i).no \in Nat /\ before(i).meta \in Meta
      BY <3>2 DEF Versions
    <3> QED
      BY <1>4, <1>5, <3>3
  <2> QED
    BY <2>3, <2>4
<1>7. DOMAIN ds = DOMAIN vs /\ ds \in [1..n -> Diffs]
  BY <1>3, <1>6
<1> HIDE DEF ds, vs
<1>8. ds \in Seq(Diffs)
  BY <1>3, <1>7
<1>9. new \in RequestType
  BY <1>1, <1>8 DEF RequestType
<1>10. Named(new) = Named(q)
  BY <1>1 DEF Named, RequestType
<1>11. req' = [req EXCEPT ![r] = Then(new)]
  BY DEF DiffChainMetadata, ds, vs
<1> HIDE DEF new
<1>12. Reads(r, "diffs", new)
  <2>1. new = [q EXCEPT !.diffs = ds] /\ DOMAIN ds = DOMAIN vs
        /\ \A i \in DOMAIN vs :
              ds[i] = DiffVersions(IF i = 1 THEN [no |-> 0, meta |-> NoMeta] ELSE vs[i - 1], vs[i])
    BY <1>3, <1>6, <1>7 DEF new
  <2> QED
    BY <1>9, <1>10, <2>1 DEF Reads, MetaParts, vs
<1> QED
  BY <1>1, <1>11, <1>12 DEF Advances

\* The files of the two sides.
LEMMA TextsEffect ==
    ASSUME DocInv, NEW r \in Requests, req \in [Requests -> RequestType], Flow(req[r]), ReadSessionHTML(r)
    PROVE  \E s, new : Advances(r, s, new)
<1> DEFINE q == req[r]
           nth == IF At(r, "from") THEN 1 ELSE 2
           side == q.found[nth]
           whole == [q EXCEPT !.texts = Append(q.texts, row[side].text)]
           empty == [q EXCEPT !.texts = Append(q.texts, None), !.unread = q.unread \cup {side}]
<1>1. PICK s \in {"from", "to"} : At(r, s)
  BY DEF ReadSessionHTML
<1>2. nth = IF s = "from" THEN 1 ELSE 2
  BY <1>1 DEF At
<1>3. q \in RequestType /\ q.found \in Seq(Docs) /\ Len(q.found) = 2 /\ q.texts \in Seq(Word)
      /\ q.unread \in SUBSET Docs
  BY <1>1, ChainViewer DEF RequestType
<1>4. side \in Docs
  BY <1>3
<1>5. row[side].text \in Word /\ None \in Word
  BY <1>4 DEF DocInv, DocTypes, RowType, Word
<1>6. \/ req' = [req EXCEPT ![r] = Then(whole)]
      \/ req' = [req EXCEPT ![r] = Then(empty)]
  BY DEF ReadSessionHTML
<1>7. PICK new : /\ new = whole \/ new = empty
                 /\ req' = [req EXCEPT ![r] = Then(new)]
  <2> HIDE DEF whole, empty
  <2> QED
    BY <1>6
<1> HIDE DEF side
<1> DEFINE text == row[side].text
<1>8. /\ Append(q.texts, text) \in Seq(Word) /\ Append(q.texts, None) \in Seq(Word)
      /\ q.unread \cup {side} \in SUBSET Docs
  BY <1>3, <1>4, <1>5
<1> HIDE DEF text
<1>9. whole = [q EXCEPT !.texts = Append(q.texts, text)]
  BY DEF text
<1> HIDE DEF whole
<1>10. new \in RequestType
  <2>1. CASE new = whole
    BY <1>3, <1>8, <1>9, <2>1 DEF RequestType
  <2>2. CASE new = empty
    BY <1>3, <1>8, <2>2 DEF RequestType
  <2> QED
    BY <1>7, <2>1, <2>2
<1>11. Named(new) = Named(q)
  <2>1. new.found = q.found /\ new.others = q.others /\ new.versions = q.versions
    BY <1>3, <1>7, <1>9 DEF RequestType
  <2> QED
    BY <2>1 DEF Named
<1>12. Reads(r, s, new)
  <2> HIDE DEF nth
  <2> QED
    BY <1>2, <1>7, <1>10, <1>11 DEF Reads, MetaParts, side, whole
<1> QED
  BY <1>1, <1>7, <1>12 DEF Advances

\* All of them.
LEMMA ReadingOutcome ==
    ASSUME DocInv, NEW r \in Requests, req \in [Requests -> RequestType], Flow(req[r]), Reading(r)
    PROVE  Refused(r) \/ Answers(r) \/ \E s, new : Advances(r, s, new)
<1>1. CASE RequireSession(r) \/ RequireOwner(r)
  BY <1>1, GuardsEffect
<1>2. CASE ReadMetadata(r)
  BY <1>2, MetadataEffect
<1>3. CASE CountDocuments(r) \/ ListPage(r) \/ SearchDocuments(r) \/ ListDocuments(r) \/ Grep(r)
  BY <1>3, HomeEffect
<1>4. CASE PeersByCategory(r) \/ PeersByProject(r)
  BY <1>4, PeersEffect
<1>5. CASE ReadRow(r)
  BY <1>5, RowEffect
<1>6. CASE ListVersions(r)
  BY <1>6, VersionsEffect
<1>7. CASE DiffChainMetadata(r)
  BY <1>7, DiffsEffect
<1>8. CASE ReadSessionHTML(r)
  BY <1>8, TextsEffect
<1> QED
  BY <1>1, <1>2, <1>3, <1>4, <1>5, <1>6, <1>7, <1>8 DEF Reading


(***************************************************************************)
(* One step, seen by one request.  T are the documents the step changes.   *)
(***************************************************************************)
Ends(r) == req'[r] = Blank

Begun(k, u, d, ask) ==
    [Blank EXCEPT !.status = "busy", !.kind = k, !.uid = u, !.doc = d, !.ask = ask, !.page = ask.page]

Begins(r) ==
    \E k \in Kinds, u \in Callers, d \in Docs \cup {None} : \E ask \in Asks[k] :
        /\ k \notin Home => d \in Docs
        /\ req'[r] = Begun(k, u, d, ask)

Advanced(r, s, new) ==
    /\ At(r, s) /\ Reads(r, s, new) /\ req'[r] = Then(new)
    /\ UNCHANGED <<auth, made, row, posted>>

Answered(r) ==
    /\ At(r, "row") /\ req[r].kind = "chain" /\ row[req[r].doc].chain = None /\ ~row[req[r].doc].deleted
    /\ req'[r] = [req[r] EXCEPT !.status = "done",
                                !.versions = <<[Version(req[r].doc) EXCEPT !.meta = req[r].meta]>>]
    /\ UNCHANGED <<auth, made, row, posted>>

Wrote(r) ==
    LET d == req[r].doc
    IN  /\ At(r, "write") /\ d \in Docs /\ Here(d)
        /\ row'[d] = Edited(row[d], req[r].kind, req[r].ask.word)
        /\ row'[d] = Edited(row'[d], req[r].kind, req[r].ask.word)
        /\ req'[r] = Then([req[r] EXCEPT !.touched = {}])

Outcome(r, T) ==
    \/ Seen(r, T) \/ Ends(r) \/ Begins(r) \/ Answered(r) \/ Wrote(r)
    \/ \E s, new : Advanced(r, s, new)

Step(T) ==
    /\ T \in SUBSET Docs /\ DocInv' /\ Changes(T)
    /\ DOMAIN req' = Requests /\ req' = [r \in Requests |-> req'[r]]
    /\ \A r \in Requests : Outcome(r, T)

\* A step that changes the one request and no document.
LEMMA OneRequest ==
    ASSUME DocInv, req \in [Requests -> RequestType], NEW r \in Requests,
           UNCHANGED <<auth, made, row, posted>>, writes' \in 0..MaxWrites,
           NEW new, req' = [req EXCEPT ![r] = new], Outcome(r, {})
    PROVE  Step({})
<1>1. DocInv' /\ Changes({})
  BY DocsUnchanged
<1>2. \A x \in Requests : x # r => Seen(x, {})
  BY DEF Seen, RequestType
<1>3. DOMAIN req' = Requests /\ req' = [x \in Requests |-> req'[x]]
  OBVIOUS
<1> QED
  BY <1>1, <1>2, <1>3 DEF Step, Outcome

\* Every step of the system is one of those.
LEMMA StepOutcome ==
    ASSUME DocInv, req \in [Requests -> RequestType], Flows, [Next]_vars
    PROVE  \E T : Step(T)
<1>1. CASE UNCHANGED vars
  <2>1. UNCHANGED <<auth, made, row, posted>> /\ writes' \in 0..MaxWrites /\ req' = req
    BY <1>1 DEF vars, DocInv, DocTypes
  <2>2. DocInv' /\ Changes({})
    BY <2>1, DocsUnchanged
  <2>3. \A x \in Requests : Seen(x, {})
    BY <2>1 DEF Seen, RequestType
  <2>4. DOMAIN req' = Requests /\ req' = [x \in Requests |-> req'[x]]
    BY <2>1
  <2>5. Step({})
    BY <2>2, <2>3, <2>4 DEF Step, Outcome
  <2> QED
    BY <2>5
<1>2. ASSUME NEW d \in Docs, UploadStep(d) PROVE \E T : Step(T)
  <2>1. DocInv' /\ Changes({d}) /\ req' = Touch(d)
    BY <1>2, UploadKeepsDocs
  <2>2. \A x \in Requests : Seen(x, {d})
    BY <2>1 DEF Seen, Touch
  <2>3. DOMAIN req' = Requests /\ req' = [x \in Requests |-> req'[x]]
    BY <2>1 DEF Touch
  <2>4. Step({d})
    BY <2>1, <2>2, <2>3 DEF Step, Outcome
  <2> QED
    BY <2>4
<1>3. ASSUME NEW r \in Requests, Reading(r) \/ Leave(r) \/ Fails(r) \/ Arrives(r) PROVE \E T : Step(T)
  <2>1. PICK new : /\ UNCHANGED <<auth, made, row, posted>> /\ writes' \in 0..MaxWrites
                   /\ req' = [req EXCEPT ![r] = new]
    BY <1>3, ReadingEffect DEF DocInv, DocTypes
  <2>2. CASE Leave(r) \/ Fails(r)
    <3>1. Ends(r)
      BY <2>2 DEF Leave, Fails, Refused, Ends
    <3> QED
      BY <2>1, <3>1, OneRequest DEF Outcome
  <2>3. CASE Arrives(r)
    <3>1. Begins(r)
      <4>1. PICK k \in Serves[r], u \in Callers : \E d \in IF k \in Home THEN {None} ELSE Docs, ask \in Asks[k] :
                Arrive(r, k, u, d, ask)
        BY <2>3 DEF Arrives
      <4>2. PICK d \in IF k \in Home THEN {None} ELSE Docs, ask \in Asks[k] : Arrive(r, k, u, d, ask)
        BY <4>1
      <4>3. k \in Kinds /\ d \in Docs \cup {None} /\ (k \notin Home => d \in Docs)
        BY <4>2, ServesAssumption
      <4>4. req'[r] = Begun(k, u, d, ask)
        BY <4>2 DEF Arrive, Begun
      <4> QED
        BY <4>3, <4>4 DEF Begins
    <3> QED
      BY <2>1, <3>1, OneRequest DEF Outcome
  <2>4. CASE Reading(r)
    <3>1. Flow(req[r])
      <4>1. req[r].status = "busy"
        BY <2>4 DEF Reading, RequireSession, RequireOwner, ReadMetadata, CountDocuments, ListPage, SearchDocuments,
                    ListDocuments, Grep, PeersByCategory, PeersByProject, ReadRow, ListVersions,
                    DiffChainMetadata, ReadSessionHTML, At
      <4> QED
        BY <4>1 DEF Flows
    <3>2. Refused(r) \/ Answers(r) \/ \E s, x : Advances(r, s, x)
      BY <2>4, <3>1, ReadingOutcome
    <3>3. CASE Refused(r)
      <4>1. Ends(r)
        BY <3>3 DEF Refused, Ends
      <4> QED
        BY <2>1, <4>1, OneRequest DEF Outcome
    <3>4. CASE Answers(r)
      <4>1. Answered(r)
        BY <2>1, <3>4 DEF Answers, Answered
      <4> QED
        BY <2>1, <4>1, OneRequest DEF Outcome
    <3>5. ASSUME NEW s, NEW x, Advances(r, s, x) PROVE \E T : Step(T)
      <4>1. Advanced(r, s, x)
        BY <2>1, <3>5 DEF Advances, Advanced
      <4> QED
        BY <2>1, <4>1, OneRequest DEF Outcome
    <3> QED
      BY <3>2, <3>3, <3>4, <3>5
  <2> QED
    BY <1>3, <2>2, <2>3, <2>4
<1>4. ASSUME NEW r \in Requests, Write(r) PROVE \E T : Step(T)
  <2> DEFINE d == req[r].doc
             new == Edited(row[d], req[r].kind, req[r].ask.word)
             T == IF new = row[d] THEN {} ELSE {d}
  <2>1. Flow(req[r]) /\ At(r, "write")
    BY <1>4 DEF Write, At, Flows
  <2>2. /\ d \in Docs /\ req[r].kind \in Writing
        /\ \/ Refused(r) /\ UNCHANGED <<auth, made, row, posted, writes>>
           \/ WriteChanges(r, d, new)
    BY <1>4, <2>1, WriteEffect DEF DocInv
  <2>3. CASE Refused(r) /\ UNCHANGED <<auth, made, row, posted, writes>>
    <3>1. Ends(r)
      BY <2>3 DEF Refused, Ends
    <3>2. writes' \in 0..MaxWrites
      BY <2>3 DEF DocInv, DocTypes
    <3> QED
      BY <2>3, <3>1, <3>2, OneRequest DEF Outcome, Refused
  <2>4. CASE WriteChanges(r, d, new)
    <3>1. DocInv' /\ Changes(T)
      BY <2>2, <2>4, WriteKeepsDocs
    <3>2. /\ req' = [(IF new = row[d] THEN req ELSE Touch(d)) EXCEPT ![r] = Then([req[r] EXCEPT !.touched = {}])]
          /\ row' = [row EXCEPT ![d] = new] /\ Here(d) /\ Edited(new, req[r].kind, req[r].ask.word) = new
      BY <2>4 DEF WriteChanges
    <3>3. /\ DOMAIN req' = Requests /\ req' = [x \in Requests |-> req'[x]]
          /\ req'[r] = Then([req[r] EXCEPT !.touched = {}])
          /\ \A x \in Requests : x # r => req'[x] = IF new = row[d] THEN req[x] ELSE Touch(d)[x]
      BY <3>2 DEF Touch
    <3>4. \A x \in Requests : x # r => Seen(x, T)
      <4>1. CASE new = row[d]
        BY <3>3, <4>1 DEF Seen, RequestType
      <4>2. CASE new # row[d]
        BY <3>3, <4>2 DEF Seen, Touch
      <4> QED
        BY <4>1, <4>2
    <3>5. row'[d] = new
      BY <2>2, <3>2 DEF DocInv, DocTypes
    <3> HIDE DEF new
    <3>6. Wrote(r)
      <4>1. row'[d] = Edited(row[d], req[r].kind, req[r].ask.word)
        BY <3>5 DEF new
      <4> QED
        BY <2>1, <2>2, <3>2, <3>3, <3>5, <4>1 DEF Wrote
    <3>7. T \in SUBSET Docs
      BY <2>2
    <3> HIDE DEF T
    <3>8. Step(T)
      BY <3>1, <3>3, <3>4, <3>6, <3>7 DEF Step, Outcome
    <3> QED
      BY <3>8
  <2> QED
    BY <2>2, <2>3, <2>4
<1> QED
  BY <1>1, <1>2, <1>3, <1>4, StepKinds

(***************************************************************************)
(* The fields of a request after a step.                                   *)
(***************************************************************************)
\* Then only moves on.
LEMMA ThenFields ==
    ASSUME NEW new \in RequestType
    PROVE  /\ Then(new) \in RequestType /\ Then(new).next = new.next + 1
           /\ Then(new).status = IF new.next = Len(Statements(new.kind)) THEN "done" ELSE "busy"
           /\ Then(new).kind = new.kind /\ Then(new).uid = new.uid /\ Then(new).doc = new.doc
           /\ Then(new).ask = new.ask /\ Then(new).page = new.page /\ Then(new).meta = new.meta
           /\ Then(new).total = new.total /\ Then(new).found = new.found /\ Then(new).others = new.others
           /\ Then(new).versions = new.versions /\ Then(new).diffs = new.diffs
           /\ Then(new).texts = new.texts /\ Then(new).touched = new.touched
           /\ Then(new).unread = new.unread
<1> DEFINE status == IF new.next = Len(Statements(new.kind)) THEN "done" ELSE "busy"
<1>1. Then(new) = [new EXCEPT !.next = new.next + 1, !.status = status]
  BY DEF Then
<1>2. status \in {"off", "busy", "done"}
  OBVIOUS
<1> HIDE DEF status
<1>3. new.next + 1 \in Nat \ {0}
  BY DEF RequestType
<1>4. Then(new) \in RequestType
  BY <1>1, <1>2, <1>3, ZenonT(40) DEF RequestType
<1>5. /\ Then(new).next = new.next + 1 /\ Then(new).status = status
      /\ Then(new).kind = new.kind /\ Then(new).uid = new.uid /\ Then(new).doc = new.doc
      /\ Then(new).ask = new.ask /\ Then(new).page = new.page /\ Then(new).meta = new.meta
      /\ Then(new).total = new.total /\ Then(new).found = new.found /\ Then(new).others = new.others
      /\ Then(new).versions = new.versions /\ Then(new).diffs = new.diffs
      /\ Then(new).texts = new.texts /\ Then(new).touched = new.touched
      /\ Then(new).unread = new.unread
  BY <1>1 DEF RequestType
<1> QED
  BY <1>4, <1>5 DEF status

\* The statements there are.
LEMMA StatementNames ==
    ASSUME NEW r \in Requests, req[r] \in RequestType, Flow(req[r]), NEW s, At(r, s)
    PROVE  s \in {"session", "owner", "write", "tags", "category", "project", "count", "page", "search", "list",
                  "grep", "byCategory", "byProject", "row", "versions", "diffs", "from", "to"}
<1> DEFINE k == req[r].kind
           n == req[r].next
           t == Statements(k)
           names == {"session", "owner", "write", "tags", "category", "project", "count", "page", "search", "list",
                     "grep", "byCategory", "byProject", "row", "versions", "diffs", "from", "to"}
<1>1. k \in Kinds /\ n \in 1..Len(t) /\ t[n] = s
  BY AtPlace
<1>2. k \in Edits \/ k \in {"delete", "update", "list", "search", "metadata", "peers", "chain", "diff"}
  BY <1>1 DEF Kinds, Views
<1>3. /\ k \in Edits => t = <<"owner", "session", "write", "tags", "category", "project">>
      /\ k = "delete" => t = <<"owner", "write">>
      /\ k = "update" => t = <<"session", "owner", "write">>
      /\ k = "list" => t = <<"count", "page">>
      /\ k = "search" => t = <<"search", "list", "grep">>
      /\ k = "metadata" => t = <<"session", "owner", "tags", "category", "project">>
      /\ k = "peers" => t = <<"session", "owner", "tags", "category", "project", "byCategory", "byProject">>
      /\ k = "chain" => t = <<"session", "owner", "tags", "category", "project", "row", "versions", "diffs">>
      /\ k = "diff" => t = <<"session", "owner", "tags", "category", "project", "row", "versions", "from", "to">>
  BY Table
<1> HIDE DEF k, n, t
<1>4. \A i \in 1..Len(t) : t[i] \in names
  <2>1. CASE k \in Edits
    <3>1. /\ Len(t) = 6 /\ t[1] = "owner" /\ t[2] = "session" /\ t[3] = "write"
          /\ t[4] = "tags" /\ t[5] = "category" /\ t[6] = "project"
      BY <1>3, <2>1
    <3> QED
      BY <3>1
  <2>2. CASE k \in {"delete", "update", "list"}
    BY <1>3, <2>2
  <2>3. CASE k \in {"search", "metadata"}
    BY <1>3, <2>3
  <2>4. CASE k = "peers"
    <3>1. /\ Len(t) = 7 /\ t[1] = "session" /\ t[2] = "owner" /\ t[3] = "tags" /\ t[4] = "category"
          /\ t[5] = "project" /\ t[6] = "byCategory" /\ t[7] = "byProject"
      BY <1>3, <2>4
    <3> QED
      BY <3>1
  <2>5. CASE k = "chain"
    <3>1. /\ Len(t) = 8 /\ t[1] = "session" /\ t[2] = "owner" /\ t[3] = "tags" /\ t[4] = "category"
          /\ t[5] = "project" /\ t[6] = "row" /\ t[7] = "versions" /\ t[8] = "diffs"
      BY <1>3, <2>5
    <3> QED
      BY <3>1
  <2>6. CASE k = "diff"
    <3>1. /\ Len(t) = 9 /\ t[1] = "session" /\ t[2] = "owner" /\ t[3] = "tags" /\ t[4] = "category" /\ t[5] = "project"
          /\ t[6] = "row" /\ t[7] = "versions" /\ t[8] = "from" /\ t[9] = "to"
      BY <1>3, <2>6
    <3> QED
      BY <3>1
  <2> QED
    BY <1>2, <2>1, <2>2, <2>3, <2>4, <2>5, <2>6
<1> QED
  BY <1>1, <1>4 DEF n

\* What a statement that reads leaves alone.
LEMMA ReadsFields ==
    ASSUME NEW r \in Requests, req[r] \in RequestType, Flow(req[r]), NEW s, NEW new, At(r, s), Reads(r, s, new)
    PROVE  LET q == req[r]
           IN  /\ new \in RequestType /\ s # "write"
               /\ new.next = q.next /\ new.status = q.status /\ new.kind = q.kind
               /\ new.uid = q.uid /\ new.doc = q.doc /\ new.ask = q.ask /\ new.touched = q.touched
               /\ s \notin {"count", "grep"} => new.page = q.page /\ new.total = q.total
               /\ s \notin MetaParts => new.meta = q.meta
               /\ s \notin {"page", "search", "grep", "byCategory", "versions"} => new.found = q.found
               /\ s \notin {"list", "grep", "byProject"} => new.others = q.others
               /\ s # "versions" => new.versions = q.versions
               /\ s # "diffs" => new.diffs = q.diffs
               /\ s \notin {"from", "to"} => new.texts = q.texts
               /\ s \notin {"grep", "from", "to"} => new.unread = q.unread
<1> DEFINE q == req[r]
<1>1. /\ s \in {"session", "owner", "tags", "category", "project", "count", "page", "search", "list",
                "grep", "byCategory", "byProject", "row", "versions", "diffs", "from", "to", "write"}
      /\ new \in RequestType /\ s # "write" /\ q \in RequestType
  BY StatementNames DEF Reads
<1>2. CASE s \in {"session", "owner", "row"}
  <2>1. new = q
    BY <1>2 DEF Reads
  <2> QED
    BY <1>1, <1>2, <2>1 DEF MetaParts
<1>3. CASE s \in MetaParts
  <2>1. PICK x : new = [q EXCEPT !.meta = x]
    BY <1>3 DEF Reads
  <2> QED
    BY <1>1, <1>3, <2>1 DEF MetaParts, RequestType
<1>4. CASE s \in {"page", "search", "byCategory"}
  <2>1. PICK x : new = [q EXCEPT !.found = x]
    BY <1>4 DEF Reads
  <2> QED
    BY <1>1, <1>4, <2>1 DEF MetaParts, RequestType
<1>5. CASE s \in {"list", "byProject"}
  <2>1. PICK x : new = [q EXCEPT !.others = x]
    BY <1>5 DEF Reads
  <2> QED
    BY <1>1, <1>5, <2>1 DEF MetaParts, RequestType
<1>6. CASE s = "count"
  <2> DEFINE total == Cardinality(Filtered(r))
             page == ClampedPage(q.page, total)
  <2>1. new = [q EXCEPT !.total = total, !.page = page]
    BY <1>6 DEF Reads
  <2> HIDE DEF total, page
  <2> QED
    BY <1>1, <1>6, <2>1 DEF MetaParts, RequestType
<1>7. CASE s = "grep"
  <2>1. PICK u \in SUBSET Docs :
           LET all == q.found \o Newest(Matching(r) \ u)
               page == ClampedPage(q.page, Len(all))
           IN  new = [q EXCEPT !.others = all, !.total = Len(all), !.page = page, !.found = PageOf(all, page),
                               !.unread = u]
    BY <1>7 DEF Reads
  <2> DEFINE all == q.found \o Newest(Matching(r) \ u)
             total == Len(all)
             page == ClampedPage(q.page, total)
             found == PageOf(all, page)
  <2>2. new = [q EXCEPT !.others = all, !.total = total, !.page = page, !.found = found, !.unread = u]
    BY <2>1
  <2> HIDE DEF all, total, page, found
  <2> QED
    BY <1>1, <1>7, <2>2 DEF MetaParts, RequestType
<1>8. CASE s = "versions"
  <2> DEFINE vs == ChainVersions(q.doc)
  <2>2. \E y : new = [q EXCEPT !.versions = vs, !.found = y]
    BY <1>8 DEF Reads
  <2> HIDE DEF vs
  <2>1. PICK y : new = [q EXCEPT !.versions = vs, !.found = y]
    BY <2>2
  <2> QED
    BY <1>1, <1>8, <2>1 DEF MetaParts, RequestType
<1>9. CASE s = "diffs"
  <2>1. PICK x : new = [q EXCEPT !.diffs = x]
    BY <1>9 DEF Reads
  <2> QED
    BY <1>1, <1>9, <2>1 DEF MetaParts, RequestType
<1>10. CASE s \in {"from", "to"}
  <2> DEFINE side == q.found[IF s = "from" THEN 1 ELSE 2]
  <2>1. CASE new = [q EXCEPT !.texts = Append(q.texts, row[side].text)]
    BY <1>1, <1>10, <2>1 DEF MetaParts, RequestType
  <2>2. CASE new = [q EXCEPT !.texts = Append(q.texts, None), !.unread = q.unread \cup {side}]
    BY <1>1, <1>10, <2>2 DEF MetaParts, RequestType
  <2> QED
    BY <1>10, <2>1, <2>2 DEF Reads
<1> QED
  BY <1>1, <1>2, <1>3, <1>4, <1>5, <1>6, <1>7, <1>8, <1>9, <1>10 DEF MetaParts

\* A request after it has advanced: where it is, and what is unchanged in it.
LEMMA AdvancedFields ==
    ASSUME NEW r \in Requests, req[r] \in RequestType, Flow(req[r]), NEW s, NEW new, Advanced(r, s, new)
    PROVE  LET q == req[r]
               n == req'[r]
           IN  /\ n \in RequestType /\ s # "write" /\ q.status = "busy"
               /\ q.kind \in Kinds /\ q.next \in 1..Len(Statements(q.kind)) /\ Statements(q.kind)[q.next] = s
               /\ n.next = q.next + 1 /\ n.kind = q.kind
               /\ n.status = IF q.next = Len(Statements(q.kind)) THEN "done" ELSE "busy"
               /\ n.uid = q.uid /\ n.doc = q.doc /\ n.ask = q.ask /\ n.touched = q.touched
               /\ n.page = new.page /\ n.total = new.total /\ n.meta = new.meta /\ n.found = new.found
               /\ n.others = new.others /\ n.versions = new.versions /\ n.diffs = new.diffs /\ n.texts = new.texts
               /\ n.unread = new.unread
               /\ \A t : Passed(n, t) <=> Passed(q, t) \/ t = s
               /\ s \notin {"count", "grep"} => n.page = q.page /\ n.total = q.total
               /\ s \notin MetaParts => n.meta = q.meta
               /\ s \notin {"page", "search", "grep", "byCategory", "versions"} => n.found = q.found
               /\ s \notin {"list", "grep", "byProject"} => n.others = q.others
               /\ s # "versions" => n.versions = q.versions
               /\ s # "diffs" => n.diffs = q.diffs
               /\ s \notin {"from", "to"} => n.texts = q.texts
               /\ s \notin {"grep", "from", "to"} => n.unread = q.unread
<1> DEFINE q == req[r]
           n == req'[r]
<1>1. At(r, s) /\ Reads(r, s, new) /\ n = Then(new)
  BY DEF Advanced
<1>2. /\ new \in RequestType /\ s # "write"
      /\ new.next = q.next /\ new.status = q.status /\ new.kind = q.kind
      /\ new.uid = q.uid /\ new.doc = q.doc /\ new.ask = q.ask /\ new.touched = q.touched
      /\ s \notin {"count", "grep"} => new.page = q.page /\ new.total = q.total
      /\ s \notin MetaParts => new.meta = q.meta
      /\ s \notin {"page", "search", "grep", "byCategory", "versions"} => new.found = q.found
      /\ s \notin {"list", "grep", "byProject"} => new.others = q.others
      /\ s # "versions" => new.versions = q.versions
      /\ s # "diffs" => new.diffs = q.diffs
      /\ s \notin {"from", "to"} => new.texts = q.texts
      /\ s \notin {"grep", "from", "to"} => new.unread = q.unread
  BY <1>1, ReadsFields
<1>3. /\ n \in RequestType /\ n.next = new.next + 1
      /\ n.status = IF new.next = Len(Statements(new.kind)) THEN "done" ELSE "busy"
      /\ n.kind = new.kind /\ n.uid = new.uid /\ n.doc = new.doc
      /\ n.ask = new.ask /\ n.page = new.page /\ n.meta = new.meta
      /\ n.total = new.total /\ n.found = new.found /\ n.others = new.others
      /\ n.versions = new.versions /\ n.diffs = new.diffs
      /\ n.texts = new.texts /\ n.touched = new.touched /\ n.unread = new.unread
  BY <1>1, <1>2, ThenFields
<1>4. q.kind \in Kinds /\ q.next \in 1..Len(Statements(q.kind)) /\ Statements(q.kind)[q.next] = s /\ q.status = "busy"
  BY <1>1, AtPlace
<1> HIDE DEF n, q
<1>5. \A t : Passed(n, t) <=> Passed(q, t) \/ t = s
  <2>1. q.next \in Nat \ {0}
    BY <1>4
  <2> QED
    BY <1>2, <1>3, <1>4, <2>1, OneFurther DEF Passed
<1>6. n.page = new.page /\ n.total = new.total /\ n.meta = new.meta /\ n.found = new.found
      /\ n.others = new.others /\ n.versions = new.versions /\ n.diffs = new.diffs /\ n.texts = new.texts
      /\ n.unread = new.unread
  BY <1>3
<1>7. /\ n \in RequestType /\ s # "write"
      /\ n.next = q.next + 1 /\ n.kind = q.kind
      /\ n.status = IF q.next = Len(Statements(q.kind)) THEN "done" ELSE "busy"
      /\ n.uid = q.uid /\ n.doc = q.doc /\ n.ask = q.ask /\ n.touched = q.touched
  BY <1>2, <1>3
<1>8. /\ s \notin {"count", "grep"} => n.page = q.page /\ n.total = q.total
      /\ s \notin MetaParts => n.meta = q.meta
      /\ s \notin {"page", "search", "grep", "byCategory", "versions"} => n.found = q.found
      /\ s \notin {"list", "grep", "byProject"} => n.others = q.others
      /\ s # "versions" => n.versions = q.versions
      /\ s # "diffs" => n.diffs = q.diffs
      /\ s \notin {"from", "to"} => n.texts = q.texts
      /\ s \notin {"grep", "from", "to"} => n.unread = q.unread
  BY <1>2, <1>3
<1> QED
  BY <1>4, <1>5, <1>6, <1>7, <1>8 DEF n, q

\* The same of a request whose document somebody else changed.
LEMMA SeenFields ==
    ASSUME NEW r \in Requests, req[r] \in RequestType, NEW T \in SUBSET Docs, Seen(r, T), req[r].status # "off"
    PROVE  LET q == req[r]
               n == req'[r]
           IN  /\ n \in RequestType /\ n.status = q.status
               /\ n.next = q.next /\ n.kind = q.kind /\ n.uid = q.uid /\ n.doc = q.doc /\ n.ask = q.ask
               /\ n.touched = q.touched \cup T
               /\ n.page = q.page /\ n.total = q.total /\ n.meta = q.meta /\ n.found = q.found
               /\ n.others = q.others /\ n.versions = q.versions /\ n.diffs = q.diffs /\ n.texts = q.texts
               /\ n.unread = q.unread
               /\ \A t : Passed(n, t) <=> Passed(q, t)
<1>1. req'[r] = [req[r] EXCEPT !.touched = req[r].touched \cup T]
  BY DEF Seen
<1>2. /\ req'[r] \in RequestType /\ req'[r].touched = req[r].touched \cup T
      /\ req'[r].status = req[r].status /\ req'[r].next = req[r].next /\ req'[r].kind = req[r].kind
      /\ req'[r].uid = req[r].uid /\ req'[r].doc = req[r].doc /\ req'[r].ask = req[r].ask
      /\ req'[r].page = req[r].page /\ req'[r].total = req[r].total /\ req'[r].meta = req[r].meta
      /\ req'[r].found = req[r].found /\ req'[r].others = req[r].others
      /\ req'[r].versions = req[r].versions /\ req'[r].diffs = req[r].diffs /\ req'[r].texts = req[r].texts
      /\ req'[r].unread = req[r].unread
  BY <1>1, ZenonT(40) DEF RequestType
<1>3. \A t : Passed(req'[r], t) <=> Passed(req[r], t)
  BY <1>2 DEF Passed
<1> QED
  BY <1>2, <1>3

\* A slot without a request.
LEMMA BlankFields ==
    /\ Blank \in RequestType /\ Blank.status = "off" /\ Blank.next = 1
    /\ Blank.found = <<>> /\ Blank.others = <<>> /\ Blank.versions = <<>> /\ Blank.texts = <<>>
    /\ Blank.unread = {}
<1>1. /\ NoMeta \in Meta /\ <<>> \in Seq(Docs) /\ <<>> \in Seq(Versions) /\ <<>> \in Seq(Diffs)
      /\ <<>> \in Seq(Word)
  BY DEF NoMeta, Meta, Word
<1>2. NoAsk \in Asking
  BY DEF NoAsk, Asking, Word
<1>3. "list" \in Kinds
  BY DEF Kinds, Views
<1> QED
  BY <1>1, <1>2, <1>3 DEF Blank, RequestType

\* A request that has just arrived.
LEMMA BegunFields ==
    ASSUME NEW r \in Requests, Begins(r)
    PROVE  LET n == req'[r]
           IN  /\ n \in RequestType /\ n.status = "busy" /\ n.next = 1
               /\ n.uid \in Callers /\ n.ask \in Asks[n.kind] /\ (n.kind \notin Home => n.doc \in Docs)
               /\ n.page = n.ask.page /\ n.texts = <<>> /\ n.versions = <<>> /\ n.unread = {}
               /\ Named(n) = {}
               /\ \A t : ~Passed(n, t)
<1>1. PICK k \in Kinds, u \in Callers, d \in Docs \cup {None} :
         \E ask \in Asks[k] : (k \notin Home => d \in Docs) /\ req'[r] = Begun(k, u, d, ask)
  BY DEF Begins
<1>2. PICK ask \in Asks[k] : (k \notin Home => d \in Docs) /\ req'[r] = Begun(k, u, d, ask)
  BY <1>1
<1>3. ask \in Asking /\ ask.page \in Nat \ {0} /\ u \in Users \cup {Nobody}
  BY AsksAssumption DEF Asking, Callers
<1> DEFINE n == req'[r]
<1>4. n = [Blank EXCEPT !.status = "busy", !.kind = k, !.uid = u, !.doc = d, !.ask = ask, !.page = ask.page]
  BY <1>2 DEF Begun
<1> HIDE DEF n
<1>5. Blank \in RequestType /\ Blank.next = 1 /\ Blank.found = <<>> /\ Blank.others = <<>>
      /\ Blank.versions = <<>> /\ Blank.texts = <<>> /\ Blank.unread = {}
  BY BlankFields
<1>6. n \in RequestType
  BY <1>3, <1>4, <1>5 DEF RequestType
<1>7. /\ n.status = "busy" /\ n.next = 1 /\ n.uid = u /\ n.kind = k /\ n.ask = ask /\ n.doc = d
      /\ n.page = ask.page /\ n.texts = <<>> /\ n.versions = <<>> /\ n.found = <<>> /\ n.others = <<>>
      /\ n.unread = {}
  BY <1>4, <1>5 DEF RequestType
<1>8. Named(n) = {}
  BY <1>7 DEF Named, ToSet
<1>9. \A t : ~Passed(n, t)
  BY <1>7 DEF Passed, Before
<1> QED
  BY <1>2, <1>6, <1>7, <1>8, <1>9 DEF n

\* A chain view of a session in no chain, answered.
LEMMA AnsweredFields ==
    ASSUME DocInv, NEW r \in Requests, req \in [Requests -> RequestType], Flow(req[r]), Answered(r)
    PROVE  LET q == req[r]
               n == req'[r]
           IN  /\ n \in RequestType /\ n.status = "done" /\ q.status = "busy"
               /\ q.kind = "chain" /\ q.next = 6 /\ q.doc \in Docs /\ Here(q.doc)
               /\ n.next = q.next /\ n.kind = q.kind /\ n.uid = q.uid /\ n.doc = q.doc /\ n.ask = q.ask
               /\ n.touched = q.touched
               /\ n.page = q.page /\ n.total = q.total /\ n.meta = q.meta /\ n.found = q.found
               /\ n.others = q.others /\ n.diffs = q.diffs /\ n.texts = q.texts
               /\ Len(n.versions) = 1 /\ DOMAIN n.versions = {1} /\ n.versions[1].doc = q.doc
               /\ Named(n) \subseteq Named(q) \cup {q.doc}
               /\ \A t : Passed(n, t) <=> Passed(q, t)
<1> DEFINE q == req[r]
           n == req'[r]
           v == [Version(q.doc) EXCEPT !.meta = q.meta]
<1>1. At(r, "row") /\ q.kind = "chain"
  BY DEF Answered
<1>2. q.doc \in Docs /\ Here(q.doc)
  BY <1>1, ChainViewer
<1>3. q.kind \in Kinds /\ q.next \in 1..Len(Statements(q.kind)) /\ Statements(q.kind)[q.next] = "row" /\ q.status = "busy"
  BY <1>1, AtPlace
<1>4. q.next = 6
  BY <1>3, Places
<1>5. v \in Versions /\ v.doc = q.doc
  BY <1>2 DEF Version, Versions, RequestType, DocInv, DocTypes, RowType, MetaOf, Meta
<1>6. n = [q EXCEPT !.status = "done", !.versions = <<v>>]
  BY DEF Answered
<1> HIDE DEF v
<1>7. <<v>> \in Seq(Versions) /\ Len(<<v>>) = 1 /\ DOMAIN <<v>> = {1} /\ <<v>>[1] = v
  BY <1>5
<1>12. q \in RequestType
  OBVIOUS
<1> HIDE DEF n, q
<1>8. n \in RequestType
  BY <1>6, <1>7, <1>12 DEF RequestType
<1>9. /\ n.status = "done" /\ n.versions = <<v>>
      /\ n.next = q.next /\ n.kind = q.kind /\ n.uid = q.uid /\ n.doc = q.doc /\ n.ask = q.ask
      /\ n.touched = q.touched
      /\ n.page = q.page /\ n.total = q.total /\ n.meta = q.meta /\ n.found = q.found
      /\ n.others = q.others /\ n.diffs = q.diffs /\ n.texts = q.texts
  BY <1>6, <1>12 DEF RequestType
<1>10. \A t : Passed(n, t) <=> Passed(q, t)
  BY <1>9 DEF Passed
<1>11. Named(n) \subseteq Named(q) \cup {q.doc}
  BY <1>5, <1>7, <1>9 DEF Named
<1> QED
  BY <1>1, <1>2, <1>3, <1>4, <1>5, <1>7, <1>8, <1>9, <1>10, <1>11 DEF n, q

\* A request that has written.
LEMMA WroteFields ==
    ASSUME NEW r \in Requests, req[r] \in RequestType, Flow(req[r]), Wrote(r)
    PROVE  LET q == req[r]
               n == req'[r]
           IN  /\ n \in RequestType /\ q.kind \in Writing
               /\ q.next \in 1..Len(Statements(q.kind)) /\ Statements(q.kind)[q.next] = "write"
               /\ n.next = q.next + 1 /\ n.kind = q.kind
               /\ n.status = IF q.next = Len(Statements(q.kind)) THEN "done" ELSE "busy"
               /\ n.uid = q.uid /\ n.doc = q.doc /\ n.ask = q.ask /\ n.touched = {}
               /\ n.meta = q.meta /\ n.found = q.found /\ n.others = q.others /\ n.versions = q.versions
               /\ \A t : Passed(n, t) <=> Passed(q, t) \/ t = "write"
<1> DEFINE q == req[r]
           n == req'[r]
           new == [q EXCEPT !.touched = {}]
<1>1. At(r, "write") /\ n = Then(new)
  BY DEF Wrote
<1>2. q.kind \in Kinds /\ q.next \in 1..Len(Statements(q.kind)) /\ Statements(q.kind)[q.next] = "write"
  BY <1>1, AtPlace
<1>3. q.kind \in Writing
  BY <1>2, Places
<1>4. /\ new \in RequestType /\ new.next = q.next /\ new.kind = q.kind /\ new.uid = q.uid /\ new.doc = q.doc
      /\ new.ask = q.ask /\ new.touched = {} /\ new.meta = q.meta /\ new.found = q.found
      /\ new.others = q.others /\ new.versions = q.versions
  BY DEF RequestType
<1> HIDE DEF new
<1>5. /\ n \in RequestType /\ n.next = new.next + 1
      /\ n.status = IF new.next = Len(Statements(new.kind)) THEN "done" ELSE "busy"
      /\ n.kind = new.kind /\ n.uid = new.uid /\ n.doc = new.doc /\ n.ask = new.ask /\ n.meta = new.meta
      /\ n.found = new.found /\ n.others = new.others /\ n.versions = new.versions /\ n.touched = new.touched
  BY <1>1, <1>4, ThenFields
<1> HIDE DEF n, q
<1>6. /\ n.next = q.next + 1 /\ n.kind = q.kind
      /\ n.status = IF q.next = Len(Statements(q.kind)) THEN "done" ELSE "busy"
      /\ n.uid = q.uid /\ n.doc = q.doc /\ n.ask = q.ask /\ n.touched = {}
      /\ n.meta = q.meta /\ n.found = q.found /\ n.others = q.others /\ n.versions = q.versions
  BY <1>4, <1>5
<1>7. \A t : Passed(n, t) <=> Passed(q, t) \/ t = "write"
  <2>1. q.next \in Nat \ {0}
    BY <1>2
  <2> QED
    BY <1>2, <1>6, <2>1, OneFurther DEF Passed
<1> QED
  BY <1>2, <1>3, <1>5, <1>6, <1>7 DEF n, q

(***************************************************************************)
(* The flow of a request is kept by every step.                            *)
(***************************************************************************)
\* A session that is there is one of Docs, and stays.
LEMMA HereStays ==
    ASSUME DocInv, NEW T, Changes(T), NEW d, Here(d)
    PROVE  d \in Docs /\ Here(d)'
<1>1. d \in Docs
  BY DEF DocInv, DocTypes, Here, ToSet
<1> QED
  BY <1>1 DEF Changes

\* What a flow says about a request that is where q was and knows what q knew.
LEMMA FlowKept ==
    ASSUME DocInv, NEW q \in RequestType, Flow(q), NEW T, Changes(T), NEW r \in Requests,
           req'[r].uid = q.uid, req'[r].ask = q.ask, req'[r].kind = q.kind, req'[r].doc = q.doc,
           req'[r].next \in 1..Len(Statements(q.kind)) + 1,
           req'[r].status = "busy" => req'[r].next <= Len(Statements(q.kind)),
           req'[r].status = "done" =>
               req'[r].next = Len(Statements(q.kind)) + 1 \/ (q.kind = "chain" /\ req'[r].next = 6),
           Passed(req'[r], "session") => Passed(q, "session") \/ Here(q.doc),
           Passed(req'[r], "owner") => \/ Passed(q, "owner") \/ q.uid = Nobody
                                       \/ (Here(q.doc) /\ row[q.doc].owner = q.uid),
           Passed(req'[r], "row") => Passed(q, "row") \/ row[q.doc].chain # None,
           Passed(req'[r], "versions") /\ q.kind = "diff" => Len(req'[r].found) = 2,
           \A d \in Named(req'[r]) : Here(d)
    PROVE  Flow(req[r])'
<1> DEFINE n == req'[r]
<1>1. /\ n.next \in 1..Len(Statements(n.kind)) + 1
      /\ n.status = "busy" => n.next <= Len(Statements(n.kind))
      /\ n.status = "done" => n.next = Len(Statements(n.kind)) + 1 \/ (n.kind = "chain" /\ n.next = 6)
      /\ n.uid \in Callers' /\ n.ask \in Asks[n.kind]
      /\ n.kind \notin Home => n.doc \in Docs
      /\ Passed(n, "versions") /\ n.kind = "diff" => Len(n.found) = 2
  BY DEF Flow, Changes, Callers
<1>2. ASSUME Passed(n, "session") PROVE Here(q.doc)'
  <2>1. Here(q.doc)
    BY <1>2 DEF Flow
  <2> QED
    BY <2>1, HereStays
<1>3. ASSUME Passed(n, "owner"), q.uid # Nobody PROVE Here(q.doc)' /\ row'[q.doc].owner = q.uid
  <2>1. Here(q.doc) /\ row[q.doc].owner = q.uid /\ q.uid # Nobody
    BY <1>3 DEF Flow
  <2>2. Here(q.doc)' /\ q.doc \in Docs
    BY <2>1, HereStays
  <2> QED
    BY <2>1, <2>2 DEF Changes
<1>4. ASSUME Passed(n, "row") PROVE row'[q.doc].chain # None
  <2>1. row[q.doc].chain # None
    BY <1>4 DEF Flow
  <2>2. q.doc \in Docs
    <3>1. ASSUME q.kind \in Home PROVE FALSE
      <4>1. PICK i \in 1..Len(Statements(q.kind)) : Statements(q.kind)[i] = "row"
        <5>1. Len(Statements(q.kind)) \in Nat
          BY SomeStatements DEF RequestType
        <5> QED
          BY <1>4, <5>1 DEF Passed, Before
      <4>2. q.kind \in Kinds
        BY DEF RequestType
      <4> QED
        BY <3>1, <4>1, <4>2, Places DEF Home
    <3> QED
      BY <3>1 DEF Flow
  <2> QED
    BY <2>1, <2>2 DEF Changes
<1>5. ASSUME NEW d \in Named(n) PROVE Here(d)'
  BY <1>5, HereStays
<1>6. Passed(n, "session") => Here(q.doc)'
  BY <1>2
<1>7. Passed(n, "owner") /\ q.uid # Nobody => Here(q.doc)' /\ row'[q.doc].owner = q.uid
  BY <1>3
<1>8. Passed(n, "row") => row'[q.doc].chain # None
  BY <1>4
<1>9. \A d \in Named(n) : Here(d)'
  BY <1>5
<1>10. /\ Here(req[r].doc)' <=> Here(q.doc)'
       /\ \A s : Passed(req[r], s)' <=> Passed(n, s)
       /\ Named(req[r])' = Named(n)
  BY DEF Here, Passed, Before, Named
<1> QED
  BY <1>1, <1>6, <1>7, <1>8, <1>9, <1>10 DEF Flow

\* Each outcome of a step keeps the flow.
LEMMA FlowStep ==
    ASSUME DocInv, req \in [Requests -> RequestType], NEW r \in Requests, req[r].status # "off" => Flow(req[r]),
           NEW T \in SUBSET Docs, Changes(T), Outcome(r, T)
    PROVE  req'[r] \in RequestType /\ (req'[r].status # "off" => Flow(req[r])')
<1> DEFINE q == req[r]
           n == req'[r]
<1>1. q \in RequestType /\ Len(Statements(q.kind)) \in Nat \ {0} /\ q.kind \in Kinds
  BY SomeStatements DEF RequestType
<1>2. CASE Seen(r, T)
  <2>1. CASE q.status = "off"
    BY <1>2, <2>1 DEF Seen
  <2>2. CASE q.status # "off"
    <3>1. /\ n \in RequestType /\ n.status = q.status
          /\ n.next = q.next /\ n.kind = q.kind /\ n.uid = q.uid /\ n.doc = q.doc /\ n.ask = q.ask
          /\ n.found = q.found /\ n.others = q.others /\ n.versions = q.versions
          /\ \A t : Passed(n, t) <=> Passed(q, t)
      BY <1>2, <2>2, SeenFields
    <3>2. Named(n) = Named(q)
      BY <3>1 DEF Named
    <3>3. Flow(q)
      BY <2>2
    <3>4. /\ n.next \in 1..Len(Statements(q.kind)) + 1
          /\ n.status = "busy" => n.next <= Len(Statements(q.kind))
          /\ n.status = "done" => n.next = Len(Statements(q.kind)) + 1 \/ (q.kind = "chain" /\ n.next = 6)
          /\ Passed(n, "versions") /\ q.kind = "diff" => Len(n.found) = 2
          /\ \A d \in Named(n) : Here(d)
      BY <3>1, <3>2, <3>3 DEF Flow
    <3>5. Flow(req[r])'
      BY <1>1, <3>1, <3>3, <3>4, FlowKept
    <3> QED
      BY <3>1, <3>5
  <2> QED
    BY <2>1, <2>2
<1>3. CASE Ends(r)
  BY <1>3, BlankFields DEF Ends
<1>4. CASE Begins(r)
  <2>1. /\ n \in RequestType /\ n.status = "busy" /\ n.next = 1
        /\ n.uid \in Callers /\ n.ask \in Asks[n.kind] /\ (n.kind \notin Home => n.doc \in Docs)
        /\ Named(n) = {} /\ \A t : ~Passed(n, t)
    BY <1>4, BegunFields
  <2>2. n.uid \in Callers' /\ n.next <= Len(Statements(n.kind)) /\ n.next \in 1..Len(Statements(n.kind)) + 1
    <3>1. Len(Statements(n.kind)) \in Nat \ {0}
      BY <2>1, SomeStatements DEF RequestType
    <3> QED
      BY <2>1, <3>1 DEF Changes, Callers
  <2>3. (\A t : ~Passed(req[r], t)') /\ Named(req[r])' = {}
    BY <2>1 DEF Passed, Before, Named
  <2>4. Flow(req[r])'
    BY <2>1, <2>2, <2>3 DEF Flow
  <2> QED
    BY <2>1, <2>4
<1>5. CASE Answered(r)
  <2>1. Flow(q)
    BY <1>5 DEF Answered, At
  <2>2. /\ n \in RequestType /\ n.status = "done" /\ q.status = "busy"
        /\ q.kind = "chain" /\ q.next = 6 /\ q.doc \in Docs /\ Here(q.doc)
        /\ n.next = q.next /\ n.kind = q.kind /\ n.uid = q.uid /\ n.doc = q.doc /\ n.ask = q.ask
        /\ n.found = q.found
        /\ Named(n) \subseteq Named(q) \cup {q.doc}
        /\ \A t : Passed(n, t) <=> Passed(q, t)
    BY <1>5, <2>1, AnsweredFields
  <2>3. /\ n.next \in 1..Len(Statements(q.kind)) + 1
        /\ n.status = "busy" => n.next <= Len(Statements(q.kind))
        /\ n.status = "done" => n.next = Len(Statements(q.kind)) + 1 \/ (q.kind = "chain" /\ n.next = 6)
        /\ Passed(n, "versions") /\ q.kind = "diff" => Len(n.found) = 2
        /\ \A d \in Named(n) : Here(d)
    BY <2>1, <2>2 DEF Flow
  <2>4. Flow(req[r])'
    BY <1>1, <2>1, <2>2, <2>3, FlowKept
  <2> QED
    BY <2>2, <2>4
<1>6. CASE Wrote(r)
  <2>1. Flow(q) /\ q.status = "busy" /\ Here(q.doc) /\ q.doc \in Docs
    BY <1>6 DEF Wrote, At
  <2>2. /\ n \in RequestType /\ q.kind \in Writing
        /\ q.next \in 1..Len(Statements(q.kind))
        /\ n.next = q.next + 1 /\ n.kind = q.kind
        /\ n.status = IF q.next = Len(Statements(q.kind)) THEN "done" ELSE "busy"
        /\ n.uid = q.uid /\ n.doc = q.doc /\ n.ask = q.ask
        /\ n.found = q.found /\ n.others = q.others /\ n.versions = q.versions
        /\ \A t : Passed(n, t) <=> Passed(q, t) \/ t = "write"
    BY <1>6, <2>1, WroteFields
  <2>3. Named(n) = Named(q)
    BY <2>2 DEF Named
  <2>4. /\ n.next \in 1..Len(Statements(q.kind)) + 1
        /\ n.status = "busy" => n.next <= Len(Statements(q.kind))
        /\ n.status = "done" => n.next = Len(Statements(q.kind)) + 1 \/ (q.kind = "chain" /\ n.next = 6)
        /\ Passed(n, "versions") /\ q.kind = "diff" => Len(n.found) = 2
        /\ \A d \in Named(n) : Here(d)
    BY <1>1, <2>1, <2>2, <2>3 DEF Flow
  <2>5. Flow(req[r])'
    BY <1>1, <2>1, <2>2, <2>4, FlowKept
  <2> QED
    BY <2>2, <2>5
<1>7. ASSUME NEW s, NEW new, Advanced(r, s, new)
      PROVE  req'[r] \in RequestType /\ Flow(req[r])'
  <2>1. Flow(q) /\ q.status = "busy" /\ Reads(r, s, new)
    BY <1>7 DEF Advanced, At
  <2>2. /\ n \in RequestType
        /\ q.next \in 1..Len(Statements(q.kind))
        /\ n.next = q.next + 1 /\ n.kind = q.kind
        /\ n.status = IF q.next = Len(Statements(q.kind)) THEN "done" ELSE "busy"
        /\ n.uid = q.uid /\ n.doc = q.doc /\ n.ask = q.ask
        /\ n.found = new.found /\ n.others = new.others /\ n.versions = new.versions
        /\ \A t : Passed(n, t) <=> Passed(q, t) \/ t = s
        /\ s # "versions" /\ q.kind = "diff" => n.found = q.found
    <3>1. /\ n \in RequestType
          /\ q.next \in 1..Len(Statements(q.kind)) /\ Statements(q.kind)[q.next] = s
          /\ n.next = q.next + 1 /\ n.kind = q.kind
          /\ n.status = IF q.next = Len(Statements(q.kind)) THEN "done" ELSE "busy"
          /\ n.uid = q.uid /\ n.doc = q.doc /\ n.ask = q.ask
          /\ n.found = new.found /\ n.others = new.others /\ n.versions = new.versions
          /\ \A t : Passed(n, t) <=> Passed(q, t) \/ t = s
          /\ s \notin {"page", "search", "grep", "byCategory", "versions"} => n.found = q.found
      BY <1>1, <1>7, <2>1, AdvancedFields
    <3>2. q.kind = "diff" => s \notin {"page", "search", "grep", "byCategory"}
      BY <1>1, <3>1, Places
    <3> QED
      BY <3>1, <3>2
  <2>3. /\ s = "session" => Here(q.doc)
        /\ s = "owner" => q.uid = Nobody \/ (Here(q.doc) /\ row[q.doc].owner = q.uid)
        /\ s = "row" => row[q.doc].chain # None
        /\ s = "versions" /\ q.kind = "diff" => Len(new.found) = 2
        /\ Named(new) \subseteq Named(q) \cup Scope(r)
    BY <2>1 DEF Reads, Sides
  <2>4. Named(n) = Named(new)
    BY <2>2 DEF Named
  <2>5. \A d \in Named(n) : Here(d)
    BY <2>1, <2>3, <2>4 DEF Flow, Scope, Live
  <2>6. Passed(n, "versions") /\ q.kind = "diff" => Len(n.found) = 2
    BY <2>1, <2>2, <2>3 DEF Flow
  <2>7. /\ n.next \in 1..Len(Statements(q.kind)) + 1
        /\ n.status = "busy" => n.next <= Len(Statements(q.kind))
        /\ n.status = "done" => n.next = Len(Statements(q.kind)) + 1 \/ (q.kind = "chain" /\ n.next = 6)
    BY <1>1, <2>2
  <2>8. /\ Passed(n, "session") => Passed(q, "session") \/ Here(q.doc)
        /\ Passed(n, "owner") => \/ Passed(q, "owner") \/ q.uid = Nobody
                                 \/ (Here(q.doc) /\ row[q.doc].owner = q.uid)
        /\ Passed(n, "row") => Passed(q, "row") \/ row[q.doc].chain # None
    BY <2>2, <2>3
  <2>9. Flow(req[r])'
    BY <1>1, <2>1, <2>2, <2>5, <2>6, <2>7, <2>8, FlowKept
  <2> QED
    BY <2>2, <2>9
<1> QED
  BY <1>2, <1>3, <1>4, <1>5, <1>6, <1>7 DEF Outcome

(***************************************************************************)
(* Initially.                                                              *)
(***************************************************************************)
\* The versions of an old session's chain up to it.
Linked(i, withAuth) ==
    {j \in 1..i : Form[Old[j]].zip /\ ChainKey(Old[j], withAuth) = ChainKey(Old[i], withAuth)}

\* They are counted, and grow along a chain.
LEMMA LinkedGrow ==
    ASSUME NEW a
    PROVE  /\ \A i \in 1..Len(Old) : Cardinality(Linked(i, a)) \in Nat
           /\ \A i, j \in 1..Len(Old) :
                 i < j /\ Form[Old[j]].zip /\ ChainKey(Old[i], a) = ChainKey(Old[j], a)
                     => Cardinality(Linked(i, a)) # Cardinality(Linked(j, a))
<1>1. Len(Old) \in Nat
  BY OldAssumption
<1>2. ASSUME NEW i \in 1..Len(Old)
      PROVE  IsFiniteSet(Linked(i, a)) /\ Cardinality(Linked(i, a)) \in Nat
  <2>1. i \in Int /\ Linked(i, a) \in SUBSET (1..i)
    BY <1>1 DEF Linked
  <2>2. IsFiniteSet(1..i)
    BY <2>1, FS_Interval
  <2>3. IsFiniteSet(Linked(i, a))
    BY <2>1, <2>2, FS_Subset
  <2> QED
    BY <2>3, FS_CardinalityType
<1>3. ASSUME NEW i \in 1..Len(Old), NEW j \in 1..Len(Old),
             i < j, Form[Old[j]].zip, ChainKey(Old[i], a) = ChainKey(Old[j], a)
      PROVE  Cardinality(Linked(i, a)) # Cardinality(Linked(j, a))
  <2>1. Linked(i, a) \in SUBSET Linked(j, a)
    BY <1>1, <1>3 DEF Linked
  <2>2. j \in Linked(j, a) /\ j \notin Linked(i, a)
    BY <1>1, <1>3 DEF Linked
  <2>3. IsFiniteSet(Linked(j, a))
    BY <1>2
  <2> QED
    BY <2>1, <2>2, <2>3, FS_Subset
<1> QED
  BY <1>2, <1>3

\* The row of an old session.
LEMMA OldRows ==
    ASSUME Init, NEW d \in Docs, d \in ToSet(Old)
    PROVE  \E i \in 1..Len(Old) :
              /\ Old[i] = d /\ row[d] \in RowType
              /\ row[d].owner = IF auth THEN Form[d].user ELSE Nobody
              /\ row[d].chain = IF Form[d].zip THEN ChainKey(d, auth) ELSE None
              /\ Form[d].zip => row[d].no = Cardinality(Linked(i, auth))
<1> DEFINE i == CHOOSE j \in DOMAIN Old : Old[j] = d
<1>1. DOMAIN Old = 1..Len(Old)
  BY OldAssumption
<1>2. i \in 1..Len(Old) /\ Old[i] = d
  BY <1>1 DEF ToSet
<1>3. row[d] = OldRow(i, auth)
  BY <1>1, <1>2 DEF Init
<1> HIDE DEF i
<1>4. row[d] = [owner |-> IF auth THEN Form[d].user ELSE Nobody,
                tags |-> Form[d].tags, category |-> Form[d].category, project |-> Form[d].project,
                chain |-> IF Form[d].zip THEN ChainKey(d, auth) ELSE None,
                no |-> IF Form[d].zip THEN Cardinality(Linked(i, auth)) ELSE 0,
                text |-> Form[d].text, deleted |-> FALSE]
  BY <1>2, <1>3 DEF OldRow, Linked
<1>5. Cardinality(Linked(i, auth)) \in Nat
  BY <1>2, LinkedGrow
<1>6. /\ Form[d].user \in Users /\ Form[d].tags \subseteq Words /\ Form[d].category \in Words
      /\ Form[d].project \in Words /\ Form[d].text \in Words /\ ChainKey(d, auth) \in Chains
  BY FormTypes
<1>7. row[d] \in RowType
  BY <1>4, <1>5, <1>6 DEF RowType, Word
<1> QED
  BY <1>2, <1>4, <1>7

\* The documents are as the invariant says.
LEMMA InitDocs == Init => DocInv
<1>1. SUFFICES ASSUME Init PROVE DocInv
  OBVIOUS
<1>2. /\ made = Old /\ auth \in BOOLEAN /\ writes = 0
      /\ posted = [d \in Docs |-> IF d \in ToSet(Old) THEN 7 ELSE 1]
  BY <1>1 DEF Init, Upload
<1>3. \A d \in Docs : Here(d) <=> d \in ToSet(Old)
  BY <1>2 DEF Here
<1>4. ASSUME NEW d \in Docs, d \notin ToSet(Old) PROVE row[d] = NoRow
  <2>1. ~\E i \in DOMAIN Old : Old[i] = d
    BY <1>4 DEF ToSet
  <2> QED
    BY <1>1, <2>1 DEF Init
<1>5. NoRow \in RowType /\ NoRow.owner = Nobody /\ NoRow.chain = None
  BY DEF NoRow, RowType, Word
<1>6. \A d \in Docs : row[d] \in RowType
  BY <1>1, <1>4, <1>5, OldRows
<1>7. DocTypes
  <2>1. row = [d \in Docs |-> row[d]]
    BY <1>1 DEF Init
  <2>2. row \in [Docs -> RowType]
    BY <1>6, <2>1
  <2> QED
    BY <1>2, <2>2, OldAssumption, SizesAssumption DEF DocTypes
<1>8. ASSUME NEW d \in Docs PROVE RowFollowsUpload(d)
  <2>1. CASE d \in ToSet(Old)
    <3>1. posted[d] = 7 /\ Len(Upload) + 1 = 7 /\ Here(d)
      BY <1>2, <1>3, <2>1 DEF Upload
    <3> QED
      BY <1>1, <2>1, <3>1, OldRows DEF RowFollowsUpload
  <2>2. CASE d \notin ToSet(Old)
    <3>1. posted[d] = 1 /\ ~Here(d)
      BY <1>2, <1>3, <2>2
    <3>2. row[d].owner = Nobody /\ row[d].chain = None
      BY <1>4, <1>5, <2>2
    <3> QED
      BY <3>1, <3>2 DEF RowFollowsUpload
  <2> QED
    BY <2>1, <2>2
<1>9. VersionsDiffer
  <2>1. SUFFICES ASSUME NEW d \in Docs, NEW e \in Docs, Live(d), Live(e), row[d].chain # None,
                        row[d].chain = row[e].chain, row[d].no = row[e].no
                 PROVE  d = e
    BY DEF VersionsDiffer
  <2>2. d \in ToSet(Old) /\ e \in ToSet(Old)
    BY <1>3, <2>1 DEF Live
  <2>3. PICK i \in 1..Len(Old) :
              /\ Old[i] = d
              /\ row[d].chain = IF Form[d].zip THEN ChainKey(d, auth) ELSE None
              /\ Form[d].zip => row[d].no = Cardinality(Linked(i, auth))
    BY <1>1, <2>2, OldRows
  <2>4. PICK j \in 1..Len(Old) :
              /\ Old[j] = e
              /\ row[e].chain = IF Form[e].zip THEN ChainKey(e, auth) ELSE None
              /\ Form[e].zip => row[e].no = Cardinality(Linked(j, auth))
    BY <1>1, <2>2, OldRows
  <2>5. Form[d].zip /\ Form[e].zip /\ ChainKey(d, auth) = ChainKey(e, auth)
    BY <2>1, <2>3, <2>4
  <2>6. Cardinality(Linked(i, auth)) = Cardinality(Linked(j, auth))
    BY <2>1, <2>3, <2>4, <2>5
  <2>7. ~(i < j) /\ ~(j < i)
    BY <2>3, <2>4, <2>5, <2>6, LinkedGrow
  <2>8. i \in Int /\ j \in Int
    BY OldAssumption
  <2> QED
    BY <2>3, <2>4, <2>7, <2>8
<1> QED
  BY <1>7, <1>8, <1>9 DEF DocInv

(***************************************************************************)
(* The inductive invariant.                                                *)
(***************************************************************************)
\* Its parts, as the lemmas above take them.
LEMMA InvariantParts == IInv <=> DocInv /\ req \in [Requests -> RequestType] /\ Flows
<1>1. TypeOK <=> DocTypes /\ req \in [Requests -> RequestType]
  <2>1. Len(Upload) + 1 = 7
    BY DEF Upload
  <2> QED
    BY <2>1 DEF TypeOK, DocTypes, RowType
<1> QED
  BY <1>1 DEF IInv, DocInv

\* It holds initially.
LEMMA InvariantInit == Init => IInv
<1>1. SUFFICES ASSUME Init PROVE IInv
  OBVIOUS
<1>2. DocInv
  BY <1>1, InitDocs
<1>3. req = [r \in Requests |-> Blank]
  BY <1>1 DEF Init
<1>4. req \in [Requests -> RequestType] /\ Flows
  BY <1>3, BlankFields DEF Flows
<1> QED
  BY <1>2, <1>4, InvariantParts

\* Every step keeps it.
LEMMA InvariantStep == IInv /\ [Next]_vars => IInv'
<1>1. SUFFICES ASSUME IInv, [Next]_vars PROVE IInv'
  OBVIOUS
<1>2. DocInv /\ req \in [Requests -> RequestType] /\ Flows
  BY <1>1, InvariantParts
<1>3. PICK T : Step(T)
  BY <1>1, <1>2, StepOutcome
<1>4. \A r \in Requests : req'[r] \in RequestType /\ (req'[r].status # "off" => Flow(req[r])')
  BY <1>2, <1>3, FlowStep DEF Step, Flows
<1>5. req' \in [Requests -> RequestType]
  BY <1>3, <1>4 DEF Step
<1>6. Flows'
  BY <1>4 DEF Flows
<1>7. DocInv'
  BY <1>3 DEF Step
<1>8. (DocInv /\ req \in [Requests -> RequestType] /\ Flows)'
  BY <1>5, <1>6, <1>7
<1> QED
  BY <1>8, InvariantParts, PTL

\* So it always holds.
LEMMA Invariance == Spec => []IInv
<1>1. Init => IInv
  BY InvariantInit
<1>2. IInv /\ [Next]_vars => IInv'
  BY InvariantStep
<1> QED
  BY <1>1, <1>2, PTL DEF Spec

(***************************************************************************)
(* Every variable keeps its type: no session is in the table twice, every  *)
(* list an answer is made from is a list of sessions, and every number a   *)
(* natural number (src/internal/session/metadata.go, version.go).          *)
(***************************************************************************)
THEOREM TypeCorrect == Spec => []TypeOK
<1>1. IInv => TypeOK
  BY DEF IInv
<1> QED
  BY <1>1, Invariance, PTL

(***************************************************************************)
(* Owners and deletion.                                                    *)
(***************************************************************************)
OwnInv == \A r \in Requests : req[r].status # "off" => NamedAreOwn(req[r])

\* Every step keeps it.
LEMMA OwnStep ==
    ASSUME DocInv, req \in [Requests -> RequestType], NEW r \in Requests,
           req[r].status # "off" => Flow(req[r]) /\ NamedAreOwn(req[r]),
           NEW T \in SUBSET Docs, Changes(T), Outcome(r, T)
    PROVE  req'[r].status # "off" => NamedAreOwn(req[r])'
<1> DEFINE q == req[r]
           n == req'[r]
           own(d) == /\ n.uid # Nobody => row'[d].owner = n.uid
                     /\ row'[d].deleted => d \in n.touched
<1>1. ASSUME n.kind \in Views => \A d \in Named(n) : own(d) PROVE NamedAreOwn(req[r])'
  <2>1. Named(req[r])' = Named(n)
    BY DEF Named
  <2> QED
    BY <1>1, <2>1 DEF NamedAreOwn
<1>2. CASE Seen(r, T)
  <2>1. CASE q.status = "off"
    BY <1>2, <2>1 DEF Seen
  <2>2. CASE q.status # "off"
    <3>1. /\ n.kind = q.kind /\ n.uid = q.uid /\ n.touched = q.touched \cup T
          /\ n.found = q.found /\ n.others = q.others /\ n.versions = q.versions
      BY <1>2, <2>2, SeenFields
    <3>2. Named(n) = Named(q)
      BY <3>1 DEF Named
    <3>3. ASSUME n.kind \in Views, NEW d \in Named(n) PROVE own(d)
      <4>1. /\ q.uid # Nobody => row[d].owner = q.uid
            /\ row[d].deleted => d \in q.touched
            /\ Here(d)
        BY <2>2, <3>1, <3>2, <3>3 DEF NamedAreOwn, Flow
      <4>2. d \in Docs
        BY <4>1, HereStays
      <4>3. /\ row[d].owner # Nobody => row'[d].owner = row[d].owner
            /\ d \notin T => row'[d] = row[d]
        BY <4>2 DEF Changes
      <4> QED
        BY <3>1, <4>1, <4>3
    <3> QED
      BY <1>1, <3>3
  <2> QED
    BY <2>1, <2>2
<1>3. CASE Ends(r)
  BY <1>3, BlankFields DEF Ends
<1>4. CASE Begins(r)
  <2>1. Named(n) = {}
    BY <1>4, BegunFields
  <2> QED
    BY <1>1, <2>1
<1>5. CASE Answered(r)
  <2>1. q.status # "off" /\ At(r, "row") /\ ~row[q.doc].deleted /\ UNCHANGED row
    BY <1>5 DEF Answered, At
  <2>2. /\ n.kind = q.kind /\ n.uid = q.uid /\ n.touched = q.touched
        /\ Named(n) \subseteq Named(q) \cup {q.doc}
    BY <1>5, <2>1, AnsweredFields
  <2>3. q.uid # Nobody => row[q.doc].owner = q.uid
    BY <2>1, ChainViewer
  <2> QED
    BY <1>1, <2>1, <2>2, <2>3 DEF NamedAreOwn
<1>6. CASE Wrote(r)
  <2>1. q.status # "off"
    BY <1>6 DEF Wrote, At
  <2>2. n.kind \in Writing
    BY <1>6, <2>1, WroteFields
  <2>3. n.kind \notin Views
    BY <2>2 DEF Writing, Views, Edits
  <2> QED
    BY <1>1, <2>3
<1>7. ASSUME NEW s, NEW new, Advanced(r, s, new) PROVE NamedAreOwn(req[r])'
  <2>1. q.status # "off" /\ Reads(r, s, new) /\ UNCHANGED <<row, made>>
    BY <1>7 DEF Advanced, At
  <2>2. /\ n.kind = q.kind /\ n.uid = q.uid /\ n.touched = q.touched
        /\ n.found = new.found /\ n.others = new.others /\ n.versions = new.versions
    BY <1>7, <2>1, AdvancedFields
  <2>3. Named(n) \subseteq Named(q) \cup Scope(r)
    <3>1. Named(new) \subseteq Named(q) \cup Scope(r)
      BY <2>1 DEF Reads
    <3>2. Named(n) = Named(new)
      BY <2>2 DEF Named
    <3> QED
      BY <3>1, <3>2
  <2>4. \A d \in Scope(r) : ~row[d].deleted /\ (q.uid # Nobody => row[d].owner = q.uid)
    BY DEF Scope, Live
  <2> QED
    BY <1>1, <2>1, <2>2, <2>3, <2>4 DEF NamedAreOwn
<1> QED
  BY <1>2, <1>3, <1>4, <1>5, <1>6, <1>7 DEF Outcome

\* It is an invariant.
LEMMA OwnInvariance == Spec => []OwnInv
<1>1. Init => OwnInv
  BY BlankFields DEF Init, OwnInv
<1>2. IInv /\ OwnInv /\ [Next]_vars => OwnInv'
  <2>1. SUFFICES ASSUME IInv, OwnInv, [Next]_vars PROVE OwnInv'
    OBVIOUS
  <2>2. DocInv /\ req \in [Requests -> RequestType] /\ Flows
    BY <2>1, InvariantParts
  <2>3. PICK T : Step(T)
    BY <2>1, <2>2, StepOutcome
  <2>4. \A r \in Requests : req'[r].status # "off" => NamedAreOwn(req[r])'
    BY <2>1, <2>2, <2>3, OwnStep DEF Step, Flows, OwnInv
  <2> QED
    BY <2>4 DEF OwnInv
<1> QED
  BY <1>1, <1>2, Invariance, PTL DEF Spec

\* An answer shows what the request read, and for two views the session asked about.
LEMMA ShownAreNamed ==
    ASSUME NEW r \in Requests, NEW d \in Shown(r)
    PROVE  d \in Named(req[r]) \/ (d = req[r].doc /\ req[r].kind \in {"metadata", "peers"})
BY DEF Shown, Named

\* A metadata or peers view that is answered has checked the owner.
LEMMA OwnerChecked ==
    ASSUME NEW q \in RequestType, Flow(q), q.status = "done", q.kind \in {"metadata", "peers"}, q.uid # Nobody
    PROVE  row[q.doc].owner = q.uid
<1> DEFINE len == Len(Statements(q.kind))
<1>1. len > 2
  <2>1. CASE q.kind = "metadata"
    <3>1. Statements(q.kind) = <<"session", "owner", "tags", "category", "project">>
      BY <2>1, Table
    <3> QED
      BY <3>1
  <2>2. CASE q.kind = "peers"
    <3>1. Statements(q.kind) = <<"session", "owner", "tags", "category", "project", "byCategory", "byProject">>
      BY <2>2, Table
    <3> QED
      BY <3>1
  <2> QED
    BY <2>1, <2>2
<1>2. q.kind \in Kinds /\ q.next \in 1..len + 1 /\ q.next = len + 1
  BY DEF Flow, RequestType
<1> HIDE DEF len
<1>3. Passed(q, "owner")
  <2>1. q.next \in 1..Len(Statements(q.kind)) + 1 /\ q.next > 2
    BY <1>1, <1>2 DEF len
  <2> QED
    BY <1>2, <2>1, Order DEF Passed
<1> QED
  BY <1>3 DEF Flow

(***************************************************************************)
(* No answer names somebody else's session to a user: the lists filter by  *)
(* owner, and a chain has one owner because LinkToChain keyed it so        *)
(* (requireOwner, ListDocuments, GetPeersForOwner, GetChainOfSession).     *)
(***************************************************************************)
THEOREM AnswersOnlyOwn == Spec => []AnswersStayWithTheOwner
<1>1. IInv /\ OwnInv => AnswersStayWithTheOwner
  <2>1. ASSUME IInv, OwnInv, NEW r \in Requests, Done(r, Views), req[r].uid # Nobody, NEW d \in Shown(r)
        PROVE  row[d].owner = req[r].uid
    <3>1. /\ req[r] \in RequestType /\ Flow(req[r])
          /\ req[r].status = "done" /\ req[r].kind \in Views /\ NamedAreOwn(req[r])
      BY <2>1, InvariantParts DEF OwnInv, Flows, Done
    <3>2. CASE d \in Named(req[r])
      BY <2>1, <3>1, <3>2 DEF NamedAreOwn
    <3>3. CASE d = req[r].doc /\ req[r].kind \in {"metadata", "peers"}
      BY <2>1, <3>1, <3>3, OwnerChecked
    <3> QED
      BY <2>1, <3>2, <3>3, ShownAreNamed
  <2> QED
    BY <2>1 DEF AnswersStayWithTheOwner
<1> QED
  BY <1>1, Invariance, OwnInvariance, PTL

(***************************************************************************)
(* An answer shows a deleted session only when the deletion came after the *)
(* request did, or when it is the session whose metadata or peers were     *)
(* asked for (SoftDelete against the statements of every view).            *)
(***************************************************************************)
THEOREM AnswersHideDeleted == Spec => []DeletedStayHidden
<1>1. OwnInv => DeletedStayHidden
  BY ShownAreNamed DEF OwnInv, NamedAreOwn, DeletedStayHidden, Done
<1> QED
  BY <1>1, OwnInvariance, PTL

(***************************************************************************)
(* Edits.                                                                  *)
(***************************************************************************)
EditsInv == \A r \in Requests : req[r].status # "off" => EditsHold(req[r])

\* A request that is about to write has not read any metadata.
LEMMA WriteBeforeRead ==
    ASSUME NEW q \in RequestType, q.kind \in Writing, q.next \in 1..Len(Statements(q.kind)),
           Statements(q.kind)[q.next] = "write", NEW part \in MetaParts
    PROVE  ~Passed(q, part)
<1>1. q.kind \in Kinds /\ Len(Statements(q.kind)) \in Nat
  BY SomeStatements DEF RequestType
<1>2. q.next = IF q.kind = "delete" THEN 2 ELSE 3
  BY <1>1, Places
<1>3. SUFFICES ASSUME Passed(q, part) PROVE FALSE
  OBVIOUS
<1>4. PICK i \in 1..q.next - 1 : Statements(q.kind)[i] = part
  BY <1>3 DEF Passed, Before
<1>5. i \in 1..Len(Statements(q.kind)) /\ i < 3
  BY <1>1, <1>2, <1>4
<1>6. part \in MetaParts => i >= 3
  BY <1>1, <1>4, <1>5, Places DEF MetaParts
<1> QED
  BY <1>5, <1>6

\* Every step keeps the facts about an edit.
LEMMA EditsStep ==
    ASSUME DocInv, req \in [Requests -> RequestType], NEW r \in Requests,
           req[r].status # "off" => Flow(req[r]) /\ EditsHold(req[r]),
           NEW T \in SUBSET Docs, Changes(T), Outcome(r, T)
    PROVE  req'[r].status # "off" => EditsHold(req[r])'
<1> DEFINE q == req[r]
           n == req'[r]
           hold == n.kind \notin Home /\ n.doc \notin n.touched =>
                      /\ n.kind \in Edits /\ Passed(n, "write") =>
                            row'[n.doc] = Edited(row'[n.doc], n.kind, n.ask.word)
                      /\ \A part \in MetaParts : Passed(n, part) => n.meta[part] = row'[n.doc][part]
<1>1. ASSUME hold PROVE EditsHold(req[r])'
  <2>1. \A t : Passed(req[r], t)' <=> Passed(n, t)
    BY DEF Passed, Before
  <2>2. Edited(row[req[r].doc], req[r].kind, req[r].ask.word)' = Edited(row'[n.doc], n.kind, n.ask.word)
    BY DEF Edited
  <2> QED
    BY <1>1, <2>1, <2>2 DEF EditsHold
<1>2. q \in RequestType
  OBVIOUS
<1>3. CASE Seen(r, T)
  <2>1. CASE q.status = "off"
    BY <1>3, <2>1 DEF Seen
  <2>2. CASE q.status # "off"
    <3>1. /\ n.kind = q.kind /\ n.doc = q.doc /\ n.ask = q.ask /\ n.touched = q.touched \cup T
          /\ n.meta = q.meta /\ \A t : Passed(n, t) <=> Passed(q, t)
      BY <1>3, <2>2, SeenFields
    <3>2. n.kind \notin Home /\ n.doc \notin n.touched => row'[q.doc] = row[q.doc]
      BY <2>2, <3>1 DEF Flow, Changes
    <3> QED
      BY <1>1, <2>2, <3>1, <3>2 DEF EditsHold
  <2> QED
    BY <2>1, <2>2
<1>4. CASE Ends(r)
  BY <1>4, BlankFields DEF Ends
<1>5. CASE Begins(r)
  <2>1. \A t : ~Passed(n, t)
    BY <1>5, BegunFields
  <2> QED
    BY <1>1, <2>1
<1>6. CASE Answered(r)
  <2>1. q.status # "off" /\ UNCHANGED row
    BY <1>6 DEF Answered, At
  <2>2. /\ n.kind = q.kind /\ n.doc = q.doc /\ n.ask = q.ask /\ n.touched = q.touched
        /\ n.meta = q.meta /\ \A t : Passed(n, t) <=> Passed(q, t)
    BY <1>6, <2>1, AnsweredFields
  <2> QED
    BY <1>1, <2>1, <2>2 DEF EditsHold
<1>7. CASE Wrote(r)
  <2>1. /\ q.status # "off"
        /\ row'[q.doc] = Edited(row'[q.doc], q.kind, q.ask.word)
    BY <1>7 DEF Wrote, At
  <2>2. /\ q.kind \in Writing /\ q.next \in 1..Len(Statements(q.kind)) /\ Statements(q.kind)[q.next] = "write"
        /\ n.kind = q.kind /\ n.doc = q.doc /\ n.ask = q.ask
        /\ \A t : Passed(n, t) <=> Passed(q, t) \/ t = "write"
    BY <1>7, <2>1, WroteFields
  <2>3. \A part \in MetaParts : ~Passed(n, part)
    BY <1>2, <2>2, WriteBeforeRead DEF MetaParts
  <2> QED
    BY <1>1, <2>1, <2>2, <2>3
<1>8. ASSUME NEW s, NEW new, Advanced(r, s, new) PROVE EditsHold(req[r])'
  <2>1. q.status # "off" /\ Reads(r, s, new) /\ UNCHANGED row
    BY <1>8 DEF Advanced, At
  <2>2. /\ n.kind = q.kind /\ n.doc = q.doc /\ n.ask = q.ask /\ n.touched = q.touched
        /\ n.meta = new.meta /\ s # "write"
        /\ s \notin MetaParts => n.meta = q.meta
        /\ \A t : Passed(n, t) <=> Passed(q, t) \/ t = s
    BY <1>2, <1>8, <2>1, AdvancedFields
  <2>3. ASSUME s \in MetaParts
        PROVE  /\ new.meta[s] = row[q.doc][s]
               /\ \A part \in MetaParts : part # s => new.meta[part] = q.meta[part]
    <3>1. new = [q EXCEPT !.meta = [q.meta EXCEPT ![s] = row[q.doc][s]]]
      BY <2>1, <2>3 DEF Reads
    <3>2. new.meta = [q.meta EXCEPT ![s] = row[q.doc][s]]
      BY <1>2, <3>1 DEF RequestType
    <3>3. q.meta \in Meta
      BY <1>2 DEF RequestType
    <3> HIDE DEF q
    <3> QED
      BY <2>3, <3>2, <3>3 DEF Meta, MetaParts
  <2>4. ASSUME NEW part \in MetaParts, n.kind \notin Home, n.doc \notin n.touched, Passed(n, part)
        PROVE  n.meta[part] = row'[n.doc][part]
    <3>1. Passed(q, part) => q.meta[part] = row[q.doc][part]
      BY <2>1, <2>2, <2>4 DEF EditsHold
    <3>2. CASE s \in MetaParts
      BY <2>1, <2>2, <2>3, <2>4, <3>1, <3>2
    <3>3. CASE s \notin MetaParts
      BY <2>1, <2>2, <2>4, <3>1, <3>3
    <3> QED
      BY <3>2, <3>3
  <2>5. ASSUME n.kind \in Edits, Passed(n, "write"), n.kind \notin Home, n.doc \notin n.touched
        PROVE  row'[n.doc] = Edited(row'[n.doc], n.kind, n.ask.word)
    BY <2>1, <2>2, <2>5 DEF EditsHold
  <2> QED
    BY <1>1, <2>4, <2>5
<1> QED
  BY <1>3, <1>4, <1>5, <1>6, <1>7, <1>8 DEF Outcome

\* They are an invariant.
LEMMA EditsInvariance == Spec => []EditsInv
<1>1. Init => EditsInv
  BY BlankFields DEF Init, EditsInv
<1>2. IInv /\ EditsInv /\ [Next]_vars => EditsInv'
  <2>1. SUFFICES ASSUME IInv, EditsInv, [Next]_vars PROVE EditsInv'
    OBVIOUS
  <2>2. DocInv /\ req \in [Requests -> RequestType] /\ Flows
    BY <2>1, InvariantParts
  <2>3. PICK T : Step(T)
    BY <2>1, <2>2, StepOutcome
  <2>4. \A r \in Requests : req'[r].status # "off" => EditsHold(req[r])'
    BY <2>1, <2>2, <2>3, EditsStep DEF Step, Flows, EditsInv
  <2> QED
    BY <2>4 DEF EditsInv
<1> QED
  BY <1>1, <1>2, Invariance, PTL DEF Spec

(***************************************************************************)
(* An edit answers with the metadata the session has, and its own change   *)
(* is in it, unless another handler changed the session after the edit's   *)
(* write (AddTags, RemoveTags, SetCategory, SetProject, writeMetaOrError). *)
(***************************************************************************)
THEOREM EditsAnswerTheirWrite == Spec => []EditsAnswerWhatTheyLeft
<1>1. IInv /\ EditsInv => EditsAnswerWhatTheyLeft
  <2>1. SUFFICES ASSUME IInv, EditsInv, NEW r \in Requests, Done(r, Edits), req[r].doc \notin req[r].touched
                 PROVE  /\ req[r].meta = MetaOf(req[r].doc)
                        /\ row[req[r].doc] = Edited(row[req[r].doc], req[r].kind, req[r].ask.word)
    BY DEF EditsAnswerWhatTheyLeft
  <2> DEFINE q == req[r]
  <2>2. DocInv /\ req \in [Requests -> RequestType] /\ Flows
    BY <2>1, InvariantParts
  <2>3. q \in RequestType /\ Flow(q) /\ EditsHold(q) /\ q.kind \in Edits /\ q.status = "done"
    BY <2>1, <2>2 DEF EditsInv, Flows, Done
  <2>4. q.next = 7
    <3>1. Statements(q.kind) = <<"owner", "session", "write", "tags", "category", "project">>
      BY <2>3, Table
    <3>2. Len(Statements(q.kind)) = 6
      BY <3>1
    <3> QED
      BY <2>3, <3>2 DEF Flow, Edits
  <2>5. Passed(q, "write") /\ Passed(q, "tags") /\ Passed(q, "category") /\ Passed(q, "project")
    <3>1. q.kind \in Kinds /\ q.next \in 1..Len(Statements(q.kind)) + 1
      BY <2>3 DEF Flow, RequestType
    <3> QED
      BY <2>3, <2>4, <3>1, Order DEF Passed
  <2>6. q.doc \in Docs /\ q.kind \notin Home
    BY <2>3 DEF Flow, Edits, Home
  <2>7. /\ row[q.doc] = Edited(row[q.doc], q.kind, q.ask.word)
        /\ q.meta.tags = row[q.doc].tags /\ q.meta.category = row[q.doc].category
        /\ q.meta.project = row[q.doc].project
    BY <2>1, <2>3, <2>5, <2>6 DEF EditsHold, MetaParts
  <2>8. q.meta = MetaOf(q.doc)
    BY <2>3, <2>7 DEF MetaOf, RequestType, Meta
  <2> QED
    BY <2>7, <2>8
<1> QED
  BY <1>1, Invariance, EditsInvariance, PTL

(***************************************************************************)
(* Diffs.                                                                  *)
(***************************************************************************)
SidesInv == \A r \in Requests : req[r].status # "off" => SidesHold(req[r])

\* The lengths of the two handlers that read a chain.
LEMMA ChainLengths ==
    /\ Len(Statements("chain")) = 8 /\ Len(Statements("diff")) = 9 /\ "chain" \in Kinds /\ "diff" \in Kinds
<1>1. "chain" \in Kinds /\ "diff" \in Kinds
  BY DEF Kinds, Views
<1> QED
  BY <1>1, SomeStatements

\* A version of a chain, by its place.
LEMMA VersionAt ==
    ASSUME DocInv, NEW d \in Docs, row[d].chain # None, NEW j \in DOMAIN ChainVersions(d)
    PROVE  LET v == ChainVersions(d)[j]
           IN  v.doc \in Docs /\ Live(v.doc) /\ row[v.doc].chain = row[d].chain /\ row[v.doc].no = v.no
<1> DEFINE vs == ChainVersions(d)
           n == Cardinality(InChain(row[d].chain))
<1>1. DOMAIN vs = 1..n /\ \A i \in 1..n : vs[i].doc \in InChain(row[d].chain) /\ vs[i] = Version(vs[i].doc)
  BY ChainInOrder
<1> HIDE DEF vs, n
<1>2. vs[j].doc \in InChain(row[d].chain) /\ vs[j] = Version(vs[j].doc)
  BY <1>1 DEF vs
<1>3. \A e : Version(e).no = row[e].no
  BY DEF Version
<1> QED
  BY <1>2, <1>3 DEF InChain, vs

\* Every step keeps the facts about a diff.
LEMMA SidesStep ==
    ASSUME DocInv, req \in [Requests -> RequestType], NEW r \in Requests,
           req[r].status # "off" => Flow(req[r]) /\ SidesHold(req[r]),
           NEW T \in SUBSET Docs, Changes(T), Outcome(r, T)
    PROVE  req'[r].status # "off" => SidesHold(req[r])'
<1> DEFINE q == req[r]
           n == req'[r]
           text(i) == IF n.found[i] \in n.unread THEN None ELSE row'[n.found[i]].text
           hold == n.kind = "diff" =>
                      /\ Len(n.texts) = IF n.next <= 8 THEN 0 ELSE n.next - 8
                      /\ ~Passed(n, "versions") => n.unread = {}
                      /\ Passed(n, "versions") =>
                            /\ n.found[1] # n.found[2]
                            /\ \A i \in 1..2 : /\ row'[n.found[i]].chain = row'[n.doc].chain
                                               /\ row'[n.found[i]].no = n.ask.pair[i]
                            /\ n.unread \subseteq {n.found[i] : i \in DOMAIN n.texts}
                            /\ \A i \in DOMAIN n.texts : n.found[i] \notin n.touched => n.texts[i] = text(i)
<1>1. ASSUME hold PROVE SidesHold(req[r])'
  <2>1. Passed(req[r], "versions")' <=> Passed(n, "versions")
    BY DEF Passed, Before
  <2> QED
    BY <1>1, <2>1 DEF SidesHold, FileText
<1>2. q \in RequestType
  OBVIOUS
<1>3. ASSUME q.status # "off", q.kind = "diff"
      PROVE  /\ q.doc \in Docs /\ q.next \in 1..10 /\ (Passed(q, "versions") <=> q.next > 7)
             /\ q.next > 6 => row[q.doc].chain # None
             /\ Passed(q, "versions") =>
                   Len(q.found) = 2 /\ q.found \in Seq(Docs) /\ q.found[1] \in Docs /\ q.found[2] \in Docs
             /\ q.texts \in Seq(Word) /\ DOMAIN q.texts = 1..Len(q.texts)
  <2>1. q.kind \in Kinds /\ q.next \in 1..Len(Statements(q.kind)) + 1 /\ Len(Statements(q.kind)) = 9 /\ Flow(q)
    <3>1. q.kind \in Kinds /\ Flow(q)
      BY <1>3, ChainLengths
    <3>2. q.next \in 1..Len(Statements(q.kind)) + 1
      BY <3>1 DEF Flow
    <3>3. Len(Statements(q.kind)) = 9
      BY <1>3, ChainLengths
    <3> QED
      BY <3>1, <3>2, <3>3
  <2>2. (Passed(q, "versions") <=> q.next > 7) /\ (Passed(q, "row") <=> q.next > 6)
    BY <1>3, <2>1, Order DEF Passed
  <2>3. q.doc \in Docs
    BY <1>3, <2>1 DEF Flow, Home
  <2>4. q.found \in Seq(Docs) /\ q.texts \in Seq(Word)
    BY <1>2 DEF RequestType
  <2>5. /\ Passed(q, "row") => row[q.doc].chain # None
        /\ Passed(q, "versions") => Len(q.found) = 2
    BY <1>3, <2>1 DEF Flow
  <2>6. Passed(q, "versions") => q.found[1] \in Docs /\ q.found[2] \in Docs
    BY <2>4, <2>5
  <2>7. q.next \in 1..10 /\ DOMAIN q.texts = 1..Len(q.texts)
    BY <2>1, <2>4
  <2> QED
    BY <2>2, <2>3, <2>4, <2>5, <2>6, <2>7
<1>4. CASE Seen(r, T)
  <2>1. CASE q.status = "off"
    BY <1>4, <2>1 DEF Seen
  <2>2. CASE q.status # "off"
    <3>1. /\ n.next = q.next /\ n.kind = q.kind /\ n.doc = q.doc /\ n.ask = q.ask /\ n.touched = q.touched \cup T
          /\ n.found = q.found /\ n.texts = q.texts /\ n.unread = q.unread
          /\ \A t : Passed(n, t) <=> Passed(q, t)
      BY <1>4, <2>2, SeenFields
    <3>2. SUFFICES ASSUME q.kind = "diff" PROVE hold
      BY <1>1, <3>1
    <3>3. /\ Len(q.texts) = IF q.next <= 8 THEN 0 ELSE q.next - 8
          /\ ~Passed(q, "versions") => q.unread = {}
          /\ Passed(q, "versions") =>
                /\ q.found[1] # q.found[2]
                /\ \A i \in 1..2 : row[q.found[i]].chain = row[q.doc].chain /\ row[q.found[i]].no = q.ask.pair[i]
                /\ q.unread \subseteq {q.found[i] : i \in DOMAIN q.texts}
                /\ \A i \in DOMAIN q.texts : q.found[i] \notin q.touched => q.texts[i] = FileText(q, i)
      BY <2>2, <3>2 DEF SidesHold
    <3>4. ASSUME Passed(q, "versions"), NEW i \in 1..2
          PROVE  row'[q.found[i]].chain = row'[q.doc].chain /\ row'[q.found[i]].no = q.ask.pair[i]
      <4>1. q.doc \in Docs /\ row[q.doc].chain # None /\ q.found[i] \in Docs
        BY <1>3, <2>2, <3>2, <3>4
      <4>2. row[q.found[i]].chain = row[q.doc].chain /\ row[q.found[i]].no = q.ask.pair[i]
        BY <3>3, <3>4
      <4> QED
        BY <4>1, <4>2 DEF Changes
    <3>5. ASSUME Passed(q, "versions"), NEW i \in DOMAIN q.texts, q.found[i] \notin q.touched \cup T
          PROVE  q.texts[i] = IF q.found[i] \in q.unread THEN None ELSE row'[q.found[i]].text
      <4>1. i \in 1..2
        BY <1>3, <2>2, <3>2, <3>3, <3>5, SMTT(30)
      <4>2. q.found[i] \in Docs
        BY <1>3, <2>2, <3>2, <3>5, <4>1
      <4> QED
        BY <3>3, <3>5, <4>2 DEF Changes, FileText
    <3> QED
      BY <3>1, <3>2, <3>3, <3>4, <3>5
  <2> QED
    BY <2>1, <2>2
<1>5. CASE Ends(r)
  BY <1>5, BlankFields DEF Ends
<1>6. CASE Begins(r)
  <2>1. n.next = 1 /\ n.texts = <<>> /\ n.unread = {} /\ \A t : ~Passed(n, t)
    BY <1>6, BegunFields
  <2> QED
    BY <1>1, <2>1
<1>7. CASE Answered(r)
  <2>1. q.status # "off" /\ q.kind = "chain"
    BY <1>7 DEF Answered, At
  <2>2. n.kind = q.kind
    BY <1>7, <2>1, AnsweredFields
  <2> QED
    BY <1>1, <2>1, <2>2
<1>8. CASE Wrote(r)
  <2>1. q.status # "off"
    BY <1>8 DEF Wrote, At
  <2>2. n.kind \in Writing
    BY <1>8, <2>1, WroteFields
  <2>3. n.kind # "diff"
    BY <2>2 DEF Writing, Edits
  <2> QED
    BY <1>1, <2>3
<1>9. ASSUME NEW s, NEW new, Advanced(r, s, new) PROVE SidesHold(req[r])'
  <2>1. q.status # "off" /\ Reads(r, s, new) /\ UNCHANGED row
    BY <1>9 DEF Advanced, At
  <2>2. /\ q.kind \in Kinds /\ q.next \in 1..Len(Statements(q.kind)) /\ Statements(q.kind)[q.next] = s
        /\ n.next = q.next + 1 /\ n.kind = q.kind /\ n.doc = q.doc /\ n.ask = q.ask /\ n.touched = q.touched
        /\ n.found = new.found /\ n.texts = new.texts /\ n.unread = new.unread
        /\ s \notin {"page", "search", "grep", "byCategory", "versions"} => n.found = q.found
        /\ s \notin {"from", "to"} => n.texts = q.texts
        /\ s \notin {"grep", "from", "to"} => n.unread = q.unread
        /\ \A t : Passed(n, t) <=> Passed(q, t) \/ t = s
    BY <1>2, <1>9, <2>1, AdvancedFields
  <2>3. SUFFICES ASSUME q.kind = "diff" PROVE hold
    BY <1>1, <2>2
  <2>4. /\ s \notin {"page", "search", "grep", "byCategory"}
        /\ s = "versions" <=> q.next = 7
        /\ s = "from" <=> q.next = 8
        /\ s = "to" <=> q.next = 9
    <3>1. /\ s \notin {"page", "search", "grep", "byCategory"}
          /\ s = "versions" => q.next = 7
          /\ s = "from" => q.next = 8
          /\ s = "to" => q.next = 9
      BY <2>2, <2>3, Places
    <3>2. Statements(q.kind) = <<"session", "owner", "tags", "category", "project", "row", "versions", "from", "to">>
      BY <2>3, Table
    <3>3. (q.next = 7 => s = "versions") /\ (q.next = 8 => s = "from") /\ (q.next = 9 => s = "to")
      BY <2>2, <3>2
    <3> QED
      BY <3>1, <3>3
  <2>5. /\ Len(q.texts) = IF q.next <= 8 THEN 0 ELSE q.next - 8
        /\ ~Passed(q, "versions") => q.unread = {}
        /\ Passed(q, "versions") =>
              /\ q.found[1] # q.found[2]
              /\ \A i \in 1..2 : row[q.found[i]].chain = row[q.doc].chain /\ row[q.found[i]].no = q.ask.pair[i]
              /\ q.unread \subseteq {q.found[i] : i \in DOMAIN q.texts}
              /\ \A i \in DOMAIN q.texts : q.found[i] \notin q.touched => q.texts[i] = FileText(q, i)
    BY <2>1, <2>3 DEF SidesHold
  <2>6. /\ q.doc \in Docs /\ q.next \in 1..10 /\ (Passed(q, "versions") <=> q.next > 7)
        /\ Passed(q, "versions") => q.found[1] \in Docs /\ q.found[2] \in Docs
        /\ q.texts \in Seq(Word) /\ DOMAIN q.texts = 1..Len(q.texts)
        /\ q.next > 6 => row[q.doc].chain # None
    BY <1>3, <2>1, <2>3
  <2>7. CASE s = "versions"
    <3>1. Sides(new, ChainVersions(q.doc)) /\ new.ask = q.ask
      <4>1. Sides(new, ChainVersions(q.doc))
        BY <2>1, <2>3, <2>7 DEF Reads
      <4>2. new.ask = q.ask
        BY <1>2, <1>9, <2>1, ReadsFields DEF Advanced
      <4> QED
        BY <4>1, <4>2
    <3>2. row[q.doc].chain # None
      BY <2>4, <2>6, <2>7
    <3>3. /\ new.found[1] # new.found[2]
          /\ \A i \in 1..2 : row[new.found[i]].chain = row[q.doc].chain /\ row[new.found[i]].no = q.ask.pair[i]
      BY <2>6, <3>1, <3>2, VersionAt DEF Sides
    <3>4. n.texts = q.texts /\ Len(q.texts) = 0 /\ n.next = 8 /\ n.unread = {} /\ Passed(n, "versions")
      BY <2>2, <2>4, <2>5, <2>6, <2>7
    <3> QED
      BY <2>1, <2>2, <2>6, <3>3, <3>4
  <2>8. CASE s \in {"from", "to"}
    <3> DEFINE k == IF s = "from" THEN 1 ELSE 2
               side == q.found[k]
    <3>11. \/ new = [q EXCEPT !.texts = Append(q.texts, row[side].text)]
           \/ new = [q EXCEPT !.texts = Append(q.texts, None), !.unread = q.unread \cup {side}]
      BY <2>1, <2>8 DEF Reads
    <3> DEFINE whole == new = [q EXCEPT !.texts = Append(q.texts, row[side].text)]
               t == IF whole THEN row[side].text ELSE None
               u == IF whole THEN q.unread ELSE q.unread \cup {side}
    <3>1. \/ t = row[side].text /\ u = q.unread
          \/ t = None /\ u = q.unread \cup {side}
      OBVIOUS
    <3>2. new.texts = Append(q.texts, t) /\ new.unread = u
      <4>1. CASE whole
        BY <1>2, <4>1 DEF RequestType
      <4>2. CASE ~whole
        BY <1>2, <3>11, <4>2 DEF RequestType
      <4> QED
        BY <4>1, <4>2
    <3> HIDE DEF t, u, whole
    <3>3. Len(q.texts) = k - 1 /\ k \in 1..2 /\ n.next = 8 + k /\ Passed(q, "versions") /\ Passed(n, "versions")
      BY <2>2, <2>4, <2>5, <2>6, <2>8
    <3>4. n.found = q.found
      BY <2>2, <2>8
    <3> HIDE DEF k
    <3>5. /\ Len(n.texts) = k /\ DOMAIN n.texts = 1..k
          /\ \A i \in 1..k - 1 : n.texts[i] = q.texts[i]
          /\ n.texts[k] = t
      <4>1. n.texts = Append(q.texts, t)
        BY <2>2, <3>2
      <4>2. t \in Word /\ side \in Docs
        BY <2>6, <3>1, <3>3 DEF DocInv, DocTypes, RowType, Word
      <4> HIDE DEF n, q
      <4> QED
        BY <2>6, <3>3, <4>1, <4>2
    <3>6. q.unread \subseteq {q.found[i] : i \in 1..k - 1} /\ side \notin q.unread
      <4>1. DOMAIN q.texts = 1..k - 1 /\ q.unread \subseteq {q.found[i] : i \in DOMAIN q.texts}
        BY <2>5, <2>6, <3>3
      <4>2. \A i \in 1..k - 1 : q.found[i] # side
        BY <2>5, <3>3
      <4> QED
        BY <4>1, <4>2
    <3>7. n.unread = u /\ n.unread \subseteq {n.found[i] : i \in DOMAIN n.texts}
      <4>1. n.unread = u
        BY <2>2, <3>2
      <4>2. DOMAIN n.texts = 1..k /\ n.found = q.found /\ k \in 1..2 /\ n.found[k] = side
        BY <3>3, <3>4, <3>5
      <4>3. u \subseteq q.unread \cup {side}
        BY <3>1
      <4> HIDE DEF side
      <4>4. u \subseteq {n.found[i] : i \in 1..k}
        BY <3>6, <4>2, <4>3
      <4> QED
        BY <4>1, <4>2, <4>4
    <3>8. ASSUME NEW i \in DOMAIN n.texts, q.found[i] \notin q.touched
          PROVE  n.texts[i] = IF q.found[i] \in n.unread THEN None ELSE row[q.found[i]].text
      <4>1. CASE i = k
        BY <3>1, <3>5, <3>6, <3>7, <4>1
      <4>2. CASE i # k
        <5>1. i \in DOMAIN q.texts /\ i \in 1..k - 1 /\ q.found[i] # side
          BY <2>5, <2>6, <3>3, <3>5, <4>2
        <5>2. n.texts[i] = FileText(q, i)
          BY <2>5, <3>3, <3>5, <3>8, <5>1
        <5>3. q.found[i] \in n.unread <=> q.found[i] \in q.unread
          BY <3>1, <3>7, <5>1
        <5> QED
          BY <5>2, <5>3 DEF FileText
      <4> QED
        BY <4>1, <4>2
    <3>9. Len(n.texts) = IF n.next <= 8 THEN 0 ELSE n.next - 8
      BY <3>3, <3>5
    <3> QED
      BY <2>1, <2>2, <2>5, <3>3, <3>4, <3>7, <3>8, <3>9
  <2>9. CASE s \notin {"versions", "from", "to"}
    <3>1. n.texts = q.texts /\ n.found = q.found /\ n.unread = q.unread
          /\ (Passed(n, "versions") <=> Passed(q, "versions"))
      BY <2>2, <2>4, <2>9
    <3>2. q.next <= 6 \/ q.next = 10
      BY <2>4, <2>6, <2>9
    <3>3. q.next # 10
      <4>1. Len(Statements(q.kind)) = 9
        BY <2>3, ChainLengths
      <4> QED
        BY <2>2, <4>1
    <3>4. Len(n.texts) = IF n.next <= 8 THEN 0 ELSE n.next - 8
      BY <2>2, <2>5, <2>6, <3>1, <3>2, <3>3
    <3> QED
      BY <2>1, <2>2, <2>5, <3>1, <3>4 DEF FileText
  <2> QED
    BY <2>7, <2>8, <2>9
<1> QED
  BY <1>4, <1>5, <1>6, <1>7, <1>8, <1>9 DEF Outcome

\* They are an invariant.
LEMMA SidesInvariance == Spec => []SidesInv
<1>1. Init => SidesInv
  BY BlankFields DEF Init, SidesInv
<1>2. IInv /\ SidesInv /\ [Next]_vars => SidesInv'
  <2>1. SUFFICES ASSUME IInv, SidesInv, [Next]_vars PROVE SidesInv'
    OBVIOUS
  <2>2. DocInv /\ req \in [Requests -> RequestType] /\ Flows
    BY <2>1, InvariantParts
  <2>3. PICK T : Step(T)
    BY <2>1, <2>2, StepOutcome
  <2>4. \A r \in Requests : req'[r].status # "off" => SidesHold(req[r])'
    BY <2>1, <2>2, <2>3, SidesStep DEF Step, Flows, SidesInv
  <2> QED
    BY <2>4 DEF SidesInv
<1> QED
  BY <1>1, <1>2, Invariance, PTL DEF Spec

(***************************************************************************)
(* The two sides of a diff are different sessions of the chain asked       *)
(* about, under the numbers asked for, and the text of each is what its    *)
(* own file holds unless somebody changed it after the request came, or    *)
(* empty when the file could not be read (handleGetDiff, versionSessionID, *)
(* readSessionHTML).                                                       *)
(***************************************************************************)
THEOREM DiffsCompareNamed == Spec => []DiffsCompareTheNamedVersions
<1>1. IInv /\ SidesInv => DiffsCompareTheNamedVersions
  <2>1. SUFFICES ASSUME IInv, SidesInv, NEW r \in Requests, Done(r, {"diff"})
                 PROVE  LET q == req[r]
                        IN  /\ q.found[1] # q.found[2]
                            /\ \A i \in 1..2 :
                                  /\ row[q.found[i]].chain = row[q.doc].chain
                                  /\ row[q.found[i]].no = q.ask.pair[i]
                                  /\ q.found[i] \notin q.touched =>
                                        q.texts[i] = IF q.found[i] \in q.unread THEN None
                                                     ELSE row[q.found[i]].text
    BY DEF DiffsCompareTheNamedVersions
  <2> DEFINE q == req[r]
  <2>2. DocInv /\ req \in [Requests -> RequestType] /\ Flows
    BY <2>1, InvariantParts
  <2>3. q \in RequestType /\ Flow(q) /\ SidesHold(q) /\ q.kind = "diff" /\ q.status = "done"
    BY <2>1, <2>2 DEF SidesInv, Flows, Done
  <2>4. q.next = 10 /\ q.kind \in Kinds /\ q.next \in 1..Len(Statements(q.kind)) + 1
    <3> DEFINE len == Len(Statements(q.kind))
    <3>1. len = 9 /\ q.kind \in Kinds
      BY <2>3, ChainLengths
    <3>2. q.next \in 1..len + 1 /\ (q.next = len + 1 \/ q.kind = "chain")
      BY <2>3 DEF Flow
    <3>3. q.next = len + 1
      BY <2>3, <3>2
    <3> HIDE DEF len
    <3>4. q.next = 10
      BY <3>1, <3>3
    <3> QED
      BY <3>1, <3>2, <3>4 DEF len
  <2>5. Passed(q, "versions")
    BY <2>3, <2>4, Order DEF Passed
  <2>6. Len(q.texts) = 2 /\ q.texts \in Seq(Word)
    BY <2>3, <2>4 DEF SidesHold, RequestType
  <2>7. DOMAIN q.texts = 1..2
    BY <2>6
  <2> QED
    BY <2>3, <2>5, <2>7 DEF SidesHold, FileText
<1> QED
  BY <1>1, Invariance, SidesInvariance, PTL

(***************************************************************************)
(* Chain views.                                                            *)
(***************************************************************************)
VersionsInv == \A r \in Requests : req[r].status # "off" => VersionsHold(req[r])

\* A step that changes no document leaves every chain as it is.
LEMMA SameDocs ==
    ASSUME DocInv, DocInv', Changes({})
    PROVE  row' = row /\ made' = made
<1>1. row \in [Docs -> RowType] /\ row' \in [Docs -> RowType]
  BY DEF DocInv, DocTypes
<1>2. \A d \in Docs : row'[d] = row[d]
  BY DEF Changes
<1>3. row' = row
  BY <1>1, <1>2
<1>4. made' = made
  BY DEF Changes
<1> QED
  BY <1>3, <1>4

\* The same chain, read by the same request after such a step.
LEMMA SameChain ==
    ASSUME NEW r \in Requests, row' = row, made' = made, req'[r].doc = req[r].doc
    PROVE  ChainVersions(req[r].doc)' = ChainVersions(req[r].doc)
  BY DEF ChainVersions, InChain, Live, Here, Version, MetaOf

\* Every step keeps the facts about a chain view.
LEMMA VersionsStep ==
    ASSUME DocInv, DocInv', req \in [Requests -> RequestType], NEW r \in Requests,
           req[r].status # "off" => Flow(req[r]) /\ VersionsHold(req[r]),
           NEW T \in SUBSET Docs, Changes(T), Outcome(r, T)
    PROVE  req'[r].status # "off" => VersionsHold(req[r])'
<1> DEFINE q == req[r]
           n == req'[r]
           alone == n.next = 6 /\ n.status = "done" =>
                       /\ Len(n.versions) = 1 /\ n.versions[1].doc = n.doc
                       /\ row'[n.doc].chain # None => n.touched # {}
           ordered == Passed(n, "versions") =>
                       /\ \E i \in DOMAIN n.versions : n.versions[i].doc = n.doc
                       /\ \A i, j \in DOMAIN n.versions : i < j =>
                             n.versions[i].no < n.versions[j].no /\ n.versions[i].doc # n.versions[j].doc
           current == Passed(n, "versions") /\ n.touched = {} => n.versions = ChainVersions(req[r].doc)'
           steps == Passed(n, "diffs") /\ n.touched = {} =>
                       /\ Len(n.diffs) = Len(n.versions)
                       /\ \A i \in DOMAIN n.versions :
                             n.diffs[i] = DiffVersions(IF i = 1 THEN [no |-> 0, meta |-> NoMeta]
                                                       ELSE n.versions[i - 1], n.versions[i])
<1>1. ASSUME n.kind = "chain" => alone /\ ordered /\ current /\ steps PROVE VersionsHold(req[r])'
  <2>1. \A t : Passed(req[r], t)' <=> Passed(n, t)
    BY DEF Passed, Before
  <2>2. /\ \A v, w : DiffVersions(v, w)' = DiffVersions(v, w)
        /\ NoMeta' = NoMeta
    BY DEF DiffVersions, NoMeta
  <2> QED
    BY <1>1, <2>1, <2>2 DEF VersionsHold
<1>2. q \in RequestType
  OBVIOUS
<1>3. CASE Seen(r, T)
  <2>1. CASE q.status = "off"
    BY <1>3, <2>1 DEF Seen
  <2>2. CASE q.status # "off"
    <3>1. /\ n.next = q.next /\ n.status = q.status /\ n.kind = q.kind /\ n.doc = q.doc
          /\ n.touched = q.touched \cup T
          /\ n.versions = q.versions /\ n.diffs = q.diffs /\ \A t : Passed(n, t) <=> Passed(q, t)
      BY <1>3, <2>2, SeenFields
    <3>2. SUFFICES ASSUME q.kind = "chain" PROVE alone /\ ordered /\ current /\ steps
      BY <1>1, <3>1
    <3>3. VersionsHold(q)
      BY <2>2
    <3>4. ASSUME n.touched = {}
          PROVE  q.touched = {} /\ row' = row /\ ChainVersions(req[r].doc)' = ChainVersions(q.doc)
      <4>1. T = {} /\ q.touched = {}
        BY <3>1, <3>4
      <4>2. row' = row /\ made' = made
        BY <4>1, SameDocs
      <4> QED
        BY <3>1, <4>1, <4>2, SameChain
    <3>5. alone
      BY <3>1, <3>2, <3>3, <3>4 DEF VersionsHold
    <3>6. ordered
      BY <3>1, <3>2, <3>3 DEF VersionsHold
    <3>7. current
      BY <3>1, <3>2, <3>3, <3>4 DEF VersionsHold
    <3>8. steps
      BY <3>1, <3>2, <3>3, <3>4 DEF VersionsHold
    <3> QED
      BY <3>5, <3>6, <3>7, <3>8
  <2> QED
    BY <2>1, <2>2
<1>4. CASE Ends(r)
  BY <1>4, BlankFields DEF Ends
<1>5. CASE Begins(r)
  <2>1. n.next = 1 /\ \A t : ~Passed(n, t)
    BY <1>5, BegunFields
  <2> QED
    BY <1>1, <2>1
<1>6. CASE Answered(r)
  <2>1. q.status # "off" /\ row[q.doc].chain = None /\ UNCHANGED row
    BY <1>6 DEF Answered, At
  <2>2. /\ q.kind = "chain" /\ q.next = 6 /\ n.next = q.next /\ n.doc = q.doc
        /\ Len(n.versions) = 1 /\ n.versions[1].doc = q.doc
        /\ \A t : Passed(n, t) <=> Passed(q, t)
    BY <1>6, <2>1, AnsweredFields
  <2>3. ~Passed(n, "versions") /\ ~Passed(n, "diffs")
    <3>1. q.kind \in Kinds /\ q.next \in 1..Len(Statements(q.kind)) + 1
      BY <1>2, <2>1 DEF Flow, RequestType
    <3> QED
      BY <2>2, <3>1, Order DEF Passed
  <2> QED
    BY <1>1, <2>1, <2>2, <2>3
<1>7. CASE Wrote(r)
  <2>1. q.status # "off"
    BY <1>7 DEF Wrote, At
  <2>2. n.kind \in Writing
    BY <1>7, <2>1, WroteFields
  <2>3. n.kind # "chain"
    BY <2>2 DEF Writing, Edits
  <2> QED
    BY <1>1, <2>3
<1>8. ASSUME NEW s, NEW new, Advanced(r, s, new) PROVE VersionsHold(req[r])'
  <2>1. q.status # "off" /\ At(r, s) /\ Reads(r, s, new) /\ row' = row /\ made' = made /\ Flow(q)
    BY <1>8 DEF Advanced, At
  <2>2. /\ q.kind \in Kinds /\ q.next \in 1..Len(Statements(q.kind)) /\ Statements(q.kind)[q.next] = s
        /\ n.next = q.next + 1 /\ n.kind = q.kind /\ n.doc = q.doc /\ n.touched = q.touched
        /\ n.status = IF q.next = Len(Statements(q.kind)) THEN "done" ELSE "busy"
        /\ n.versions = new.versions /\ n.diffs = new.diffs
        /\ s # "versions" => n.versions = q.versions
        /\ s # "diffs" => n.diffs = q.diffs
        /\ \A t : Passed(n, t) <=> Passed(q, t) \/ t = s
    BY <1>2, <1>8, <2>1, AdvancedFields
  <2>3. SUFFICES ASSUME q.kind = "chain" PROVE alone /\ ordered /\ current /\ steps
    BY <1>1, <2>2
  <2>4. q.next \in 1..8 /\ Len(Statements(q.kind)) = 8
    <3>1. Len(Statements(q.kind)) = 8
      BY <2>3, ChainLengths
    <3> QED
      BY <2>2, <3>1
  <2>5. (Passed(q, "versions") <=> q.next > 7) /\ ~Passed(q, "diffs")
    <3>1. q.next \in 1..Len(Statements(q.kind)) + 1
      BY <2>2, <2>4
    <3> QED
      BY <2>2, <2>3, <2>4, <3>1, Order DEF Passed
  <2>6. s \in {"versions", "diffs"} => q.next = IF s = "versions" THEN 7 ELSE 8
    BY <2>2, Places
  <2>7. alone
    BY <2>2, <2>4
  <2>8. ChainVersions(req[r].doc)' = ChainVersions(q.doc)
    BY <2>1, <2>2, SameChain
  <2>9. CASE s = "versions"
    <3>1. row[q.doc].chain # None /\ q.doc \in Docs
      BY <2>1, <2>9, ChainViewer
    <3>2. new.versions = ChainVersions(q.doc) /\ \E i \in DOMAIN ChainVersions(q.doc) : ChainVersions(q.doc)[i].doc = q.doc
      <4> DEFINE vs == ChainVersions(q.doc)
      <4>1. (\E found : new = [q EXCEPT !.versions = vs, !.found = found]) /\ \E i \in DOMAIN vs : vs[i].doc = q.doc
        BY <2>1, <2>3, <2>9 DEF Reads
      <4> HIDE DEF vs
      <4>2. new.versions = vs
        BY <1>2, <4>1 DEF RequestType
      <4> QED
        BY <4>1, <4>2 DEF vs
    <3>3. n.versions = ChainVersions(q.doc)
      BY <2>2, <3>2
    <3>4. ordered
      <4> DEFINE vs == ChainVersions(q.doc)
                 m == Cardinality(InChain(row[q.doc].chain))
      <4>1. DOMAIN vs = 1..m /\ \A i, j \in 1..m : i < j => vs[i].no < vs[j].no /\ vs[i].doc # vs[j].doc
        BY <3>1, ChainInOrder
      <4> HIDE DEF vs, m
      <4>2. n.versions = vs /\ \E i \in DOMAIN vs : vs[i].doc = n.doc
        BY <2>2, <3>2, <3>3 DEF vs
      <4> QED
        BY <4>1, <4>2
    <3>5. current
      BY <2>8, <3>3
    <3>6. steps
      BY <2>2, <2>5, <2>9
    <3> QED
      BY <2>7, <3>4, <3>5, <3>6
  <2>10. CASE s # "versions"
    <3>1. n.versions = q.versions /\ (Passed(n, "versions") <=> Passed(q, "versions"))
      BY <2>2, <2>10
    <3>2. ordered
      BY <2>1, <2>2, <2>3, <3>1 DEF VersionsHold
    <3>3. current
      BY <2>1, <2>2, <2>3, <2>8, <3>1 DEF VersionsHold
    <3>4. steps
      <4>1. CASE s # "diffs"
        BY <2>2, <2>5, <4>1
      <4>2. CASE s = "diffs"
        <5>1. SUFFICES ASSUME n.touched = {}
                       PROVE  /\ Len(n.diffs) = Len(n.versions)
                              /\ \A i \in DOMAIN n.versions :
                                    n.diffs[i] = DiffVersions(IF i = 1 THEN [no |-> 0, meta |-> NoMeta]
                                                              ELSE n.versions[i - 1], n.versions[i])
          OBVIOUS
        <5> DEFINE vs == ChainVersions(q.doc)
        <5>2. PICK ds : /\ new = [q EXCEPT !.diffs = ds] /\ DOMAIN ds = DOMAIN vs
                        /\ \A i \in DOMAIN vs :
                              ds[i] = DiffVersions(IF i = 1 THEN [no |-> 0, meta |-> NoMeta] ELSE vs[i - 1], vs[i])
          BY <2>1, <4>2 DEF Reads
        <5>3. q.versions = vs
          BY <2>1, <2>2, <2>3, <2>5, <2>6, <4>2, <5>1 DEF VersionsHold
        <5> HIDE DEF vs
        <5>4. new.diffs = ds
          BY <1>2, <5>2 DEF RequestType
        <5>5. n.diffs = ds /\ n.versions = vs
          BY <2>2, <3>1, <5>3, <5>4
        <5>6. ds \in Seq(Diffs) /\ vs \in Seq(Versions)
          <6>1. new \in RequestType
            BY <2>1 DEF Reads
          <6> QED
            BY <1>2, <5>3, <5>4, <6>1 DEF RequestType
        <5>7. Len(ds) = Len(vs)
          BY <5>2, <5>6
        <5> QED
          BY <5>2, <5>5, <5>7
      <4> QED
        BY <4>1, <4>2
    <3> QED
      BY <2>7, <3>2, <3>3, <3>4
  <2> QED
    BY <2>9, <2>10
<1> QED
  BY <1>3, <1>4, <1>5, <1>6, <1>7, <1>8 DEF Outcome

\* They are an invariant.
LEMMA VersionsInvariance == Spec => []VersionsInv
<1>1. Init => VersionsInv
  BY BlankFields DEF Init, VersionsInv
<1>2. IInv /\ VersionsInv /\ [Next]_vars => VersionsInv'
  <2>1. SUFFICES ASSUME IInv, VersionsInv, [Next]_vars PROVE VersionsInv'
    OBVIOUS
  <2>2. DocInv /\ req \in [Requests -> RequestType] /\ Flows
    BY <2>1, InvariantParts
  <2>3. PICK T : Step(T)
    BY <2>1, <2>2, StepOutcome
  <2>4. \A r \in Requests : req'[r].status # "off" => VersionsHold(req[r])'
    BY <2>1, <2>2, <2>3, VersionsStep DEF Step, Flows, VersionsInv
  <2> QED
    BY <2>4 DEF VersionsInv
<1> QED
  BY <1>1, <1>2, Invariance, PTL DEF Spec

(***************************************************************************)
(* A chain view holds the session asked about once, among versions of      *)
(* increasing number, and when no document changed while it was made its   *)
(* differences lead from nothing through every version to the last         *)
(* (ListVersions, DiffChainMetadata, handleGetChain).                      *)
(***************************************************************************)
THEOREM ChainViewsAreOneHistory == Spec => []ChainViewIsOneHistory
<1>1. IInv /\ VersionsInv => ChainViewIsOneHistory
  <2>1. SUFFICES ASSUME IInv, VersionsInv PROVE ChainViewIsOneHistory
    OBVIOUS
  <2>2. DocInv /\ req \in [Requests -> RequestType] /\ Flows
    BY <2>1, InvariantParts
  <2>3. ASSUME NEW r \in Requests, Done(r, {"chain"})
        PROVE  LET vs == req[r].versions
                   ds == req[r].diffs
                   before(n) == IF n = 1 THEN [no |-> 0, meta |-> NoMeta]
                                ELSE [no |-> vs[n - 1].no, meta |-> vs[n - 1].meta]
               IN  /\ \E i \in DOMAIN vs : vs[i].doc = req[r].doc
                   /\ \A i, j \in DOMAIN vs : i < j => vs[i].no < vs[j].no /\ vs[i].doc # vs[j].doc
                   /\ req[r].touched = {} /\ row[req[r].doc].chain # None =>
                         /\ Len(ds) = Len(vs)
                         /\ \A n \in DOMAIN vs :
                               /\ ds[n].from = before(n).no /\ ds[n].to = vs[n].no
                               /\ (before(n).meta.tags \ ds[n].removed) \cup ds[n].added = vs[n].meta.tags
                               /\ ds[n].categoryOld = before(n).meta.category
                               /\ ds[n].categoryNew = vs[n].meta.category
                               /\ ds[n].projectOld = before(n).meta.project
                               /\ ds[n].projectNew = vs[n].meta.project
    <3> DEFINE q == req[r]
               vs == q.versions
               ds == q.diffs
               before(n) == IF n = 1 THEN [no |-> 0, meta |-> NoMeta]
                            ELSE [no |-> vs[n - 1].no, meta |-> vs[n - 1].meta]
    <3>1. q \in RequestType /\ Flow(q) /\ VersionsHold(q) /\ q.kind = "chain" /\ q.status = "done"
      BY <2>1, <2>2, <2>3 DEF VersionsInv, Flows, Done
    <3>2. vs \in Seq(Versions) /\ ds \in Seq(Diffs)
      BY <3>1 DEF RequestType
    <3>3. DOMAIN vs = 1..Len(vs) /\ Len(vs) \in Nat /\ \A i \in DOMAIN vs : vs[i] \in Versions
      BY <3>2, ElementOfSeq
    <3>4. q.next = 9 \/ q.next = 6
      <4> DEFINE len == Len(Statements(q.kind))
      <4>1. len = 8
        BY <3>1, ChainLengths
      <4>2. q.next = len + 1 \/ q.next = 6
        BY <3>1 DEF Flow
      <4> HIDE DEF len
      <4> QED
        BY <4>1, <4>2
    <3>5. CASE q.next = 6
      <4>1. /\ Len(vs) = 1 /\ vs[1].doc = q.doc
            /\ row[q.doc].chain # None => q.touched # {}
        BY <3>1, <3>5 DEF VersionsHold
      <4>2. DOMAIN vs = {1}
        BY <3>3, <4>1
      <4> QED
        BY <4>1, <4>2
    <3>6. CASE q.next = 9
      <4>1. Passed(q, "versions") /\ Passed(q, "diffs")
        <5>1. q.kind \in Kinds /\ q.next \in 1..Len(Statements(q.kind)) + 1
          BY <3>1 DEF Flow, RequestType
        <5> QED
          BY <3>1, <3>6, <5>1, Order DEF Passed
      <4>2. /\ \E i \in DOMAIN vs : vs[i].doc = q.doc
            /\ \A i, j \in DOMAIN vs : i < j => vs[i].no < vs[j].no /\ vs[i].doc # vs[j].doc
            /\ q.touched = {} =>
                  /\ Len(ds) = Len(vs)
                  /\ \A i \in DOMAIN vs :
                        ds[i] = DiffVersions(IF i = 1 THEN [no |-> 0, meta |-> NoMeta] ELSE vs[i - 1], vs[i])
        BY <3>1, <4>1 DEF VersionsHold
      <4>3. ASSUME q.touched = {}, NEW i \in DOMAIN vs
            PROVE  /\ ds[i].from = before(i).no /\ ds[i].to = vs[i].no
                   /\ (before(i).meta.tags \ ds[i].removed) \cup ds[i].added = vs[i].meta.tags
                   /\ ds[i].categoryOld = before(i).meta.category
                   /\ ds[i].categoryNew = vs[i].meta.category
                   /\ ds[i].projectOld = before(i).meta.project
                   /\ ds[i].projectNew = vs[i].meta.project
        <5> DEFINE old == IF i = 1 THEN [no |-> 0, meta |-> NoMeta] ELSE vs[i - 1]
        <5>1. ds[i] = DiffVersions(old, vs[i])
          BY <4>2, <4>3
        <5>2. before(i).no = old.no /\ before(i).meta = old.meta
          OBVIOUS
        <5> HIDE DEF old, before
        <5> QED
          BY <5>1, <5>2, SMTT(30) DEF DiffVersions
      <4> HIDE DEF before
      <4>4. /\ \E i \in DOMAIN vs : vs[i].doc = q.doc
            /\ \A i, j \in DOMAIN vs : i < j => vs[i].no < vs[j].no /\ vs[i].doc # vs[j].doc
            /\ q.touched = {} =>
                  /\ Len(ds) = Len(vs)
                  /\ \A i \in DOMAIN vs :
                        /\ ds[i].from = before(i).no /\ ds[i].to = vs[i].no
                        /\ (before(i).meta.tags \ ds[i].removed) \cup ds[i].added = vs[i].meta.tags
                        /\ ds[i].categoryOld = before(i).meta.category
                        /\ ds[i].categoryNew = vs[i].meta.category
                        /\ ds[i].projectOld = before(i).meta.project
                        /\ ds[i].projectNew = vs[i].meta.project
        BY <4>2, <4>3
      <4> QED
        BY <4>4 DEF before
    <3> QED
      BY <3>4, <3>5, <3>6
  <2> QED
    BY <2>3 DEF ChainViewIsOneHistory
<1> QED
  BY <1>1, Invariance, VersionsInvariance, PTL

(***************************************************************************)
(* Peers.                                                                  *)
(***************************************************************************)
PeersInv == \A r \in Requests : req[r].status # "off" => AllPeersHold(r)

PeerList(q, part) == IF part = "category" THEN q.found ELSE q.others

\* A document nobody touched is in the scope only if it was.
LEMMA ScopeSeen ==
    ASSUME DocInv, NEW r \in Requests, NEW T \in SUBSET Docs, Changes(T), req'[r].uid = req[r].uid,
           NEW d \in Docs, d \in Scope(r)', d \notin T
    PROVE  d \in Scope(r) /\ row'[d] = row[d]
<1>1. row'[d] = row[d] /\ (Here(d)' <=> Here(d))
  BY DEF Changes
<1>2. Live(d)' /\ (req'[r].uid # Nobody => row'[d].owner = req'[r].uid)
  BY DEF Scope
<1>3. Live(d)
  BY <1>1, <1>2 DEF Live
<1> QED
  BY <1>1, <1>2, <1>3 DEF Scope

\* The peers a statement finds.
LEMMA PeersFound ==
    ASSUME DocInv, NEW r \in Requests, req[r] \in RequestType, NEW part \in {"category", "project"}
    PROVE  /\ \A d \in ToSet(Peers(r, part)) : row[d][part] = req[r].meta[part] /\ d # req[r].doc
           /\ Len(Peers(r, part)) <= PeerLimit
           /\ req[r].meta[part] # None /\ Len(Peers(r, part)) < PeerLimit =>
                 \A d \in Scope(r) : row[d][part] = req[r].meta[part] /\ d # req[r].doc => d \in ToSet(Peers(r, part))
<1> DEFINE q == req[r]
           A == {d \in Scope(r) \ {q.doc} : row[d][part] = q.meta[part]}
<1>1. A \in SUBSET ToSet(made)
  BY ScopeIsMade DEF DocInv
<1>2. Peers(r, part) = IF q.meta[part] = None THEN <<>> ELSE Slice(Newest(A), 0, PeerLimit)
  BY DEF Peers
<1>3. \A d \in A : row[d][part] = q.meta[part] /\ d # q.doc
  OBVIOUS
<1>4. \A d \in Scope(r) : row[d][part] = q.meta[part] /\ d # q.doc => d \in A
  OBVIOUS
<1> HIDE DEF A
<1>5. 1 \in Nat \ {0}
  OBVIOUS
<1>6. /\ ToSet(Slice(Newest(A), 0, PeerLimit)) \subseteq A
      /\ Len(Slice(Newest(A), 0, PeerLimit)) <= PeerLimit
      /\ Len(Slice(Newest(A), 0, PeerLimit)) < PeerLimit => ToSet(Slice(Newest(A), 0, PeerLimit)) = A
  BY <1>1, <1>5, PagesAreLists DEF DocInv
<1>7. ToSet(<<>>) = {} /\ Len(<<>>) = 0 /\ 0 <= PeerLimit
  BY SizesAssumption DEF ToSet
<1>8. CASE q.meta[part] = None
  <2>1. Peers(r, part) = <<>>
    BY <1>2, <1>8
  <2> QED
    BY <1>7, <1>8, <2>1
<1>9. CASE q.meta[part] # None
  <2>1. Peers(r, part) = Slice(Newest(A), 0, PeerLimit)
    BY <1>2, <1>9
  <2> QED
    BY <1>3, <1>4, <1>6, <2>1
<1> QED
  BY <1>8, <1>9

\* Every step keeps the facts about peers.
LEMMA PeersStep ==
    ASSUME DocInv, req \in [Requests -> RequestType], NEW r \in Requests,
           req[r].status # "off" => Flow(req[r]) /\ AllPeersHold(r),
           NEW T \in SUBSET Docs, Changes(T), Outcome(r, T)
    PROVE  req'[r].status # "off" => AllPeersHold(r)'
<1> DEFINE q == req[r]
           n == req'[r]
           parts == {"category", "project"}
           hold(part) ==
               /\ \A d \in ToSet(PeerList(n, part)) \ n.touched : row'[d][part] = n.meta[part] /\ d # n.doc
               /\ Len(PeerList(n, part)) <= PeerLimit
               /\ n.meta[part] # None /\ Len(PeerList(n, part)) < PeerLimit =>
                     \A d \in Scope(r)' : row'[d][part] = n.meta[part] /\ d # n.doc =>
                                             d \in ToSet(PeerList(n, part)) \cup n.touched
           held(part) ==
               /\ \A d \in ToSet(PeerList(q, part)) \ q.touched : row[d][part] = q.meta[part] /\ d # q.doc
               /\ Len(PeerList(q, part)) <= PeerLimit
               /\ q.meta[part] # None /\ Len(PeerList(q, part)) < PeerLimit =>
                     \A d \in Scope(r) : row[d][part] = q.meta[part] /\ d # q.doc =>
                                            d \in ToSet(PeerList(q, part)) \cup q.touched
<1>1. ASSUME n.kind = "peers" => \A part \in parts : Passed(n, By(part)) => hold(part)
      PROVE  AllPeersHold(r)'
  <2>1. \A part : Passed(req[r], By(part))' <=> Passed(n, By(part))
    BY DEF Passed, Before, By
  <2>2. ASSUME NEW part \in parts, hold(part) PROVE PeersHold(r, part)'
    BY <2>2 DEF PeersHold, PeerList
  <2> QED
    BY <1>1, <2>1, <2>2 DEF AllPeersHold, By
<1>2. ASSUME q.status # "off", q.kind = "peers", NEW part \in parts, Passed(q, By(part)) PROVE held(part)
  <2>1. PeersHold(r, part)
    BY <1>2 DEF AllPeersHold
  <2> QED
    BY <2>1 DEF PeersHold, PeerList
<1> HIDE DEF hold, held
<1>3. q \in RequestType
  OBVIOUS
<1>4. CASE Seen(r, T)
  <2>1. CASE q.status = "off"
    BY <1>4, <2>1 DEF Seen
  <2>2. CASE q.status # "off"
    <3>1. /\ n.kind = q.kind /\ n.doc = q.doc /\ n.uid = q.uid /\ n.touched = q.touched \cup T
          /\ n.meta = q.meta /\ n.found = q.found /\ n.others = q.others
          /\ \A t : Passed(n, t) <=> Passed(q, t)
      BY <1>4, <2>2, SeenFields
    <3>2. SUFFICES ASSUME q.kind = "peers", NEW part \in parts, Passed(q, By(part)) PROVE hold(part)
      BY <1>1, <3>1
    <3>3. held(part)
      BY <1>2, <2>2, <3>2
    <3>4. PeerList(n, part) = PeerList(q, part)
      BY <3>1 DEF PeerList
    <3>5. ToSet(PeerList(q, part)) \subseteq Docs
      <4>1. q.found \in Seq(Docs) /\ q.others \in Seq(Docs)
        BY <1>3 DEF RequestType
      <4> QED
        BY <4>1 DEF PeerList, ToSet
    <3>6. ASSUME NEW d \in ToSet(PeerList(q, part)), d \notin n.touched
          PROVE  row'[d][part] = n.meta[part] /\ d # n.doc
      <4>1. row[d][part] = q.meta[part] /\ d # q.doc
        BY <3>1, <3>3, <3>6 DEF held
      <4>2. row'[d] = row[d]
        BY <3>1, <3>5, <3>6 DEF Changes
      <4> QED
        BY <3>1, <4>1, <4>2
    <3>7. ASSUME n.meta[part] # None, Len(PeerList(q, part)) < PeerLimit, NEW d \in Scope(r)',
                 row'[d][part] = n.meta[part], d # n.doc
          PROVE  d \in ToSet(PeerList(q, part)) \cup n.touched
      <4>1. d \in Docs
        BY DEF Scope
      <4>2. CASE d \in T
        BY <3>1, <4>2
      <4>3. CASE d \notin T
        <5>1. d \in Scope(r) /\ row'[d] = row[d]
          BY <3>1, <4>1, <4>3, ScopeSeen
        <5>2. d \in ToSet(PeerList(q, part)) \cup q.touched
          BY <3>1, <3>3, <3>7, <5>1 DEF held
        <5> QED
          BY <3>1, <5>2
      <4> QED
        BY <4>2, <4>3
    <3>8. Len(PeerList(n, part)) <= PeerLimit
      BY <3>3, <3>4 DEF held
    <3> QED
      BY <3>4, <3>6, <3>7, <3>8 DEF hold
  <2> QED
    BY <2>1, <2>2
<1>5. CASE Ends(r)
  BY <1>5, BlankFields DEF Ends
<1>6. CASE Begins(r)
  <2>1. \A t : ~Passed(n, t)
    BY <1>6, BegunFields
  <2> QED
    BY <1>1, <2>1
<1>7. CASE Answered(r)
  <2>1. q.status # "off" /\ q.kind = "chain"
    BY <1>7 DEF Answered, At
  <2>2. n.kind = q.kind
    BY <1>7, <2>1, AnsweredFields
  <2> QED
    BY <1>1, <2>1, <2>2
<1>8. CASE Wrote(r)
  <2>1. q.status # "off"
    BY <1>8 DEF Wrote, At
  <2>2. n.kind \in Writing
    BY <1>8, <2>1, WroteFields
  <2>3. n.kind # "peers"
    BY <2>2 DEF Writing, Edits
  <2> QED
    BY <1>1, <2>3
<1>9. ASSUME NEW s, NEW new, Advanced(r, s, new) PROVE AllPeersHold(r)'
  <2>1. q.status # "off" /\ Reads(r, s, new) /\ row' = row /\ made' = made
    BY <1>9 DEF Advanced, At
  <2>2. /\ q.kind \in Kinds /\ q.next \in 1..Len(Statements(q.kind)) /\ Statements(q.kind)[q.next] = s
        /\ n.kind = q.kind /\ n.doc = q.doc /\ n.uid = q.uid /\ n.touched = q.touched
        /\ n.found = new.found /\ n.others = new.others
        /\ s \notin MetaParts => n.meta = q.meta
        /\ s \notin {"page", "search", "grep", "byCategory", "versions"} => n.found = q.found
        /\ s \notin {"list", "grep", "byProject"} => n.others = q.others
        /\ \A t : Passed(n, t) <=> Passed(q, t) \/ t = s
    BY <1>3, <1>9, <2>1, AdvancedFields
  <2>3. Scope(r)' = Scope(r)
    BY <2>1, <2>2 DEF Scope, Live, Here
  <2>4. SUFFICES ASSUME q.kind = "peers", NEW part \in parts, Passed(n, By(part)) PROVE hold(part)
    BY <1>1, <2>2
  <2>5. /\ s \notin {"page", "search", "grep", "versions", "list"}
        /\ s \in MetaParts => q.next <= 5
        /\ s = "byCategory" => q.next = 6
        /\ s = "byProject" => q.next = 7
    BY <2>2, <2>4, Places DEF MetaParts, Edits
  <2>6. (Passed(q, "byCategory") <=> q.next > 6) /\ (Passed(q, "byProject") <=> q.next > 7) /\ q.next \in Nat
    <3>1. Len(Statements(q.kind)) \in Nat
      BY <2>2, SomeStatements
    <3>2. q.next \in 1..Len(Statements(q.kind)) + 1
      BY <2>2, <3>1
    <3> QED
      BY <2>2, <2>4, <3>2, Order DEF Passed
  <2>7. s \notin MetaParts
    BY <2>2, <2>4, <2>5, <2>6 DEF By, MetaParts
  <2>8. CASE Passed(q, By(part)) /\ s # By(part)
    <3>1. PeerList(n, part) = PeerList(q, part)
      BY <2>2, <2>4, <2>5, <2>8 DEF PeerList, By
    <3>2. held(part)
      BY <1>2, <2>1, <2>4, <2>8
    <3>3. n.meta = q.meta
      BY <2>2, <2>7
    <3> QED
      BY <2>1, <2>2, <2>3, <3>1, <3>2, <3>3 DEF hold, held
  <2>9. CASE s = By(part)
    <3>1. new = IF part = "category" THEN [q EXCEPT !.found = Peers(r, part)]
                ELSE [q EXCEPT !.others = Peers(r, part)]
      BY <2>1, <2>4, <2>9 DEF Reads, By
    <3>2. PeerList(new, part) = Peers(r, part)
      <4>1. CASE part = "category"
        BY <1>3, <3>1, <4>1 DEF PeerList, RequestType
      <4>2. CASE part = "project"
        BY <1>3, <3>1, <4>2 DEF PeerList, RequestType
      <4> QED
        BY <2>4, <4>1, <4>2
    <3>3. PeerList(n, part) = Peers(r, part)
      BY <2>2, <3>2 DEF PeerList
    <3>4. n.meta = q.meta
      BY <2>2, <2>7
    <3>5. /\ \A d \in ToSet(Peers(r, part)) : row[d][part] = q.meta[part] /\ d # q.doc
          /\ Len(Peers(r, part)) <= PeerLimit
          /\ q.meta[part] # None /\ Len(Peers(r, part)) < PeerLimit =>
                \A d \in Scope(r) : row[d][part] = q.meta[part] /\ d # q.doc => d \in ToSet(Peers(r, part))
      BY <1>3, <2>4, PeersFound
    <3> QED
      BY <2>1, <2>2, <2>3, <3>3, <3>4, <3>5 DEF hold
  <2> QED
    BY <2>2, <2>4, <2>8, <2>9
<1> QED
  BY <1>4, <1>5, <1>6, <1>7, <1>8, <1>9 DEF Outcome

\* They are an invariant.
LEMMA PeersInvariance == Spec => []PeersInv
<1>1. Init => PeersInv
  BY BlankFields DEF Init, PeersInv
<1>2. IInv /\ PeersInv /\ [Next]_vars => PeersInv'
  <2>1. SUFFICES ASSUME IInv, PeersInv, [Next]_vars PROVE PeersInv'
    OBVIOUS
  <2>2. DocInv /\ req \in [Requests -> RequestType] /\ Flows
    BY <2>1, InvariantParts
  <2>3. PICK T : Step(T)
    BY <2>1, <2>2, StepOutcome
  <2>4. \A r \in Requests : req'[r].status # "off" => AllPeersHold(r)'
    BY <2>1, <2>2, <2>3, PeersStep DEF Step, Flows, PeersInv
  <2> QED
    BY <2>4 DEF PeersInv
<1> QED
  BY <1>1, <1>2, Invariance, PTL DEF Spec

(***************************************************************************)
(* Peers share what the answer says the session's category and project     *)
(* are, never the session itself, and none that nobody touched is missing  *)
(* while there is room (GetPeersForOwner, the LIMIT of its queries).       *)
(***************************************************************************)
THEOREM PeersShareWhatIsShown == Spec => []PeersAreAlike
<1>1. IInv /\ PeersInv => PeersAreAlike
  <2>1. SUFFICES ASSUME IInv, PeersInv, NEW r \in Requests, Done(r, {"peers"}), NEW part \in {"category", "project"}
                 PROVE  LET peers == IF part = "category" THEN req[r].found ELSE req[r].others
                            alike(d) == row[d][part] = req[r].meta[part] /\ d # req[r].doc
                        IN  /\ \A d \in ToSet(peers) \ req[r].touched : alike(d)
                            /\ Len(peers) <= PeerLimit
                            /\ req[r].meta[part] # None /\ Len(peers) < PeerLimit =>
                                  {d \in Scope(r) : alike(d)} \subseteq ToSet(peers) \cup req[r].touched
    BY DEF PeersAreAlike
  <2> DEFINE q == req[r]
  <2>2. DocInv /\ req \in [Requests -> RequestType] /\ Flows
    BY <2>1, InvariantParts
  <2>3. q \in RequestType /\ Flow(q) /\ AllPeersHold(r) /\ q.kind = "peers" /\ q.status = "done"
    BY <2>1, <2>2 DEF PeersInv, Flows, Done
  <2>4. q.kind \in Kinds /\ q.next \in 1..Len(Statements(q.kind)) + 1 /\ q.next = 8
    <3>1. Statements(q.kind) = <<"session", "owner", "tags", "category", "project", "byCategory", "byProject">>
      BY <2>3, Table
    <3> DEFINE len == Len(Statements(q.kind))
    <3>2. len = 7
      BY <3>1
    <3>3. q.next = len + 1 /\ q.kind \in Kinds
      BY <2>3 DEF Flow, RequestType
    <3> HIDE DEF len
    <3>4. q.next = 8 /\ q.next \in 1..len + 1
      BY <3>2, <3>3
    <3> QED
      BY <3>3, <3>4 DEF len
  <2>5. Passed(q, By(part))
    BY <2>1, <2>3, <2>4, Order DEF Passed, By
  <2>6. PeersHold(r, part)
    BY <2>1, <2>3, <2>5 DEF AllPeersHold
  <2> QED
    BY <2>6 DEF PeersHold
<1> QED
  BY <1>1, Invariance, PeersInvariance, PTL

(***************************************************************************)
(* Searches.                                                               *)
(***************************************************************************)
SearchInv == \A r \in Requests : req[r].status # "off" => SearchHolds(r)

\* A document nobody touched matches only if it did.
LEMMA MatchesSeen ==
    ASSUME DocInv, NEW r \in Requests, NEW T \in SUBSET Docs, Changes(T), req'[r].uid = req[r].uid,
           req'[r].ask = req[r].ask, NEW d \in Docs, d \notin T
    PROVE  /\ d \in Filtered(r)' => d \in Filtered(r)
           /\ d \in MetaMatches(r)' => d \in MetaMatches(r)
           /\ d \in FileMatches(r)' => d \in FileMatches(r)
<1>1. ASSUME d \in Filtered(r)' PROVE d \in Filtered(r) /\ row'[d] = row[d]
  <2>1. d \in Scope(r)'
    BY <1>1 DEF Filtered
  <2>2. d \in Scope(r) /\ row'[d] = row[d]
    BY <2>1, ScopeSeen
  <2> QED
    BY <1>1, <2>2 DEF Filtered
<1>2. ASSUME d \in MetaMatches(r)' PROVE d \in MetaMatches(r)
  <2>1. d \in Filtered(r)'
    BY <1>2 DEF MetaMatches
  <2>2. d \in Filtered(r) /\ row'[d] = row[d]
    BY <1>1, <2>1
  <2> QED
    BY <1>2, <2>2 DEF MetaMatches
<1>3. ASSUME d \in FileMatches(r)' PROVE d \in FileMatches(r)
  BY <1>3 DEF FileMatches, Changes
<1> QED
  BY <1>1, <1>2, <1>3

\* The same sets after a step that changes no document.
LEMMA SameMatches ==
    ASSUME NEW r \in Requests, row' = row, made' = made, req'[r].uid = req[r].uid, req'[r].ask = req[r].ask
    PROVE  Filtered(r)' = Filtered(r) /\ MetaMatches(r)' = MetaMatches(r) /\ FileMatches(r)' = FileMatches(r)
<1>1. Scope(r)' = Scope(r)
  BY DEF Scope, Live, Here
<1>2. Filtered(r)' = Filtered(r)
  BY <1>1 DEF Filtered
<1>3. MetaMatches(r)' = MetaMatches(r)
  BY <1>2 DEF MetaMatches
<1>4. FileMatches(r)' = FileMatches(r)
  BY DEF FileMatches
<1> QED
  BY <1>2, <1>3, <1>4

\* How far a search has got.
LEMMA SearchPlaces ==
    ASSUME NEW q \in RequestType, q.kind = "search", q.next \in 1..Len(Statements(q.kind)) + 1
    PROVE  /\ q.next \in 1..4 /\ Len(Statements(q.kind)) = 3
           /\ Passed(q, "search") <=> q.next > 1
           /\ Passed(q, "list") <=> q.next > 2
           /\ Passed(q, "grep") <=> q.next > 3
           /\ q.next \in 1..3 => Statements(q.kind)[q.next] = CASE q.next = 1 -> "search"
                                                                 [] q.next = 2 -> "list"
                                                                 [] q.next = 3 -> "grep"
<1> DEFINE len == Len(Statements(q.kind))
<1>1. Statements(q.kind) = <<"search", "list", "grep">>
  BY Table
<1>2. len = 3
  BY <1>1
<1>3. q.kind \in Kinds /\ q.next \in 1..len + 1
  BY DEF RequestType
<1>4. /\ Passed(q, "search") <=> q.next > 1
      /\ Passed(q, "list") <=> q.next > 2
      /\ Passed(q, "grep") <=> q.next > 3
  BY <1>3, Order DEF Passed
<1>5. Statements(q.kind)[1] = "search" /\ Statements(q.kind)[2] = "list" /\ Statements(q.kind)[3] = "grep"
  BY <1>1
<1> HIDE DEF len
<1>6. q.next \in 1..4
  BY <1>2, <1>3
<1> QED
  BY <1>2, <1>4, <1>5, <1>6 DEF len

\* What the last statement of a search puts together.
LEMMA GrepFinds ==
    ASSUME DocInv, NEW r \in Requests, req[r] \in RequestType, Flow(req[r]), IsInjective(req[r].found), NEW unread
    PROVE  LET q == req[r]
               rest == Matching(r) \ unread
           IN  /\ ToSet(q.found \o Newest(rest)) = ToSet(q.found) \cup rest
               /\ IsInjective(q.found \o Newest(rest))
               /\ q.found \o Newest(rest) \in Seq(Docs)
<1> DEFINE q == req[r]
           rest == Matching(r) \ unread
<1>1. q.found \in Seq(Docs)
  BY DEF RequestType
<1>2. rest \in SUBSET ToSet(made)
  BY DEF Flow, Named, Here, Matching
<1>3. ToSet(q.found) \cap rest = {}
  BY DEF Matching
<1> HIDE DEF rest
<1>4. Newest(rest) \in Seq(Docs) /\ ToSet(Newest(rest)) = rest /\ IsInjective(Newest(rest))
  BY <1>2, NewestFirst DEF DocInv, DocTypes
<1>5. /\ ToSet(q.found \o Newest(rest)) = ToSet(q.found) \cup rest
      /\ IsInjective(q.found \o Newest(rest))
  BY <1>1, <1>3, <1>4, ConcatSet
<1>6. q.found \o Newest(rest) \in Seq(Docs)
  BY <1>1, <1>4
<1> QED
  BY <1>5, <1>6 DEF rest

\* Every step keeps the facts about a search.
LEMMA SearchStep ==
    ASSUME DocInv, req \in [Requests -> RequestType], NEW r \in Requests,
           req[r].status # "off" => Flow(req[r]) /\ SearchHolds(r),
           NEW T \in SUBSET Docs, Changes(T), Outcome(r, T)
    PROVE  req'[r].status # "off" => SearchHolds(r)'
<1> DEFINE q == req[r]
           n == req'[r]
           F == Filtered(r)'
           M == MetaMatches(r)'
           G == FileMatches(r)' \ n.unread
           first == Passed(n, "search") /\ ~Passed(n, "grep") =>
                       IsInjective(n.found) /\ M \subseteq ToSet(n.found) \cup n.touched
           second == Passed(n, "list") /\ ~Passed(n, "grep") => F \subseteq ToSet(n.others) \cup n.touched
           third == Passed(n, "grep") =>
                       IsInjective(n.others) /\ F \cap (M \cup G) \subseteq ToSet(n.others) \cup n.touched
<1>1. ASSUME n.kind = "search" => first /\ second /\ third PROVE SearchHolds(r)'
  <2>1. \A t : Passed(req[r], t)' <=> Passed(n, t)
    BY DEF Passed, Before
  <2> QED
    BY <1>1, <2>1 DEF SearchHolds
<1>2. ASSUME q.status # "off", q.kind = "search"
      PROVE  /\ Passed(q, "search") /\ ~Passed(q, "grep") =>
                   IsInjective(q.found) /\ MetaMatches(r) \subseteq ToSet(q.found) \cup q.touched
             /\ Passed(q, "list") /\ ~Passed(q, "grep") => Filtered(r) \subseteq ToSet(q.others) \cup q.touched
             /\ Passed(q, "grep") =>
                   /\ IsInjective(q.others)
                   /\ Filtered(r) \cap (MetaMatches(r) \cup (FileMatches(r) \ q.unread))
                        \subseteq ToSet(q.others) \cup q.touched
  BY <1>2 DEF SearchHolds
<1>3. q \in RequestType
  OBVIOUS
<1>4. F \subseteq Docs /\ M \subseteq F /\ M \subseteq Docs /\ G \subseteq Docs
  BY DEF Filtered, MetaMatches, FileMatches, Scope
<1> HIDE DEF F, M, G
<1>5. CASE Seen(r, T)
  <2>1. CASE q.status = "off"
    BY <1>5, <2>1 DEF Seen
  <2>2. CASE q.status # "off"
    <3>1. /\ n.kind = q.kind /\ n.uid = q.uid /\ n.ask = q.ask /\ n.touched = q.touched \cup T
          /\ n.found = q.found /\ n.others = q.others /\ n.unread = q.unread
          /\ \A t : Passed(n, t) <=> Passed(q, t)
      BY <1>5, <2>2, SeenFields
    <3>2. SUFFICES ASSUME q.kind = "search" PROVE first /\ second /\ third
      BY <1>1, <3>1
    <3>3. \A d \in Docs : d \notin T => /\ d \in F => d \in Filtered(r)
                                        /\ d \in M => d \in MetaMatches(r)
                                        /\ d \in G => d \in FileMatches(r) \ q.unread
      BY <3>1, MatchesSeen DEF F, M, G
    <3>4. /\ Passed(q, "search") /\ ~Passed(q, "grep") =>
                IsInjective(q.found) /\ MetaMatches(r) \subseteq ToSet(q.found) \cup q.touched
          /\ Passed(q, "list") /\ ~Passed(q, "grep") => Filtered(r) \subseteq ToSet(q.others) \cup q.touched
          /\ Passed(q, "grep") =>
                /\ IsInjective(q.others)
                /\ Filtered(r) \cap (MetaMatches(r) \cup (FileMatches(r) \ q.unread))
                     \subseteq ToSet(q.others) \cup q.touched
      BY <1>2, <2>2, <3>2
    <3>5. first
      BY <1>4, <3>1, <3>3, <3>4
    <3>6. second
      BY <1>4, <3>1, <3>3, <3>4
    <3>7. third
      BY <1>4, <3>1, <3>3, <3>4
    <3> QED
      BY <3>5, <3>6, <3>7
  <2> QED
    BY <2>1, <2>2
<1>6. CASE Ends(r)
  BY <1>6, BlankFields DEF Ends
<1>7. CASE Begins(r)
  <2>1. \A t : ~Passed(n, t)
    BY <1>7, BegunFields
  <2> QED
    BY <1>1, <2>1
<1>8. CASE Answered(r)
  <2>1. q.status # "off" /\ q.kind = "chain"
    BY <1>8 DEF Answered, At
  <2>2. n.kind = q.kind
    BY <1>8, <2>1, AnsweredFields
  <2> QED
    BY <1>1, <2>1, <2>2
<1>9. CASE Wrote(r)
  <2>1. q.status # "off"
    BY <1>9 DEF Wrote, At
  <2>2. n.kind \in Writing
    BY <1>9, <2>1, WroteFields
  <2>3. n.kind # "search"
    BY <2>2 DEF Writing, Edits
  <2> QED
    BY <1>1, <2>3
<1>10. ASSUME NEW s, NEW new, Advanced(r, s, new) PROVE SearchHolds(r)'
  <2>1. q.status # "off" /\ Reads(r, s, new) /\ row' = row /\ made' = made /\ Flow(q)
    BY <1>10 DEF Advanced, At
  <2>2. /\ q.kind \in Kinds /\ q.next \in 1..Len(Statements(q.kind)) /\ Statements(q.kind)[q.next] = s
        /\ n \in RequestType /\ n.next = q.next + 1 /\ n.kind = q.kind /\ n.uid = q.uid /\ n.ask = q.ask
        /\ n.touched = q.touched
        /\ n.found = new.found /\ n.others = new.others /\ n.unread = new.unread
        /\ s \notin {"page", "search", "grep", "byCategory", "versions"} => n.found = q.found
        /\ s \notin {"list", "grep", "byProject"} => n.others = q.others
        /\ \A t : Passed(n, t) <=> Passed(q, t) \/ t = s
    BY <1>3, <1>10, <2>1, AdvancedFields
  <2>3. F = Filtered(r) /\ M = MetaMatches(r) /\ G = FileMatches(r) \ n.unread
    BY <2>1, <2>2, SameMatches DEF F, M, G
  <2>4. SUFFICES ASSUME q.kind = "search" PROVE first /\ second /\ third
    BY <1>1, <2>2
  <2>5. q.next \in 1..Len(Statements(q.kind)) + 1
    BY <2>1 DEF Flow
  <2>6. /\ q.next \in 1..3
        /\ Passed(q, "search") <=> q.next > 1
        /\ Passed(q, "list") <=> q.next > 2
        /\ ~Passed(q, "grep")
        /\ s = CASE q.next = 1 -> "search" [] q.next = 2 -> "list" [] q.next = 3 -> "grep"
    <3>1. Len(Statements(q.kind)) = 3
      BY <1>3, <2>4, <2>5, SearchPlaces
    <3>2. q.next \in 1..3
      BY <2>2, <3>1
    <3> QED
      BY <1>3, <2>2, <2>4, <2>5, <3>2, SearchPlaces
  <2>7. DocTypes /\ Filtered(r) \in SUBSET ToSet(made) /\ MetaMatches(r) \in SUBSET ToSet(made)
    BY ScopeIsMade DEF DocInv
  <2>8. /\ Passed(q, "search") => IsInjective(q.found) /\ MetaMatches(r) \subseteq ToSet(q.found) \cup q.touched
        /\ Passed(q, "list") => Filtered(r) \subseteq ToSet(q.others) \cup q.touched
    BY <1>2, <2>1, <2>4, <2>6
  <2>9. CASE s = "search"
    <3>1. new = [q EXCEPT !.found = Newest(MetaMatches(r))]
      BY <2>1, <2>9 DEF Reads
    <3>2. n.found = Newest(MetaMatches(r))
      BY <1>3, <2>2, <3>1 DEF RequestType
    <3>3. IsInjective(n.found) /\ ToSet(n.found) = M
      BY <2>3, <2>7, <3>2, NewestFirst DEF DocTypes
    <3>4. first
      BY <3>3
    <3>5. ~Passed(n, "list") /\ ~Passed(n, "grep")
      BY <2>2, <2>6, <2>9
    <3> QED
      BY <3>4, <3>5
  <2>10. CASE s = "list"
    <3>1. new = [q EXCEPT !.others = Newest(Filtered(r))]
      BY <2>1, <2>10 DEF Reads
    <3>2. n.others = Newest(Filtered(r)) /\ n.found = q.found
      BY <1>3, <2>2, <2>10, <3>1 DEF RequestType
    <3>3. ToSet(n.others) = F
      BY <2>3, <2>7, <3>2, NewestFirst DEF DocTypes
    <3>4. Passed(q, "search") /\ ~Passed(n, "grep")
      BY <2>2, <2>6, <2>10
    <3>5. first
      BY <2>2, <2>3, <2>8, <3>2, <3>4
    <3> QED
      BY <3>3, <3>4, <3>5
  <2>11. CASE s = "grep"
    <3>1. PICK u \in SUBSET Docs :
             LET all == q.found \o Newest(Matching(r) \ u)
                 page == ClampedPage(q.page, Len(all))
             IN  new = [q EXCEPT !.others = all, !.total = Len(all), !.page = page, !.found = PageOf(all, page),
                                 !.unread = u]
      BY <2>1, <2>11 DEF Reads
    <3> DEFINE rest == Matching(r) \ u
               all == q.found \o Newest(rest)
               total == Len(all)
               page == ClampedPage(q.page, total)
               found == PageOf(all, page)
    <3>2. Passed(q, "search") /\ Passed(q, "list") /\ Passed(n, "grep")
      BY <2>2, <2>6, <2>11
    <3>3. ToSet(all) = ToSet(q.found) \cup rest /\ IsInjective(all)
      BY <1>3, <2>1, <2>8, <3>2, GrepFinds
    <3>4. \A d \in Filtered(r) : d \in MetaMatches(r) \cup (FileMatches(r) \ u) =>
                                    d \in ToSet(q.found) \cup rest \cup q.touched
      BY <2>8, <3>2 DEF Matching
    <3>5. new = [q EXCEPT !.others = all, !.total = total, !.page = page, !.found = found, !.unread = u]
      BY <3>1
    <3> HIDE DEF all, total, page, found, rest
    <3>6. n.others = all /\ n.unread = u
      BY <1>3, <2>2, <3>5 DEF RequestType
    <3>7. third
      BY <2>2, <2>3, <3>3, <3>4, <3>6
    <3> QED
      BY <3>2, <3>7
  <2> QED
    BY <2>6, <2>9, <2>10, <2>11
<1> QED
  BY <1>5, <1>6, <1>7, <1>8, <1>9, <1>10 DEF Outcome

\* They are an invariant.
LEMMA SearchInvariance == Spec => []SearchInv
<1>1. Init => SearchInv
  BY BlankFields DEF Init, SearchInv
<1>2. IInv /\ SearchInv /\ [Next]_vars => SearchInv'
  <2>1. SUFFICES ASSUME IInv, SearchInv, [Next]_vars PROVE SearchInv'
    OBVIOUS
  <2>2. DocInv /\ req \in [Requests -> RequestType] /\ Flows
    BY <2>1, InvariantParts
  <2>3. PICK T : Step(T)
    BY <2>1, <2>2, StepOutcome
  <2>4. \A r \in Requests : req'[r].status # "off" => SearchHolds(r)'
    BY <2>1, <2>2, <2>3, SearchStep DEF Step, Flows, SearchInv
  <2> QED
    BY <2>4 DEF SearchInv
<1> QED
  BY <1>1, <1>2, Invariance, PTL DEF Spec

(***************************************************************************)
(* A search names every document that matches and that nobody touched      *)
(* since it came, once each, although it reads the table twice and then    *)
(* the files, except one that matches by its content alone and whose file  *)
(* could not be read as far as the word (handleHome, SearchDocuments,      *)
(* ListDocuments, fileContentContains).                                    *)
(***************************************************************************)
THEOREM SearchesMissNothing == Spec => []SearchMissesNothing
<1>1. IInv /\ SearchInv => SearchMissesNothing
  <2>1. SUFFICES ASSUME IInv, SearchInv, NEW r \in Requests, Done(r, {"search"})
                 PROVE  /\ IsInjective(req[r].others)
                        /\ Filtered(r) \cap (MetaMatches(r) \cup (FileMatches(r) \ req[r].unread))
                             \subseteq ToSet(req[r].others) \cup req[r].touched
    BY DEF SearchMissesNothing
  <2> DEFINE q == req[r]
  <2>2. DocInv /\ req \in [Requests -> RequestType] /\ Flows
    BY <2>1, InvariantParts
  <2>3. q \in RequestType /\ Flow(q) /\ SearchHolds(r) /\ q.kind = "search" /\ q.status = "done"
    BY <2>1, <2>2 DEF SearchInv, Flows, Done
  <2>4. q.next \in 1..Len(Statements(q.kind)) + 1 /\ q.next = Len(Statements(q.kind)) + 1
    BY <2>3 DEF Flow
  <2>5. Passed(q, "grep")
    <3>1. Len(Statements(q.kind)) = 3 /\ (Passed(q, "grep") <=> q.next > 3)
      BY <2>3, <2>4, SearchPlaces
    <3> QED
      BY <2>4, <3>1
  <2> QED
    BY <2>3, <2>5 DEF SearchHolds
<1> QED
  BY <1>1, Invariance, SearchInvariance, PTL

(***************************************************************************)
(* Pages.                                                                  *)
(***************************************************************************)
PagesInv == \A r \in Requests : req[r].status # "off" => ListHolds(r) /\ FoundHolds(r)

\* The same lists after a step that changes no document, but for the files that were not read.
LEMMA SameLists ==
    ASSUME NEW r \in Requests, row' = row, made' = made, req'[r].uid = req[r].uid, req'[r].ask = req[r].ask
    PROVE  /\ Filtered(r)' = Filtered(r)
           /\ Newest(Filtered(r))' = Newest(Filtered(r)) /\ Newest(MetaMatches(r))' = Newest(MetaMatches(r))
           /\ FoundByMeta(r)' = Newest(MetaMatches(r)) \o Newest(FoundByFile(r) \ req'[r].unread)
<1> DEFINE A == Filtered(r)
           B == MetaMatches(r)
           C == FoundByFile(r)
           U == req[r].unread
<1>1. A' = A /\ B' = B /\ C' = C
  BY SameMatches DEF FoundByFile
<1> HIDE DEF A, B, C, U
<1>2. Newest(A)' = Newest(A) /\ Newest(B)' = Newest(B) /\ Newest(C \ U)' = Newest(C \ U')
  BY <1>1 DEF Newest, CreatedAt, Ordered
<1>3. FoundByMeta(r)' = Newest(B) \o Newest(C \ U')
  BY <1>2 DEF FoundByMeta, B, C, U
<1> QED
  BY <1>1, <1>2, <1>3 DEF A, B, C, U

\* How far a list has got.
LEMMA ListPlaces ==
    ASSUME NEW q \in RequestType, q.kind = "list", q.next \in 1..Len(Statements(q.kind)) + 1
    PROVE  /\ q.next \in 1..3 /\ Len(Statements(q.kind)) = 2
           /\ Passed(q, "count") <=> q.next > 1
           /\ Passed(q, "page") <=> q.next > 2
           /\ q.next \in 1..2 => Statements(q.kind)[q.next] = IF q.next = 1 THEN "count" ELSE "page"
<1> DEFINE len == Len(Statements(q.kind))
<1>1. Statements(q.kind) = <<"count", "page">>
  BY Table
<1>2. len = 2
  BY <1>1
<1>3. q.kind \in Kinds /\ q.next \in 1..len + 1
  BY DEF RequestType
<1>4. /\ Passed(q, "count") <=> q.next > 1
      /\ Passed(q, "page") <=> q.next > 2
  BY <1>3, Order DEF Passed
<1>5. Statements(q.kind)[1] = "count" /\ Statements(q.kind)[2] = "page"
  BY <1>1
<1> HIDE DEF len
<1>6. q.next \in 1..3
  BY <1>2, <1>3
<1> QED
  BY <1>2, <1>4, <1>5, <1>6 DEF len

\* Every step keeps the facts about a list.
LEMMA ListStep ==
    ASSUME DocInv, DocInv', req \in [Requests -> RequestType], NEW r \in Requests,
           req[r].status # "off" => Flow(req[r]) /\ ListHolds(r),
           NEW T \in SUBSET Docs, Changes(T), Outcome(r, T)
    PROVE  req'[r].status # "off" => ListHolds(r)'
<1> DEFINE q == req[r]
           n == req'[r]
           F == Filtered(r)
           page1 == ~Passed(n, "count") => n.page = n.ask.page
           page2 == Passed(n, "count") => n.page = ClampedPage(n.ask.page, n.total)
           total == n.touched = {} /\ Passed(n, "count") => n.total = Cardinality(F')
           found == n.touched = {} /\ Passed(n, "page") => n.found = PageOf(Newest(F)', n.page)
<1>1. ASSUME n.kind = "list" => page1 /\ page2 /\ total /\ found PROVE ListHolds(r)'
  <2>1. \A t : Passed(req[r], t)' <=> Passed(n, t)
    BY DEF Passed, Before
  <2>2. Newest(F)' = Newest(Filtered(r))'
    OBVIOUS
  <2>3. PageOf(Newest(Filtered(r)), req[r].page)' = PageOf(Newest(F)', n.page)
    BY <2>2 DEF PageOf, Slice
  <2> QED
    BY <1>1, <2>1, <2>3 DEF ListHolds
<1>2. ASSUME q.status # "off", q.kind = "list"
      PROVE  /\ ~Passed(q, "count") => q.page = q.ask.page
             /\ Passed(q, "count") => q.page = ClampedPage(q.ask.page, q.total)
             /\ q.touched = {} /\ Passed(q, "count") => q.total = Cardinality(F)
             /\ q.touched = {} /\ Passed(q, "page") => q.found = PageOf(Newest(F), q.page)
  BY <1>2 DEF ListHolds
<1>3. q \in RequestType
  OBVIOUS
<1>4. ASSUME row' = row, made' = made, n.uid = q.uid, n.ask = q.ask
      PROVE  F' = F /\ Newest(F)' = Newest(F)
  BY <1>4, SameLists
<1> HIDE DEF F
<1>5. CASE Seen(r, T)
  <2>1. CASE q.status = "off"
    BY <1>5, <2>1 DEF Seen
  <2>2. CASE q.status # "off"
    <3>1. /\ n.kind = q.kind /\ n.uid = q.uid /\ n.ask = q.ask /\ n.touched = q.touched \cup T
          /\ n.found = q.found /\ n.page = q.page /\ n.total = q.total
          /\ \A t : Passed(n, t) <=> Passed(q, t)
      BY <1>5, <2>2, SeenFields
    <3>2. SUFFICES ASSUME q.kind = "list" PROVE page1 /\ page2 /\ total /\ found
      BY <1>1, <3>1
    <3>3. page1 /\ page2
      BY <1>2, <2>2, <3>1, <3>2
    <3>4. ASSUME n.touched = {} PROVE q.touched = {} /\ F' = F /\ Newest(F)' = Newest(F)
      <4>1. q.touched = {} /\ T = {}
        BY <3>1, <3>4
      <4>2. row' = row /\ made' = made
        BY <4>1, SameDocs
      <4> QED
        BY <1>4, <3>1, <4>1, <4>2
    <3>5. total
      BY <1>2, <2>2, <3>1, <3>2, <3>4
    <3>6. found
      BY <1>2, <2>2, <3>1, <3>2, <3>4
    <3> QED
      BY <3>3, <3>5, <3>6
  <2> QED
    BY <2>1, <2>2
<1>6. CASE Ends(r)
  BY <1>6, BlankFields DEF Ends
<1>7. CASE Begins(r)
  <2>1. n.page = n.ask.page /\ \A t : ~Passed(n, t)
    BY <1>7, BegunFields
  <2> QED
    BY <1>1, <2>1
<1>8. CASE Answered(r)
  <2>1. q.status # "off" /\ q.kind = "chain"
    BY <1>8 DEF Answered, At
  <2>2. n.kind = q.kind
    BY <1>8, <2>1, AnsweredFields
  <2> QED
    BY <1>1, <2>1, <2>2
<1>9. CASE Wrote(r)
  <2>1. q.status # "off"
    BY <1>9 DEF Wrote, At
  <2>2. n.kind \in Writing
    BY <1>9, <2>1, WroteFields
  <2>3. n.kind # "list"
    BY <2>2 DEF Writing, Edits
  <2> QED
    BY <1>1, <2>3
<1>10. ASSUME NEW s, NEW new, Advanced(r, s, new) PROVE ListHolds(r)'
  <2>1. q.status # "off" /\ Reads(r, s, new) /\ row' = row /\ made' = made /\ Flow(q)
    BY <1>10 DEF Advanced, At
  <2>2. /\ q.kind \in Kinds /\ q.next \in 1..Len(Statements(q.kind)) /\ Statements(q.kind)[q.next] = s
        /\ n \in RequestType /\ n.next = q.next + 1 /\ n.kind = q.kind /\ n.uid = q.uid /\ n.ask = q.ask
        /\ n.touched = q.touched
        /\ n.page = new.page /\ n.total = new.total /\ n.found = new.found
        /\ s \notin {"count", "grep"} => n.page = q.page /\ n.total = q.total
        /\ \A t : Passed(n, t) <=> Passed(q, t) \/ t = s
    BY <1>3, <1>10, <2>1, AdvancedFields
  <2>3. F' = F /\ Newest(F)' = Newest(F)
    BY <1>4, <2>1, <2>2
  <2>4. SUFFICES ASSUME q.kind = "list" PROVE page1 /\ page2 /\ total /\ found
    BY <1>1, <2>2
  <2>5. q.next \in 1..Len(Statements(q.kind)) + 1
    BY <2>1 DEF Flow
  <2>6. /\ q.next \in 1..2
        /\ Passed(q, "count") <=> q.next > 1
        /\ ~Passed(q, "page")
        /\ s = IF q.next = 1 THEN "count" ELSE "page"
    <3>1. Len(Statements(q.kind)) = 2
      BY <1>3, <2>4, <2>5, ListPlaces
    <3>2. q.next \in 1..2
      BY <2>2, <3>1
    <3> QED
      BY <1>3, <2>2, <2>4, <2>5, <3>2, ListPlaces
  <2>7. CASE s = "count"
    <3>1. new = [q EXCEPT !.total = Cardinality(F), !.page = ClampedPage(q.page, Cardinality(F))]
      BY <2>1, <2>7 DEF Reads, F
    <3>2. n.total = Cardinality(F) /\ n.page = ClampedPage(q.page, Cardinality(F))
      BY <1>3, <2>2, <3>1 DEF RequestType
    <3>3. q.page = q.ask.page
      BY <1>2, <2>1, <2>4, <2>6, <2>7
    <3>4. Passed(n, "count") /\ ~Passed(n, "page")
      BY <2>2, <2>6, <2>7
    <3> QED
      BY <2>2, <2>3, <3>2, <3>3, <3>4
  <2>8. CASE s = "page"
    <3>1. new = [q EXCEPT !.found = PageOf(Newest(F), q.page)]
      BY <2>1, <2>8 DEF Reads, F
    <3>2. n.found = PageOf(Newest(F), q.page) /\ n.page = q.page /\ n.total = q.total
      BY <1>3, <2>2, <2>8, <3>1 DEF RequestType
    <3>3. Passed(q, "count") /\ Passed(n, "count")
      BY <2>2, <2>6, <2>8
    <3> QED
      BY <1>2, <2>1, <2>2, <2>3, <2>4, <3>2, <3>3
  <2> QED
    BY <2>6, <2>7, <2>8
<1> QED
  BY <1>5, <1>6, <1>7, <1>8, <1>9, <1>10 DEF Outcome

\* Every step keeps the facts about what a search shows.
LEMMA FoundStep ==
    ASSUME DocInv, DocInv', req \in [Requests -> RequestType], NEW r \in Requests,
           req[r].status # "off" => Flow(req[r]) /\ FoundHolds(r),
           NEW T \in SUBSET Docs, Changes(T), Outcome(r, T)
    PROVE  req'[r].status # "off" => FoundHolds(r)'
<1> DEFINE q == req[r]
           n == req'[r]
           F == Newest(Filtered(r))
           M == Newest(MetaMatches(r))
           L == FoundByMeta(r)
           page == ~Passed(n, "grep") => n.page = n.ask.page
           first == n.touched = {} /\ Passed(n, "search") /\ ~Passed(n, "grep") => n.found = M'
           second == n.touched = {} /\ Passed(n, "list") /\ ~Passed(n, "grep") => n.others = F'
           third == n.touched = {} /\ Passed(n, "grep") =>
                       /\ n.total = Len(L')
                       /\ n.page = ClampedPage(n.ask.page, n.total) /\ n.found = PageOf(L', n.page)
<1>1. ASSUME n.kind = "search" => page /\ first /\ second /\ third PROVE FoundHolds(r)'
  <2>1. \A t : Passed(req[r], t)' <=> Passed(n, t)
    BY DEF Passed, Before
  <2>2. PageOf(FoundByMeta(r), req[r].page)' = PageOf(L', n.page)
    BY DEF PageOf, Slice
  <2> HIDE DEF L
  <2>3. Len(FoundByMeta(r))' = Len(L')
    BY DEF L
  <2> QED
    BY <1>1, <2>1, <2>2, <2>3 DEF FoundHolds
<1>2. ASSUME q.status # "off", q.kind = "search"
      PROVE  /\ ~Passed(q, "grep") => q.page = q.ask.page
             /\ q.touched = {} /\ Passed(q, "search") /\ ~Passed(q, "grep") => q.found = M
             /\ q.touched = {} /\ Passed(q, "list") /\ ~Passed(q, "grep") => q.others = F
             /\ q.touched = {} /\ Passed(q, "grep") =>
                   /\ q.total = Len(L)
                   /\ q.page = ClampedPage(q.ask.page, q.total) /\ q.found = PageOf(L, q.page)
  BY <1>2 DEF FoundHolds
<1>3. q \in RequestType
  OBVIOUS
<1>4. ASSUME row' = row, made' = made, n.uid = q.uid, n.ask = q.ask
      PROVE  F' = F /\ M' = M /\ L' = M \o Newest(FoundByFile(r) \ n.unread)
  BY <1>4, SameLists
<1>5. L = M \o Newest(FoundByFile(r) \ q.unread)
  BY DEF FoundByMeta
<1> HIDE DEF F, M, L
<1>6. CASE Seen(r, T)
  <2>1. CASE q.status = "off"
    BY <1>6, <2>1 DEF Seen
  <2>2. CASE q.status # "off"
    <3>1. /\ n.kind = q.kind /\ n.uid = q.uid /\ n.ask = q.ask /\ n.touched = q.touched \cup T
          /\ n.found = q.found /\ n.others = q.others /\ n.page = q.page /\ n.total = q.total
          /\ n.unread = q.unread
          /\ \A t : Passed(n, t) <=> Passed(q, t)
      BY <1>6, <2>2, SeenFields
    <3>2. SUFFICES ASSUME q.kind = "search" PROVE page /\ first /\ second /\ third
      BY <1>1, <3>1
    <3>3. page
      BY <1>2, <2>2, <3>1, <3>2
    <3>4. ASSUME n.touched = {} PROVE q.touched = {} /\ F' = F /\ M' = M /\ L' = L
      <4>1. q.touched = {} /\ T = {}
        BY <3>1, <3>4
      <4>2. row' = row /\ made' = made
        BY <4>1, SameDocs
      <4> QED
        BY <1>4, <1>5, <3>1, <4>1, <4>2
    <3>5. first
      BY <1>2, <2>2, <3>1, <3>2, <3>4
    <3>6. second
      BY <1>2, <2>2, <3>1, <3>2, <3>4
    <3>7. third
      BY <1>2, <2>2, <3>1, <3>2, <3>4
    <3> QED
      BY <3>3, <3>5, <3>6, <3>7
  <2> QED
    BY <2>1, <2>2
<1>7. CASE Ends(r)
  BY <1>7, BlankFields DEF Ends
<1>8. CASE Begins(r)
  <2>1. n.page = n.ask.page /\ \A t : ~Passed(n, t)
    BY <1>8, BegunFields
  <2> QED
    BY <1>1, <2>1
<1>9. CASE Answered(r)
  <2>1. q.status # "off" /\ q.kind = "chain"
    BY <1>9 DEF Answered, At
  <2>2. n.kind = q.kind
    BY <1>9, <2>1, AnsweredFields
  <2> QED
    BY <1>1, <2>1, <2>2
<1>10. CASE Wrote(r)
  <2>1. q.status # "off"
    BY <1>10 DEF Wrote, At
  <2>2. n.kind \in Writing
    BY <1>10, <2>1, WroteFields
  <2>3. n.kind # "search"
    BY <2>2 DEF Writing, Edits
  <2> QED
    BY <1>1, <2>3
<1>11. ASSUME NEW s, NEW new, Advanced(r, s, new) PROVE FoundHolds(r)'
  <2>1. q.status # "off" /\ Reads(r, s, new) /\ row' = row /\ made' = made /\ Flow(q)
    BY <1>11 DEF Advanced, At
  <2>2. /\ q.kind \in Kinds /\ q.next \in 1..Len(Statements(q.kind)) /\ Statements(q.kind)[q.next] = s
        /\ n \in RequestType /\ n.next = q.next + 1 /\ n.kind = q.kind /\ n.uid = q.uid /\ n.ask = q.ask
        /\ n.touched = q.touched
        /\ n.page = new.page /\ n.total = new.total /\ n.found = new.found /\ n.others = new.others
        /\ n.unread = new.unread
        /\ s \notin {"count", "grep"} => n.page = q.page /\ n.total = q.total
        /\ s \notin {"page", "search", "grep", "byCategory", "versions"} => n.found = q.found
        /\ \A t : Passed(n, t) <=> Passed(q, t) \/ t = s
    BY <1>3, <1>11, <2>1, AdvancedFields
  <2>3. F' = F /\ M' = M /\ L' = M \o Newest(FoundByFile(r) \ n.unread)
    BY <1>4, <2>1, <2>2
  <2>4. SUFFICES ASSUME q.kind = "search" PROVE page /\ first /\ second /\ third
    BY <1>1, <2>2
  <2>5. q.next \in 1..Len(Statements(q.kind)) + 1
    BY <2>1 DEF Flow
  <2>6. /\ q.next \in 1..3
        /\ Passed(q, "search") <=> q.next > 1
        /\ Passed(q, "list") <=> q.next > 2
        /\ ~Passed(q, "grep")
        /\ s = CASE q.next = 1 -> "search" [] q.next = 2 -> "list" [] q.next = 3 -> "grep"
    <3>1. Len(Statements(q.kind)) = 3
      BY <1>3, <2>4, <2>5, SearchPlaces
    <3>2. q.next \in 1..3
      BY <2>2, <3>1
    <3> QED
      BY <1>3, <2>2, <2>4, <2>5, <3>2, SearchPlaces
  <2>7. q.page = q.ask.page
    BY <1>2, <2>1, <2>4, <2>6
  <2>8. CASE s = "search"
    <3>1. new = [q EXCEPT !.found = M]
      BY <2>1, <2>8 DEF Reads, M
    <3>2. n.found = M
      BY <1>3, <2>2, <3>1 DEF RequestType
    <3>3. ~Passed(n, "list") /\ ~Passed(n, "grep")
      BY <2>2, <2>6, <2>8
    <3> QED
      BY <2>2, <2>3, <2>7, <2>8, <3>2, <3>3
  <2>9. CASE s = "list"
    <3>1. new = [q EXCEPT !.others = F]
      BY <2>1, <2>9 DEF Reads, F
    <3>2. n.others = F /\ n.found = q.found
      BY <1>3, <2>2, <2>9, <3>1 DEF RequestType
    <3>3. Passed(q, "search") /\ ~Passed(n, "grep")
      BY <2>2, <2>6, <2>9
    <3> QED
      BY <1>2, <2>1, <2>2, <2>3, <2>4, <2>6, <2>7, <2>9, <3>2, <3>3
  <2>10. CASE s = "grep"
    <3>1. PICK u \in SUBSET Docs :
             LET all == q.found \o Newest(Matching(r) \ u)
                 c == ClampedPage(q.page, Len(all))
             IN  new = [q EXCEPT !.others = all, !.total = Len(all), !.page = c, !.found = PageOf(all, c),
                                 !.unread = u]
      BY <2>1, <2>10 DEF Reads
    <3> DEFINE all == q.found \o Newest(Matching(r) \ u)
               c == ClampedPage(q.page, Len(all))
               shown == PageOf(all, c)
    <3>2. Passed(q, "search") /\ Passed(q, "list") /\ ~Passed(q, "grep") /\ Passed(n, "grep")
      BY <2>2, <2>6, <2>10
    <3>3. ASSUME q.touched = {} PROVE all = M \o Newest(FoundByFile(r) \ u)
      <4>1. q.found = M /\ q.others = F
        BY <1>2, <2>1, <2>4, <3>2, <3>3
      <4>2. ToSet(M) = MetaMatches(r) /\ ToSet(F) = Filtered(r)
        <5>1. DocTypes /\ Filtered(r) \in SUBSET ToSet(made) /\ MetaMatches(r) \in SUBSET ToSet(made)
          BY ScopeIsMade DEF DocInv
        <5> QED
          BY <5>1, NewestFirst DEF DocTypes, M, F
      <4>3. Matching(r) = FoundByFile(r)
        BY <4>1, <4>2 DEF Matching, FoundByFile
      <4> QED
        BY <4>1, <4>3
    <3>4. new = [q EXCEPT !.others = all, !.total = Len(all), !.page = c, !.found = shown, !.unread = u]
      BY <3>1
    <3> HIDE DEF all, shown
    <3>5. n.total = Len(all) /\ n.page = c /\ n.found = shown /\ n.unread = u
      BY <1>3, <2>2, <3>4 DEF RequestType
    <3>6. third
      BY <2>2, <2>3, <2>7, <3>3, <3>5 DEF shown
    <3> QED
      BY <3>2, <3>6
  <2> QED
    BY <2>6, <2>8, <2>9, <2>10
<1> QED
  BY <1>6, <1>7, <1>8, <1>9, <1>10, <1>11 DEF Outcome

\* They are an invariant.
LEMMA PagesInvariance == Spec => []PagesInv
<1>1. Init => PagesInv
  BY BlankFields DEF Init, PagesInv
<1>2. IInv /\ PagesInv /\ [Next]_vars => PagesInv'
  <2>1. SUFFICES ASSUME IInv, PagesInv, [Next]_vars PROVE PagesInv'
    OBVIOUS
  <2>2. DocInv /\ req \in [Requests -> RequestType] /\ Flows
    BY <2>1, InvariantParts
  <2>3. PICK T : Step(T)
    BY <2>1, <2>2, StepOutcome
  <2>4. ASSUME NEW r \in Requests, req'[r].status # "off" PROVE ListHolds(r)' /\ FoundHolds(r)'
    <3>1. DocInv' /\ T \in SUBSET Docs /\ Changes(T) /\ Outcome(r, T)
      BY <2>3 DEF Step
    <3>2. req[r].status # "off" => Flow(req[r]) /\ ListHolds(r) /\ FoundHolds(r)
      BY <2>1, <2>2 DEF Flows, PagesInv
    <3> QED
      BY <2>2, <2>4, <3>1, <3>2, ListStep, FoundStep
  <2> QED
    BY <2>4 DEF PagesInv
<1> QED
  BY <1>1, <1>2, Invariance, PTL DEF Spec

\* In a search's list, the matches by metadata come before the others, each newest first.
LEMMA FoundInOrder ==
    ASSUME DocInv, NEW r \in Requests
    PROVE  LET A == MetaMatches(r)
               B == FoundByFile(r) \ req[r].unread
               L == FoundByMeta(r)
           IN  /\ L \in Seq(Docs) /\ ToSet(L) = A \cup B /\ Len(L) = Cardinality(A \cup B)
               /\ \A i \in 1..Len(L) :
                     /\ L[i] \in A => Cardinality({e \in A : CreatedAt(e) > CreatedAt(L[i])}) = i - 1
                     /\ L[i] \notin A =>
                           /\ L[i] \in B
                           /\ Cardinality(A \cup {e \in B : CreatedAt(e) > CreatedAt(L[i])}) = i - 1
<1> DEFINE A == MetaMatches(r)
           B == FoundByFile(r) \ req[r].unread
           newer(S, d) == {e \in S : CreatedAt(e) > CreatedAt(d)}
           a == Newest(A)
           b == Newest(B)
<1>1. /\ made \in Seq(Docs) /\ IsInjective(made)
      /\ A \in SUBSET ToSet(made) /\ B \in SUBSET ToSet(made) /\ A \cap B = {}
  BY ScopeIsMade DEF DocInv, DocTypes, FoundByFile
<1>2. FoundByMeta(r) = a \o b
  BY DEF FoundByMeta
<1> HIDE DEF A, B
<1>3. /\ IsFiniteSet(A) /\ Cardinality(A) \in Nat
      /\ a \in Seq(Docs) /\ Len(a) = Cardinality(A) /\ DOMAIN a = 1..Cardinality(A) /\ ToSet(a) = A
      /\ \A i \in DOMAIN a : Cardinality(newer(A, a[i])) = i - 1
  BY <1>1, NewestFirst
<1>4. /\ IsFiniteSet(B) /\ Cardinality(B) \in Nat
      /\ b \in Seq(Docs) /\ Len(b) = Cardinality(B) /\ DOMAIN b = 1..Cardinality(B) /\ ToSet(b) = B
      /\ \A i \in DOMAIN b : Cardinality(newer(B, b[i])) = i - 1
  BY <1>1, NewestFirst
<1> HIDE DEF a, b
<1> DEFINE L == a \o b
<1>5. /\ L \in Seq(Docs) /\ Len(L) = Len(a) + Len(b)
      /\ \A i \in 1..Len(a) + Len(b) : L[i] = IF i <= Len(a) THEN a[i] ELSE b[i - Len(a)]
  BY <1>3, <1>4, ConcatProperties, ZenonT(40)
<1>6. ToSet(L) = A \cup B
  BY <1>3, <1>4, ConcatSet
<1> HIDE DEF L
<1>7. Cardinality(A \cup B) = Cardinality(A) + Cardinality(B)
  <2>1. Cardinality(A \cup B) = Cardinality(A) + Cardinality(B) - Cardinality(A \cap B)
    BY <1>3, <1>4, FS_Union
  <2>2. Cardinality(A \cap B) = 0
    BY <1>1, FS_EmptySet
  <2> QED
    BY <1>3, <1>4, <2>1, <2>2
<1>8. ASSUME NEW i \in 1..Len(L)
      PROVE  /\ L[i] \in A => Cardinality(newer(A, L[i])) = i - 1
             /\ L[i] \notin A => L[i] \in B /\ Cardinality(A \cup newer(B, L[i])) = i - 1
  <2>1. CASE i <= Len(a)
    <3>1. L[i] = a[i] /\ i \in DOMAIN a
      BY <1>3, <1>4, <1>5, <2>1
    <3>2. a[i] \in A
      BY <1>3, <3>1 DEF ToSet
    <3> QED
      BY <1>3, <3>1, <3>2
  <2>2. CASE i > Len(a)
    <3> DEFINE j == i - Len(a)
    <3>1. L[i] = b[j] /\ j \in DOMAIN b /\ j \in Nat
      BY <1>3, <1>4, <1>5, <2>2
    <3>2. b[j] \in B /\ b[j] \notin A /\ Cardinality(newer(B, b[j])) = j - 1
      BY <1>1, <1>4, <3>1 DEF ToSet
    <3> DEFINE C == newer(B, b[j])
    <3>3. C \in SUBSET B /\ A \cap C = {}
      BY <1>1
    <3>4. IsFiniteSet(C) /\ Cardinality(A \cap C) = 0
      BY <1>4, <3>3, FS_Subset, FS_EmptySet
    <3> HIDE DEF C
    <3>5. Cardinality(A \cup C) = Cardinality(A) + Cardinality(C) - Cardinality(A \cap C)
      BY <1>3, <3>4, FS_Union
    <3>6. Cardinality(A \cup C) = i - 1
      BY <1>3, <3>1, <3>2, <3>4, <3>5 DEF C
    <3> QED
      BY <3>1, <3>2, <3>6 DEF C
  <2> QED
    BY <1>3, <1>4, <1>5, <2>1, <2>2
<1> QED
  BY <1>2, <1>3, <1>4, <1>5, <1>6, <1>7, <1>8 DEF L, A, B

(***************************************************************************)
(* When nothing changes meanwhile, a page of the home page holds the       *)
(* documents whose rank among those that match falls on it, newest first   *)
(* (metadata matches before content matches, as far as the files could be  *)
(* read), and is empty only when nothing matches: the page number is       *)
(* clamped against the total the same answer shows (handleHome).           *)
(***************************************************************************)
THEOREM PagesShowTheRanks == Spec => []PagesFollowTheRanks
<1>1. IInv /\ PagesInv => PagesFollowTheRanks
  <2>1. ASSUME IInv, PagesInv, NEW r \in Requests, Done(r, Home), req[r].touched = {}
        PROVE  LET q == req[r]
                   byMeta(d) == q.kind = "list" \/ d \in MetaMatches(r)
                   matching == {d \in Filtered(r) : byMeta(d) \/ d \in FileMatches(r) \ q.unread}
                   age(d) == CHOOSE i \in DOMAIN made : made[i] = d
                   before(d) == {e \in matching : IF byMeta(e) = byMeta(d) THEN age(e) > age(d) ELSE byMeta(e)}
               IN  /\ q.total = Cardinality(matching)
                   /\ ToSet(q.found) = {d \in matching : Cardinality(before(d)) \div PageSize = q.page - 1}
                   /\ \A i \in DOMAIN q.found : Cardinality(before(q.found[i])) % PageSize = i - 1
                   /\ q.found = <<>> => matching = {}
    <3> DEFINE q == req[r]
               byMeta(d) == q.kind = "list" \/ d \in MetaMatches(r)
               matching == {d \in Filtered(r) : byMeta(d) \/ d \in FileMatches(r) \ q.unread}
               before(d) == {e \in matching : IF byMeta(e) = byMeta(d) THEN CreatedAt(e) > CreatedAt(d)
                                              ELSE byMeta(e)}
               rank == [d \in matching |-> Cardinality(before(d))]
    <3>1. DocInv /\ req \in [Requests -> RequestType] /\ Flows
      BY <2>1, InvariantParts
    <3>2. /\ q \in RequestType /\ Flow(q) /\ ListHolds(r) /\ FoundHolds(r)
          /\ q.kind \in {"list", "search"} /\ q.status = "done" /\ q.touched = {}
      BY <2>1, <3>1 DEF PagesInv, Flows, Done, Home
    <3>3. q.next \in 1..Len(Statements(q.kind)) + 1 /\ q.next = Len(Statements(q.kind)) + 1
      BY <3>2 DEF Flow
    <3>4. q.ask.page \in Nat \ {0} /\ q.found \in Seq(Docs)
      BY <3>2 DEF RequestType, Asking
    <3>5. \E L \in Seq(Docs) :
            /\ ToSet(L) = matching /\ Len(L) = Cardinality(matching)
            /\ \A i \in 1..Len(L) : Cardinality(before(L[i])) = i - 1
            /\ q.total = Len(L) /\ q.page = ClampedPage(q.ask.page, Len(L)) /\ q.found = PageOf(L, q.page)
      <4>1. CASE q.kind = "list"
        <5> DEFINE L == Newest(Filtered(r))
        <5>1. Passed(q, "count") /\ Passed(q, "page")
          <6>1. /\ Len(Statements(q.kind)) = 2
                /\ Passed(q, "count") <=> q.next > 1
                /\ Passed(q, "page") <=> q.next > 2
            BY <3>2, <3>3, <4>1, ListPlaces
          <6> QED
            BY <3>3, <6>1
        <5>2. q.total = Cardinality(Filtered(r)) /\ q.page = ClampedPage(q.ask.page, q.total)
              /\ q.found = PageOf(L, q.page)
          BY <3>2, <4>1, <5>1 DEF ListHolds
        <5>3. matching = Filtered(r)
          BY <4>1
        <5>4. \A d : before(d) = {e \in Filtered(r) : CreatedAt(e) > CreatedAt(d)}
          BY <4>1, <5>3
        <5>5. Filtered(r) \in SUBSET ToSet(made) /\ made \in Seq(Docs) /\ IsInjective(made)
          BY <3>1, ScopeIsMade DEF DocInv, DocTypes
        <5>6. /\ L \in Seq(Docs) /\ Len(L) = Cardinality(Filtered(r)) /\ DOMAIN L = 1..Len(L)
              /\ ToSet(L) = Filtered(r)
              /\ \A i \in DOMAIN L : Cardinality({e \in Filtered(r) : CreatedAt(e) > CreatedAt(L[i])}) = i - 1
          BY <5>5, NewestFirst
        <5> HIDE DEF L, matching, before
        <5> QED
          BY <5>2, <5>3, <5>4, <5>6
      <4>2. CASE q.kind = "search"
        <5> DEFINE L == FoundByMeta(r)
                   A == MetaMatches(r)
                   B == FoundByFile(r) \ req[r].unread
        <5>1. Passed(q, "grep")
          <6>1. Len(Statements(q.kind)) = 3 /\ (Passed(q, "grep") <=> q.next > 3)
            BY <3>2, <3>3, <4>2, SearchPlaces
          <6> QED
            BY <3>3, <6>1
        <5>2. q.total = Len(L) /\ q.page = ClampedPage(q.ask.page, q.total) /\ q.found = PageOf(L, q.page)
          BY <3>2, <4>2, <5>1 DEF FoundHolds
        <5>3. A \subseteq Filtered(r)
          BY DEF MetaMatches
        <5>4. matching = A \cup B /\ A \cap B = {}
          BY <4>2, <5>3 DEF FoundByFile
        <5>5. \A d : /\ d \in A => before(d) = {e \in A : CreatedAt(e) > CreatedAt(d)}
                     /\ d \notin A => before(d) = A \cup {e \in B : CreatedAt(e) > CreatedAt(d)}
          BY <4>2, <5>4
        <5>6. /\ L \in Seq(Docs) /\ ToSet(L) = A \cup B /\ Len(L) = Cardinality(A \cup B)
              /\ \A i \in 1..Len(L) :
                    /\ L[i] \in A => Cardinality({e \in A : CreatedAt(e) > CreatedAt(L[i])}) = i - 1
                    /\ L[i] \notin A =>
                          Cardinality(A \cup {e \in B : CreatedAt(e) > CreatedAt(L[i])}) = i - 1
          BY <3>1, FoundInOrder
        <5> HIDE DEF L, A, B, matching, before
        <5> QED
          BY <5>2, <5>4, <5>5, <5>6
      <4> QED
        BY <3>2, <4>1, <4>2
    <3>6. PICK L \in Seq(Docs) :
            /\ ToSet(L) = matching /\ Len(L) = Cardinality(matching)
            /\ \A i \in 1..Len(L) : Cardinality(before(L[i])) = i - 1
            /\ q.total = Len(L) /\ q.page = ClampedPage(q.ask.page, Len(L)) /\ q.found = PageOf(L, q.page)
      BY <3>5
    <3> HIDE DEF before, matching
    <3>7. Ranks(L, rank)
      <4>1. \A i \in 1..Len(L) : L[i] \in matching
        BY <3>6 DEF ToSet
      <4> QED
        BY <3>6, <4>1 DEF Ranks
    <3>8. /\ ToSet(q.found) = {d \in matching : rank[d] \div PageSize = q.page - 1}
          /\ \A i \in DOMAIN q.found : rank[q.found[i]] % PageSize = i - 1
          /\ q.found = <<>> => matching = {}
      <4> HIDE DEF rank
      <4> QED
        BY <3>4, <3>6, <3>7, PageShowsItsRanks
    <3>9. \A i \in DOMAIN q.found : q.found[i] \in matching
      BY <3>8 DEF ToSet
    <3>10. /\ q.total = Cardinality(matching)
           /\ ToSet(q.found) = {d \in matching : Cardinality(before(d)) \div PageSize = q.page - 1}
           /\ \A i \in DOMAIN q.found : Cardinality(before(q.found[i])) % PageSize = i - 1
           /\ q.found = <<>> => matching = {}
      BY <3>6, <3>8, <3>9
    <3> QED
      BY <3>10 DEF before, matching, CreatedAt
  <2> QED
    BY <2>1 DEF PagesFollowTheRanks
<1> QED
  BY <1>1, Invariance, PagesInvariance, PTL
=============================================================================
