----------------------------- MODULE SendArchive -----------------------------
(***************************************************************************)
(* The way of a site from `sth send` (src/internal/cli/cli.go: runSend,    *)
(* writeZIPArchive) into a session's directory on the server               *)
(* (src/internal/server/server.go: handleCreateUploadedSession,            *)
(* extractZIPArchive), for one request: what is packed, what is refused,   *)
(* what is stored.                                                         *)
(*                                                                         *)
(* A path is a sequence of names.  The site does not change while it is    *)
(* packed, and what the client may examine it can open: a file for which   *)
(* that fails ends the command with an error, and nothing is stored.       *)
(***************************************************************************)
EXTENDS Lists

CONSTANTS
    Names,          \* names of files and directories
    Hidden,         \* those that begin with a dot
    Assets,         \* those with the extension of a web asset
    HTML,           \* those that end in .html or .htm
    TrimLeft,       \* a name without the white space at its beginning
    TrimRight,      \* a name without the white space at its end
    MaxFiles,       \* maxArchiveFiles, 2048 in the code
    MaxBytes        \* maxUploadBytes, 64 MiB in the code

\* What stands between the slashes of a path as it is written; "" is nothing.
Parts == Names \cup {".", "..", ""}

ASSUME NamesAssumption ==
    /\ Hidden \subseteq Names /\ Assets \subseteq Names /\ HTML \subseteq Assets
    /\ "." \notin Names /\ ".." \notin Names /\ "" \notin Names

\* An extension has no white space at its end, and keeps what stands before it.
ASSUME TrimAssumption ==
    /\ TrimLeft \in [Parts -> Parts] /\ TrimRight \in [Parts -> Parts]
    /\ \A part \in {".", "..", ""} : TrimLeft[part] = part /\ TrimRight[part] = part
    /\ \A name \in Assets : TrimRight[name] = name /\ TrimLeft[name] \in Assets
    /\ \A name \in HTML : TrimLeft[name] \in HTML
ASSUME ArchiveLimitsAssumption == MaxFiles \in Nat /\ MaxBytes \in Nat

(***************************************************************************)
(* The client.  A site is a finite set of files with different paths, none *)
(* below another; a link leads to a regular file elsewhere.  A denied      *)
(* directory is one that the client may pass through and not list.         *)
(***************************************************************************)
Sites == {tree \in SUBSET [path : Seq(Names), link : BOOLEAN, size : Nat] :
             /\ IsFiniteSet(tree)
             /\ \A f \in tree : f.path # <<>>
             /\ \A f, g \in tree : (f.path = g.path => f = g) /\ ~IsStrictPrefix(f.path, g.path)}

Under(tree, dir) == {f \in tree : IsStrictPrefix(dir, f.path)}
Relative(path, dir) == SubSeq(path, Len(dir) + 1, Len(path))
HiddenPath(path) == \E i \in DOMAIN path : path[i] \in Hidden
IsAsset(f) == Last(f.path) \in Assets

\* The files of a directory that is one HTML file and nothing of interest else.
WebFiles(tree, dir) ==
    {f \in Under(tree, dir) : Len(f.path) = Len(dir) + 1 /\ Last(f.path) \notin Hidden
                                /\ ~f.link /\ IsAsset(f)}
IsSingleFileDir(tree, dir) ==
    /\ \A f \in Under(tree, dir) : Len(f.path) > Len(dir) + 1 => f.path[Len(dir) + 1] \in Hidden
    /\ Cardinality(WebFiles(tree, dir)) = 1

\* The walk from dir lists every directory down to the path's.
Listed(path, dir, denied) == \A n \in Len(dir)..Len(path) - 1 : SubSeq(path, 1, n) \notin denied

DirFiles(tree, dir, denied) ==
    {f \in Under(tree, dir) : /\ Listed(f.path, dir, denied) /\ ~HiddenPath(Relative(f.path, dir))
                              /\ ~f.link /\ IsAsset(f)}

\* A plausible bug: the path in the archive is relative to nothing.
DirEntriesInFull(tree, dir, denied) ==
    {[name |-> f.path, size |-> f.size] : f \in DirFiles(tree, dir, denied)}

\* writeDirEntries.  A directory that cannot be listed is passed over silently.
DirEntries(tree, dir, denied) ==
    {[name |-> Relative(f.path, dir), size |-> f.size] : f \in DirFiles(tree, dir, denied)}

\* writeZIPArchive.  Which of the files comes first matters only where two have
\* one path on the server.
Packed(tree, dir, denied) ==
    IF dir \notin denied /\ IsSingleFileDir(tree, dir)
        THEN {[name |-> <<Last(f.path)>>, size |-> f.size] : f \in WebFiles(tree, dir)}
        ELSE DirEntries(tree, dir, denied)

\* The directory that is packed.
Packing(entry, hasRoot, root) == IF hasRoot THEN root ELSE Front(entry)

\* runSend for `sth send <entry> [--root <root>] [--single]`: an error before
\* anything is sent, or the entry's path and the archive.
Send(tree, denied, entry, hasRoot, root, single) ==
    LET file == {f \in tree : f.path = entry}
        dir == Packing(entry, hasRoot, root)
        name == Relative(entry, dir)
        files == IF single THEN {[name |-> name, size |-> f.size] : f \in file} ELSE Packed(tree, dir, denied)
    IN  IF \/ single /\ hasRoot
           \/ Last(entry) \notin HTML \/ file = {}
           \/ hasRoot /\ ~IsStrictPrefix(root, entry)
        THEN [sent |-> FALSE, entry |-> <<>>, files |-> {}]
        ELSE [sent |-> TRUE, entry |-> name, files |-> files]

(***************************************************************************)
(* The server.  A raw path is what stands between its slashes, with        *)
(* nothing before the first of an absolute one; an archive is a sequence   *)
(* of what is archived, a directory if its name ends with a slash.         *)
(***************************************************************************)
RawPaths == Seq(Parts) \ {<<>>}
Archived == {e \in [raw : RawPaths, kind : {"file", "dir", "link"}, size : Nat] :
                Last(e.raw) = "" => e.kind = "dir"}

Absolute(raw) == Len(raw) > 1 /\ Head(raw) = ""

\* strings.TrimSpace: only the first and the last name of a path are touched.
TrimSpace(raw) ==
    [i \in 1..Len(raw) |->
        LET part == IF i = 1 THEN TrimLeft[raw[i]] ELSE raw[i]
        IN  IF i = Len(raw) THEN TrimRight[part] ELSE part]

\* path.Clean of a relative path, component by component.
CleanStep(done, part) ==
    IF part \in {".", ""} THEN done
    ELSE IF part # ".." THEN Append(done, part)
    ELSE IF done = <<>> \/ Last(done) = ".." THEN Append(done, "..")
    ELSE Front(done)

Clean(parts) ==
    LET done[n \in 0..Len(parts)] == IF n = 0 THEN <<>> ELSE CleanStep(done[n - 1], parts[n])
    IN  done[Len(parts)]

NoPath == <<>>

\* A plausible bug: only a path that begins with ".." before cleaning is refused.
NormalizeRaw(raw) ==
    LET trimmed == TrimSpace(raw)
    IN  IF Absolute(trimmed) \/ Head(trimmed) = ".." THEN NoPath ELSE Clean(trimmed)

\* normalizeArchivePath.  What it accepts is below the root (IsSubpath).
NormalizeArchivePath(raw) ==
    LET trimmed == TrimSpace(raw)
        cleaned == Clean(trimmed)
    IN  IF Absolute(trimmed) \/ cleaned = <<>> \/ Head(cleaned) = ".." THEN NoPath ELSE cleaned

CopyToLimit(size, total) == [copied |-> Min({size, MaxBytes - total}), ok |-> size <= MaxBytes - total]

\* extractZIPArchive: one archived file.  Parents are made as needed; a file in
\* the way of a directory, or the reverse, is an error.
Extract(st, e) ==
    LET path == NormalizeArchivePath(e.raw)
        copy == CopyToLimit(e.size, st.total)
        isFile(p) == \E f \in st.files : f.path = p
        blocked == \/ \E n \in 1..Len(path) - 1 : isFile(SubSeq(path, 1, n))
                   \/ IF e.kind = "dir" THEN isFile(path) ELSE path \in st.dirs
        parents == {SubSeq(path, 1, n) : n \in 1..Len(path) - 1}
    IN  IF ~st.ok \/ path = NoPath \/ blocked \/ e.kind = "link" THEN [st EXCEPT !.ok = FALSE]
        ELSE IF e.kind = "dir" THEN [st EXCEPT !.dirs = @ \cup parents \cup {path}]
        ELSE [ok |-> copy.ok, total |-> st.total + copy.copied, dirs |-> st.dirs \cup parents,
              files |-> {f \in st.files : f.path # path} \cup {[path |-> path, size |-> copy.copied]}]

Empty == [ok |-> TRUE, total |-> 0, files |-> {}, dirs |-> {}]
ExtractAll(archive) ==
    LET st[n \in 0..Len(archive)] == IF n = 0 THEN Empty ELSE Extract(st[n - 1], archive[n])
    IN  st[Len(archive)]

\* handleCreateUploadedSession, for a request of so many bytes (body): the
\* directory is removed when it refuses.
Receive(entry, archive, body) ==
    LET path == NormalizeArchivePath(entry)
        end == ExtractAll(archive)
        accepted == /\ body <= MaxBytes
                    /\ path # NoPath /\ Last(path) \in HTML
                    /\ Len(archive) <= MaxFiles /\ end.ok
                    /\ \E f \in end.files : f.path = path
    IN  [code |-> IF accepted THEN 201 ELSE 400, files |-> IF accepted THEN end.files ELSE {}]

Posted(files) == [i \in 1..Cardinality(files) |->
                    LET f == SetToSeq(files)[i] IN [raw |-> f.name, kind |-> "file", size |-> f.size]]

\* The bytes of the files, numbered file by file.
Bytes(files) == UNION {{f} \X (1..f.size) : f \in files}
SumOfSizes(files) == Cardinality(Bytes(files))

(***************************************************************************)
(* Whatever archive is posted, what is stored is below the session's root: *)
(* it comes from a path that never climbs above it, no file is below       *)
(* another one, and all of it is within the limit, also when an archive    *)
(* names a path twice (extractZIPArchive, normalizeArchivePath,            *)
(* copyToLimit).                                                           *)
(***************************************************************************)
StoredIsBounded(entry, archive, body) ==
    LET files == Receive(entry, archive, body).files
        depth(parts, n) == Cardinality({i \in 1..n : parts[i] \in Names})
                             - Cardinality({i \in 1..n : parts[i] = ".."})
        inside(raw) == ~Absolute(raw) /\ \A n \in 0..Len(raw) : depth(raw, n) >= 0
    IN  /\ SumOfSizes(files) <= MaxBytes
        /\ \A f \in files : f.path \in Seq(Names)
        /\ files # {} => \A i \in DOMAIN archive : inside(TrimSpace(archive[i].raw))
        /\ \A f, g \in files : ~IsStrictPrefix(f.path, g.path)

(***************************************************************************)
(* What `sth send` packs is stored, each file under the relative path that *)
(* the server makes of its name, the entry among them.  Two names that     *)
(* differ in white space at an end become one path, and one file is left.  *)
(* The site is accepted whenever no directory above the entry is denied,   *)
(* the entry is a regular file under no hidden name, the server makes a    *)
(* path of every name and none that lies below another, and all is within  *)
(* the limits (writeZIPArchive against handleCreateUploadedSession).       *)
(***************************************************************************)
SendsArrive(tree, denied, entry, hasRoot, root, single, body) ==
    LET sent == Send(tree, denied, entry, hasRoot, root, single)
        got == Receive(sent.entry, Posted(sent.files), body)
        sentAs == {[path |-> NormalizeArchivePath(f.name), size |-> f.size] : f \in sent.files}
        regular == /\ ~HiddenPath(sent.entry) /\ \A f \in tree : f.path = entry => ~f.link
                   /\ Listed(entry, Packing(entry, hasRoot, root), denied)
        plain == /\ single \/ regular
                 /\ \A f, g \in sentAs : f.path # NoPath /\ ~IsStrictPrefix(f.path, g.path)
                 /\ Cardinality(sent.files) <= MaxFiles /\ SumOfSizes(sent.files) <= MaxBytes
                 /\ body <= MaxBytes
    IN  sent.sent =>
            /\ got.code = 201 =>
                   /\ got.files \subseteq sentAs
                   /\ \A f \in sentAs : \E g \in got.files : g.path = f.path
                   /\ \E f \in got.files : f.path = NormalizeArchivePath(sent.entry)
            /\ plain => got.code = 201
=============================================================================
