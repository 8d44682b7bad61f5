---------------------------- MODULE FileioPaths ----------------------------
(***************************************************************************)
(* fileio_common.c: the relative paths of the fileio API, and what its     *)
(* calls do to the file tree.  Both builds use it; on the desktop restore  *)
(* and flush have nothing to do.                                           *)
(*                                                                         *)
(* A path is the sequence of what stands between its separators ('/' or    *)
(* '\'): "/a" is <<"", "a">>, "a//b" is <<"a", "", "b">>.  Lengths are     *)
(* left out.  The tree is external: what POSIX calls do to it.             *)
(***************************************************************************)
EXTENDS Integers, SequencesExt, FiniteSetsExt

CONSTANTS
    Names,          \* file names
    Colon,          \* a name with a colon in it
    Mounts,         \* mount points, as sequences of names
    Paths,          \* paths passed to the calls
    Others,         \* what is there before
    MaxSegments,    \* bound: length of a path of NormalizeCorrect
    MaxWrites       \* bound: calls of fileio_write

\* What stands between two separators.
Segments == Names \cup {"", ".", "..", Colon}

ASSUME FileioPathsAssumption ==
    /\ MaxSegments \in Nat /\ MaxWrites \in Nat
    /\ Names \cap {"", ".", "..", Colon} = {} /\ Colon \notin {"", ".", ".."}
    /\ \A m \in Mounts : m \in Seq(Names) /\ m # <<>>
    /\ Paths \subseteq Seq(Segments)
    /\ \A p \in Others : /\ p \in Seq(Names) /\ p # <<>>
                         /\ \A k \in 1 .. Len(p) - 1 : SubSeq(p, 1, k) \in Others

VARIABLES
    initialized, mount,     \* fileio_mount_point_initialized, fileio_mount_point
    tree,                   \* the file system: content by path
    kept,                   \* history: what was written and not removed since,
                            \* UNKNOWN where fclose has lost a part of it
    ret,                    \* the call that has returned, and its answer
    nwrites

vars == <<initialized, mount, tree, kept, ret, nwrites>>

DIR == -1           \* a directory; other contents are the number of a write
UNKNOWN == 0        \* a part of what was to be written, or another's file

Init ==
    /\ initialized = FALSE /\ mount = <<>>
    /\ tree = [p \in Others |-> IF \E q \in Others : IsStrictPrefix(p, q) THEN DIR
                                ELSE UNKNOWN]
    /\ kept = <<>>
    /\ ret = [call |-> "none", ok |-> FALSE, path |-> <<>>, valid |-> FALSE, value |-> 0]
    /\ nwrites = 0

-----------------------------------------------------------------------------
(* Paths.                                                                  *)

\* Mutant: ".." forgets the last segment and leaves it in the output.
UpKeepsOutput(s, seg) ==
    IF ~s.ok \/ seg \in {"", "."} THEN s
    ELSE IF seg # ".." THEN
        [s EXCEPT !.out = Append(@, seg), !.marks = Append(@, Len(s.out))]
    ELSE IF s.marks = <<>> THEN [s EXCEPT !.ok = FALSE]
    ELSE [s EXCEPT !.marks = Front(@)]

\* Mutant: ".." is copied when there is nothing to go up from.
UpCopied(s, seg) ==
    IF ~s.ok \/ seg \in {"", "."} THEN s
    ELSE IF seg # ".." \/ s.marks = <<>> THEN
        [s EXCEPT !.out = Append(@, seg), !.marks = Append(@, Len(s.out))]
    ELSE [s EXCEPT !.out = SubSeq(@, 1, Last(s.marks)), !.marks = Front(@)]

\* One segment: marks are the lengths of the output before each one it holds.
NormalizeSegment(s, seg) ==
    IF ~s.ok \/ seg \in {"", "."} THEN s
    ELSE IF seg # ".." THEN
        [s EXCEPT !.out = Append(@, seg), !.marks = Append(@, Len(s.out))]
    ELSE IF s.marks = <<>> THEN [s EXCEPT !.ok = FALSE]
    ELSE [s EXCEPT !.out = SubSeq(@, 1, Last(s.marks)), !.marks = Front(@)]

Absolute(path) == Len(path) > 1 /\ path[1] = ""

\* All segments, from the first.
Normalized(path) ==
    LET after[n \in 0 .. Len(path)] ==
          IF n = 0 THEN [ok |-> TRUE, out |-> <<>>, marks |-> <<>>]
          ELSE NormalizeSegment(after[n - 1], path[n])
    IN  after[Len(path)]

fileio_normalize_relpath(path, allow_empty) ==
    LET s == Normalized(path)
    IN  [ok |-> /\ ~Absolute(path) /\ ~Contains(path, Colon)
                /\ s.ok /\ (allow_empty \/ s.out # <<>>),
         path |-> s.out]

fileio_build_full_path(path, allow_empty) ==
    LET n == fileio_normalize_relpath(path, allow_empty)
    IN  [ok |-> n.ok, path |-> mount \o n.path]

\* What a path means: how far below the mount point it is after k segments, and
\* for every level it is below in the end, the name by which it came there last.
Count(path, S, k) == Cardinality({i \in 1 .. k : path[i] \in S})

Depth(path, k) == Count(path, Names, k) - Count(path, {".."}, k)

Entries(path, n, d) == {i \in 1 .. n : path[i] \in Names /\ Depth(path, i) = d}

Meaning(path) ==
    [d \in 1 .. Depth(path, Len(path)) |-> path[Max(Entries(path, Len(path), d))]]

\* No ".." goes up from the mount point.
Valid(path, allow_empty) ==
    /\ ~Absolute(path) /\ \A k \in 1 .. Len(path) : Depth(path, k) >= 0
    /\ \A i \in 1 .. Len(path) : path[i] # Colon
    /\ allow_empty \/ Meaning(path) # <<>>

-----------------------------------------------------------------------------
(* The file system.                                                        *)

\* The system follows ".." by itself.
Follow(p, seg) ==
    IF seg # ".." THEN Append(p, seg) ELSE IF p = <<>> THEN p ELSE Front(p)

Resolve(path) ==
    LET at[n \in 0 .. Len(path)] == IF n = 0 THEN <<>> ELSE Follow(at[n - 1], path[n])
    IN  at[Len(path)]

Holds(t, p, content) == p \in DOMAIN t /\ t[p] = content

IsDir(t, p) == p = <<>> \/ Holds(t, p, DIR)

Within(t, p) == {q \in DOMAIN t : IsStrictPrefix(p, q)}

With(t, p, content) ==
    [q \in DOMAIN t \cup {p} |-> IF q = p THEN content ELSE t[q]]

Without(t, p) == [q \in DOMAIN t \ {p} |-> t[q]]

\* mkdir(2), which may also fail where the system is broken.
mkdir(s, p, broken) ==
    IF ~s.ok \/ p \in DOMAIN s.tree THEN s
    ELSE IF p = broken \/ ~IsDir(s.tree, Front(p)) THEN [s EXCEPT !.ok = FALSE]
    ELSE [s EXCEPT !.tree = With(@, p, DIR)]

Started == [ok |-> TRUE, tree |-> tree]

Broken(full) == {Resolve(SubSeq(full, 1, k)) : k \in 0 .. Len(full)}

-----------------------------------------------------------------------------
(* The calls.                                                              *)

Returns(call, path, ok, value) ==
    ret' = [call |-> call, ok |-> ok, value |-> value,
            path |-> mount \o Meaning(path),
            valid |-> initialized /\ Valid(path, call = "mkdir")]

NoCall ==
    ret' = [call |-> "none", ok |-> FALSE, path |-> <<>>, valid |-> FALSE, value |-> 0]

\* The mount point stays initialized when its directory cannot be made.
fileio_init_common(m) ==
    /\ ~initialized /\ initialized' = TRUE /\ mount' = m
    /\ \E broken \in {<<>>, m} : tree' = mkdir(Started, m, broken).tree
    /\ NoCall /\ UNCHANGED <<kept, nwrites>>

fileio_deinit_common ==
    /\ initialized /\ initialized' = FALSE /\ mount' = <<>>
    /\ NoCall /\ UNCHANGED <<tree, kept, nwrites>>

\* Before fileio_init, and for a path that is not valid.
Refused(call, path) ==
    /\ initialized => ~fileio_build_full_path(path, call = "mkdir").ok
    /\ Returns(call, path, FALSE, 0)
    /\ UNCHANGED <<initialized, mount, tree, kept, nwrites>>

Accepts(path, allow_empty) ==
    initialized /\ fileio_build_full_path(path, allow_empty).ok

Full(path) == fileio_build_full_path(path, TRUE).path

\* Every directory above the last segment; one that exists, or a file, is passed.
MakeAbove(full, broken) ==
    LET made[k \in 0 .. Len(full) - 1] ==
          IF k = 0 THEN Started
          ELSE mkdir(made[k - 1], Resolve(SubSeq(full, 1, k)), broken)
    IN  made[Len(full) - 1]

fileio_mkdir_common(path) ==
    /\ Accepts(path, TRUE)
    /\ \E broken \in Broken(Full(path)) :
         LET made == MakeAbove(Full(path), broken)
         IN  tree' = made.tree /\ Returns("mkdir", path, made.ok, 0)
    /\ UNCHANGED <<initialized, mount, kept, nwrites>>

\* fopen truncates.  fwrite may take a part of the data only (whole), and fclose
\* may fail to store what the stream still buffers (flushed).
WriteFile(path, made, whole, flushed, ok) ==
    LET p == Resolve(Full(path)) IN
    /\ made.ok /\ IsDir(made.tree, Front(p)) /\ ~IsDir(made.tree, p)
    /\ tree' = With(made.tree, p, IF whole /\ flushed THEN nwrites + 1 ELSE UNKNOWN)
    /\ kept' = IF ok THEN With(kept, mount \o Meaning(path),
                               IF flushed THEN nwrites + 1 ELSE UNKNOWN)
               ELSE Without(kept, mount \o Meaning(path))
    /\ Returns("write", path, ok, nwrites + 1)

\* Mutant: a short write is taken for a whole one.
WriteIgnoresShort(path) ==
    /\ Accepts(path, FALSE) /\ nwrites < MaxWrites
    /\ nwrites' = nwrites + 1
    /\ LET made == MakeAbove(Full(path), <<>>)
       IN  \E whole, flushed \in BOOLEAN : WriteFile(path, made, whole, flushed, TRUE)
    /\ UNCHANGED <<initialized, mount>>

\* What fwrite took decides on the answer; what fclose returns is not looked at.
fileio_write_common(path) ==
    /\ Accepts(path, FALSE) /\ nwrites < MaxWrites
    /\ nwrites' = nwrites + 1
    /\ \E broken \in Broken(Full(path)) :
         LET made == MakeAbove(Full(path), broken) IN
         \/ tree' = made.tree /\ Returns("write", path, FALSE, 0) /\ UNCHANGED kept
         \/ \E whole, flushed \in BOOLEAN : WriteFile(path, made, whole, flushed, whole)
    /\ UNCHANGED <<initialized, mount>>

\* The system may fail at any of the calls that read a file.
fileio_read_common(path) ==
    /\ Accepts(path, FALSE)
    /\ LET p == Resolve(Full(path)) IN
       \/ /\ p \in DOMAIN tree /\ ~IsDir(tree, p)
          /\ Returns("read", path, TRUE, tree[p])
       \/ Returns("read", path, FALSE, 0)
    /\ UNCHANGED <<initialized, mount, tree, kept, nwrites>>

fileio_exists_common(path) ==
    /\ Accepts(path, FALSE)
    /\ \E ok \in {FALSE, Resolve(Full(path)) \in DOMAIN tree} :
         Returns("exists", path, ok, 0)
    /\ UNCHANGED <<initialized, mount, tree, kept, nwrites>>

\* remove(3) and rmdir(2): the second takes only directories, both only empty
\* ones.  What is not there counts as removed, but not below a file (ENOTDIR).
Removes(call, path, removable) ==
    /\ Accepts(path, FALSE)
    /\ LET p == Resolve(Full(path)) IN
       \/ /\ p \in DOMAIN tree /\ Within(tree, p) = {} /\ removable
          /\ tree' = Without(tree, p)
          /\ kept' = Without(kept, mount \o Meaning(path))
          /\ Returns(call, path, TRUE, 0)
       \/ /\ p \notin DOMAIN tree
          /\ \A k \in 1 .. Len(p) - 1 :
               SubSeq(p, 1, k) \in DOMAIN tree => IsDir(tree, SubSeq(p, 1, k))
          /\ Returns(call, path, TRUE, 0) /\ UNCHANGED <<tree, kept>>
       \/ Returns(call, path, FALSE, 0) /\ UNCHANGED <<tree, kept>>
    /\ UNCHANGED <<initialized, mount, nwrites>>

fileio_rmfile_common(path) == Removes("rmfile", path, TRUE)

fileio_rmdir_common(path) == Removes("rmdir", path, IsDir(tree, Resolve(Full(path))))

-----------------------------------------------------------------------------
Calls == {"write", "read", "exists", "rmfile", "rmdir", "mkdir"}

Next ==
    \/ \E m \in Mounts : fileio_init_common(m)
    \/ fileio_deinit_common
    \/ \E path \in Paths :
         \/ \E call \in Calls : Refused(call, path)
         \/ fileio_write_common(path) \/ fileio_read_common(path)
         \/ fileio_exists_common(path) \/ fileio_mkdir_common(path)
         \/ fileio_rmfile_common(path) \/ fileio_rmdir_common(path)

Spec == Init /\ [][Next]_vars

-----------------------------------------------------------------------------
\* For every path of up to MaxSegments segments, fileio_build_full_path accepts
\* it exactly if it stays below the mount point at every segment, and yields the
\* mount point and the names of the levels it is below in the end (62-125).  It
\* depends on the mount point only, so it is looked at where that was just set.
NormalizeCorrect ==
    initialized /\ ret.call = "none" /\ nwrites = 0 =>
        \A path \in BoundedSeq(Segments, MaxSegments), allow_empty \in BOOLEAN :
            LET full == fileio_build_full_path(path, allow_empty)
            IN  /\ full.ok = Valid(path, allow_empty)
                /\ full.ok => full.path = mount \o Meaning(path)

Changed == {p \in DOMAIN tree \cup DOMAIN tree' :
              \/ p \notin DOMAIN tree \/ p \notin DOMAIN tree'
              \/ tree[p] # tree'[p]}

\* No call, whatever its path, touches anything outside the mount point it was
\* made under; the only other change is that the mount point and the
\* directories above it are made where they are missing.
Confined ==
    [][\A p \in Changed :
         \/ IsStrictPrefix(mount', p)
         \/ IsPrefix(p, mount') /\ p \notin DOMAIN tree /\ tree'[p] = DIR]_vars

\* What a call has answered is so: a file holds what the last write that
\* returned 0 put there, through other writes (failed ones too), removes,
\* mkdirs and changes of the mount point, unless fclose has lost it; a read
\* returns what the file holds; what has been removed is gone.  A path that is
\* not valid gets no answer but failure.  Of what fileio_mkdir has made nothing is
\* said: fileio.h:74 calls its path the directory to create, and the code stops
\* at the last separator (452-462).
FilesFaithful ==
    /\ \A p \in DOMAIN kept : Holds(tree, p, kept[p])
    /\ ret.ok =>
         /\ ret.valid
         /\ ret.call = "write" =>
              Holds(kept, ret.path, ret.value) \/ Holds(kept, ret.path, UNKNOWN)
         /\ ret.call = "read" => Holds(tree, ret.path, ret.value)
         /\ ret.call = "exists" => ret.path \in DOMAIN tree
         /\ ret.call \in {"rmfile", "rmdir"} =>
              ret.path \notin DOMAIN tree /\ Within(tree, ret.path) = {}
=============================================================================
