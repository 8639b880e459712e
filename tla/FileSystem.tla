----------------------------- MODULE FileSystem -----------------------------
(***************************************************************************)
(* The emulated file system of a connection (shell/fs.py), as the commands *)
(* of its shell and the requests of its SFTP client change it.  An entry   *)
(* is a mutable list in the list of its directory, found in two ways:      *)
(* get_path takes the first of a name, getfile the last, and the latter    *)
(* follows a link even when it is to be moved or renamed.                  *)
(***************************************************************************)
EXTENDS Naturals, Sequences, FiniteSets, SequencesExt, FiniteSetsExt

CONSTANTS FsNames,        \* of entries
          Image,        \* the tree that is unpickled: node -> [name, type, contents, target]
          MaxNew,       \* the limit on new entries, 10000 in the code
          MaxNodes,     \* bound: entries that exist at a time
          MaxUploads    \* bound: files that are uploaded

VARIABLES
  tree,         \* the entries that can be reached
  newcount,     \* entries that mkfile and mkdir made so far
  handle,       \* the path of the file that SFTP is writing, or << >>
  uploads,      \* names of the files kept of this session's uploads, in order
  twice         \* history: a name was used twice, or an entry has two places

fsvars == <<tree, newcount, handle, uploads, twice>>

Root == 0
Lost == MaxNodes            \* "not found": None or False
Nodes == 0 .. MaxNodes - 1
Paths == {<<n>> : n \in FsNames} \cup (FsNames \X FsNames)

FsTypeOK ==
  /\ Root \in DOMAIN tree /\ DOMAIN tree \subseteq Nodes
  /\ \A x \in DOMAIN tree : /\ tree[x].type \in {"dir", "file", "link"}
                            /\ Range(tree[x].contents) \subseteq DOMAIN tree \ {Root}
  /\ newcount \in 0 .. MaxNew + 1
  /\ handle \in Paths \cup {<< >>}
  /\ uploads \in Seq(FsNames) /\ Len(uploads) <= MaxUploads

\* Image has the home of the user, which a session makes for one that /etc/passwd
\* does not know; it counts then.
FsStart == tree = Image /\ newcount \in {0, 1} /\ handle = << >> /\ uploads = << >> /\ twice = FALSE

-----------------------------------------------------------------------------
\* Entries of a name in a directory, by position.
Named(t, x, n) == SelectSeq(t[x].contents, LAMBDA y : t[y].name = n)

RECURSIVE getfile(_, _, _)
getfile(t, path, follow) ==
  LET Step(p, n) ==
        IF p = Lost \/ Named(t, p, n) = << >> THEN Lost
        ELSE LET x == Last(Named(t, p, n))
             IN IF t[x].type # "link" \/ (n = Last(path) /\ ~ follow) THEN x
                ELSE getfile(t, t[x].target, follow)
  IN FoldLeft(Step, Root, path)

\* The entry whose contents get_path returns.
get_path(t, path) ==
  LET Step(p, n) ==
        IF p = Lost \/ Named(t, p, n) = << >> THEN Lost
        ELSE LET x == Named(t, p, n)[1]
             IN IF t[x].type = "link" THEN getfile(t, t[x].target, TRUE) ELSE x
  IN FoldLeft(Step, Root, path)

exists(t, path) == getfile(t, path, TRUE) # Lost
isdir(t, path) == exists(t, path) /\ t[getfile(t, path, TRUE)].type = "dir"
dirname(path) == Front(path)
basename(path) == Last(path)

\* Lists of entries changed in place.
append(t, dir, x) == [t EXCEPT ![dir].contents = Append(@, x)]
remove(t, dir, x) == [t EXCEPT ![dir].contents = RemoveFirst(@, x)]
Inside(t, dir, x) == x \in Range(t[dir].contents)

RECURSIVE Below(_, _)
Below(t, found) ==
  LET more == FoldLeft(LAMBDA f, x : f \o SelectSeq(t[x].contents, LAMBDA y : y \notin Range(f)), found, found)
  IN IF more = found THEN found ELSE Below(t, more)

\* What nobody can reach any more is as good as gone, and what is left is
\* numbered anew: a number tells nothing of an entry.
Reachable(t) ==
  LET found == Below(t, <<Root>>)
      number == [x \in Range(found) |-> CHOOSE i \in 0 .. Len(found) - 1 : found[i + 1] = x]
  IN [x \in 0 .. Len(found) - 1 |->
        [t[found[x + 1]] EXCEPT !.contents = [i \in DOMAIN @ |-> number[@[i]]]]]

\* Two entries of one name in a directory, or one entry in two places.
Doubled(t) ==
  \/ \E x \in DOMAIN t : \E i, j \in DOMAIN t[x].contents :
       i # j /\ t[t[x].contents[i]].name = t[t[x].contents[j]].name
  \/ \E x, y \in DOMAIN t : x # y /\ Range(t[x].contents) \cap Range(t[y].contents) # {}

Becomes(t) == tree' = Reachable(t)
Unchanged == tree' = tree

\* A new entry under an unused number.
Free == CHOOSE x \in Nodes \ DOMAIN tree : \A y \in Nodes \ DOMAIN tree : x <= y
Entry(n, type) == [name |-> n, type |-> type, contents |-> << >>, target |-> << >>]
HasRoom == Cardinality(DOMAIN tree) < MaxNodes

Quiet == UNCHANGED <<handle, uploads, twice>>
-----------------------------------------------------------------------------
\* Mutant: a file that is made anew leaves the old one of its name there.
FaultyReplaced(t, dir, n) == t

\* mkfile and cp take the first entry of the name away.
Replaced(t, dir, n) == IF Named(t, dir, n) = << >> THEN t ELSE remove(t, dir, Named(t, dir, n)[1])

\* mkfile: False at the limit, an exception without the directory.
mkfile(path) ==
  LET dir == get_path(tree, dirname(path))
  IN IF newcount > MaxNew \/ dir = Lost THEN Unchanged /\ UNCHANGED newcount
     ELSE /\ HasRoom
          /\ Becomes(append((Free :> Entry(basename(path), "file")) @@
                              Replaced(tree, dir, basename(path)), dir, Free))
          /\ newcount' = newcount + 1

\* mkdir does not look for the name, and raises at the limit.
mkdir(path) ==
  LET dir == get_path(tree, dirname(path))
  IN IF newcount > MaxNew \/ dir = Lost THEN Unchanged /\ UNCHANGED newcount
     ELSE /\ HasRoom
          /\ Becomes(append((Free :> Entry(basename(path), "dir")) @@ tree, dir, Free))
          /\ newcount' = newcount + 1

\* The name is that of a link that leads nowhere: exists says it is free.
Dangling(path) ==
  LET dir == get_path(tree, dirname(path))
  IN ~ exists(tree, path) /\ dir # Lost /\ Named(tree, dir, basename(path)) # << >>

\* A directory of that name is made twice.
Repeated(path) == exists(tree, path) \/ Dangling(path)

-----------------------------------------------------------------------------
\* ">", ">>", wget and others that save a file.
MakeFile(path) == mkfile(path) /\ Quiet

\* touch: files that exist are left alone.
Touch(path) ==
  /\ exists(tree, dirname(path)) /\ ~ exists(tree, path)
  /\ mkfile(path) /\ Quiet

\* The command mkdir, and SFTP's makeDirectory with mkdir2, which look for the
\* name first.
MakeDirectory(path) ==
  /\ ~ exists(tree, path)
  /\ mkdir(path)
  /\ twice' = (twice \/ (newcount' # newcount /\ Dangling(path)))
  /\ UNCHANGED <<handle, uploads>>

\* tar makes the directories of an archive whether they are there or not.  A file
\* in it makes mkfullpath call mkdir for "", which raises, so nothing comes of it
\* and what follows is not read.  Bound: archives of one directory, that lie
\* outside the part of the tree that is followed.
Tar(path) ==
  /\ mkdir(path)
  /\ twice' = (twice \/ (newcount' # newcount /\ Repeated(path)))
  /\ UNCHANGED <<handle, uploads>>

\* The command rm takes every entry of the name; directories if recursive.
Rm(path, recursive) ==
  LET dir == get_path(tree, dirname(path))
      Goes(x) == tree[x].name = basename(path) /\ (tree[x].type = "dir" => recursive)
  IN /\ dir # Lost /\ get_path(tree, path) # Lost
     /\ Becomes([tree EXCEPT ![dir].contents = SelectSeq(@, LAMBDA x : ~ Goes(x))])
     /\ UNCHANGED newcount /\ Quiet

\* The command rmdir: the first of the name goes, if it is a directory; a
\* name is looked up with links followed, and the link is found no directory.
Rmdir(path) ==
  LET dir == get_path(tree, dirname(path))
      inode == get_path(tree, path)
  IN /\ dir # Lost /\ inode # Lost /\ tree[inode].contents = << >>
     /\ LET x == Named(tree, dir, basename(path))[1]
        IN tree[x].type = "dir" /\ Becomes(remove(tree, dir, x))
     /\ UNCHANGED newcount /\ Quiet

\* SFTP's removeDirectory.
RemoveDirectory(path) ==
  LET dir == getfile(tree, path, FALSE)
      pdir == get_path(tree, dirname(path))
  IN /\ dir # Lost /\ tree[dir].type = "dir"
     /\ get_path(tree, path) # Lost /\ tree[get_path(tree, path)].contents = << >>
     /\ Becomes(remove(tree, pdir, Named(tree, pdir, basename(path))[1]))
     /\ UNCHANGED newcount /\ Quiet

\* SFTP's removeFile, which takes directories too.
RemoveFile(path) ==
  LET p == getfile(tree, path, FALSE)
      pdir == get_path(tree, dirname(path))
  IN /\ p # Lost /\ pdir # Lost /\ Inside(tree, pdir, p)
     /\ Becomes(remove(tree, pdir, p))
     /\ UNCHANGED newcount /\ Quiet

\* SFTP's renameFile: nothing may have the new name.  The entry is out of its
\* directory before the new directory is looked for; it is lost if that fails.
RenameFile(oldpath, newpath) ==
  LET old == getfile(tree, oldpath, TRUE)
      pdir == get_path(tree, dirname(oldpath))
      without == [remove(tree, pdir, old) EXCEPT ![old].name = basename(newpath)]
      dir == get_path(without, dirname(newpath))
  IN /\ old # Lost /\ ~ exists(tree, newpath)
     /\ pdir # Lost /\ Inside(tree, pdir, old)
     /\ IF dir = Lost THEN Becomes(without) ELSE Becomes(append(without, dir, old))
     /\ twice' = (twice \/ Dangling(newpath))
     /\ UNCHANGED <<newcount, handle, uploads>>

\* Where cp and mv put what they take: into a directory, or under a name.
Target(src, dest) ==
  IF isdir(tree, dest) THEN [dir |-> get_path(tree, dest), name |-> basename(src)]
  ELSE [dir |-> get_path(tree, dirname(dest)), name |-> basename(dest)]

\* cp: a deep copy replaces the entry of its name.
Cp(src, dest, recursive) ==
  LET x == getfile(tree, src, TRUE)
      to == Target(src, dest)
      all == Range(Below(tree, <<x>>))
      free == SetToSortSeq(Nodes \ DOMAIN tree, <)
      number == [y \in all |-> free[Cardinality({z \in all : z <= y})]]
      copies == [z \in {number[y] : y \in all} |->
                   LET y == CHOOSE w \in all : number[w] = z
                   IN [tree[y] EXCEPT !.name = IF y = x THEN to.name ELSE @,
                                      !.contents = [i \in DOMAIN @ |-> number[@[i]]]]]
  IN /\ exists(tree, src) /\ (tree[x].type = "dir" => recursive)
     /\ isdir(tree, dest) \/ exists(tree, dirname(dest))
     /\ to.dir # Lost
     /\ Len(free) >= Cardinality(all)
     /\ Becomes(append(copies @@ Replaced(tree, to.dir, to.name), to.dir, number[x]))
     /\ UNCHANGED newcount /\ Quiet

\* mv: the entry gets its new name and its new place, and loses the old one,
\* unless it was found through a link and is not there: then list.remove
\* raises.  Nothing is taken away at the destination.
Mv(src, dest) ==
  LET x == getfile(tree, src, TRUE)
      to == Target(src, dest)
      moved == append([tree EXCEPT ![x].name = to.name], to.dir, x)
      sdir == get_path(moved, dirname(src))
  IN /\ exists(tree, src)
     /\ isdir(tree, dest) \/ exists(tree, dirname(dest))
     /\ to.dir # Lost
     /\ IF sdir # Lost /\ Inside(moved, sdir, x) THEN Becomes(remove(moved, sdir, x)) ELSE Becomes(moved)
     /\ twice' = \/ twice
                 \/ Range(Named(tree, to.dir, to.name)) \ {x} # {}
                 \/ tree[x].name # basename(src)
                 \/ ~ Inside(tree, get_path(tree, dirname(src)), x)
     /\ UNCHANGED <<newcount, handle, uploads>>

\* SFTP's openFile for writing: the file is made here and then on the host, where
\* its flags may make os.open raise, for one that has no O_CREAT.
OpenFile(path) ==
  /\ handle = << >> /\ Len(uploads) < MaxUploads
  /\ mkfile(path)
  /\ handle' \in {<< >>} \cup {p \in {path} : exists(tree', p)}
  /\ UNCHANGED <<uploads, twice>>

\* Its close: the upload is kept under its name, unless there is one of that
\* name already, which is reported in its place.
CloseFile ==
  /\ handle # << >>
  /\ uploads' = IF basename(handle) \in Range(uploads) THEN uploads ELSE Append(uploads, basename(handle))
  /\ handle' = << >>
  /\ UNCHANGED <<tree, newcount, twice>>

\* Bound: a session is followed until nothing is promised of it any more.
FsNext ==
  /\ ~ twice
  /\ \/ \E path \in Paths : \/ MakeFile(path) \/ Touch(path) \/ MakeDirectory(path) \/ Tar(path)
                            \/ Rmdir(path) \/ RemoveDirectory(path) \/ RemoveFile(path) \/ OpenFile(path)
     \/ \E path \in Paths, recursive \in BOOLEAN : Rm(path, recursive)
     \/ \E old, new \in Paths : RenameFile(old, new) \/ Mv(old, new)
     \/ \E src, dest \in Paths, recursive \in BOOLEAN : Cp(src, dest, recursive)
     \/ CloseFile

-----------------------------------------------------------------------------
\* A path means one entry: unless mv met an entry at its destination or was given
\* a link, tar was given a directory whose name was taken, or a directory or a new
\* name took that of a link that led nowhere, no directory has two entries of a
\* name, no entry is in two places, and the two ways of finding a path agree.
OneMeaning ==
  ~ twice =>
    /\ ~ Doubled(tree)
    /\ \A path \in Paths : get_path(tree, path) = getfile(tree, path, TRUE)
=============================================================================
