---------------------------- MODULE DiscFileSystem ----------------------------
(***************************************************************************)
(* The file system table of the disc and the paths into it                 *)
(* (LibKuribo/filesystem): resolvePath, the operations of Path, and the    *)
(* iterator that LoadModulesOffDisc walks over the Mods folder with.       *)
(*                                                                         *)
(* The table lists every folder before what it holds.  A path and a name   *)
(* are sequences of character codes.                                       *)
(***************************************************************************)
EXTENDS Integers, Sequences, FiniteSets, FiniteSetsExt

CONSTANTS
  Tables, \* the tables a disc may have: index -> node
  Paths   \* the paths that are asked for

NumEntries(t) == t[0].sibling_next
IsEntryValid(t, i) == i < NumEntries(t)

\* The tree the table stands for: each node but the root is in the nearest folder whose
\* range it is in.
Folders(t) == {i \in DOMAIN t : t[i].is_folder}
Enclosing(t, i) ==
  IF i = 0 THEN 0 ELSE Max({d \in Folders(t) : d < i /\ i < t[d].sibling_next})

\* A file's offset and size share their words with a folder's parent and
\* sibling_next.  The ranges of folders nest, and parents are what they are called.
ASSUME TableAssumption ==
  \A t \in Tables :
    /\ DOMAIN t = 0 .. NumEntries(t) - 1 /\ 0 \in Folders(t)
    /\ \A i \in DOMAIN t :
         /\ t[i].is_folder \in BOOLEAN /\ t[i].name \in Seq(Nat)
         /\ t[i].parent \in Nat /\ t[i].sibling_next \in Nat
    /\ \A d \in Folders(t) :
         /\ d < t[d].sibling_next /\ t[d].parent = Enclosing(t, d)
         /\ \A c \in Folders(t) :
              d < c /\ c < t[d].sibling_next => t[c].sibling_next <= t[d].sibling_next
ASSUME PathAssumption == Paths \subseteq Seq(Nat)

VARIABLES
  nodes,   \* the table of this disc
  asserts, \* whether the build has assertions
  pc,      \* "path": between two operations; "walk": in a loop over an iterator;
           \* "halted": an assertion failed; "wild": memory behind the table or behind
           \* the path was read
  node,    \* the node of the Path, or None
  at, end, \* the iterator of the loop and its end
  seen     \* the nodes the loop was given

vars == <<nodes, asserts, pc, node, at, end, seen>>

None == -1
Wild == -2

-----------------------------------------------------------------------------
Slash == 47
Period == 46
Dot == <<Period>>
DotDot == <<Period, Period>>

\* substr, and a look at one character: a NUL follows the path.
From(path, k) == SubSeq(path, k, Len(path))
Char(path, k) == IF k <= Len(path) THEN path[k] ELSE 0

\* Letters, and any two characters that are as far apart, as "O" and the slash are.
equalsIgnoreCase(a, b) == a = b \/ a - b = 32 \/ b - a = 32

\* The path starts with the name, and there it ends or a slash follows.
pathCompare(path, name) ==
  /\ Len(name) <= Len(path) /\ \A i \in DOMAIN name : equalsIgnoreCase(path[i], name[i])
  /\ Len(name) = Len(path) \/ Char(path, Len(name) + 1) = Slash

Delimited(path) == \E k \in DOMAIN path : path[k] = Slash

\* Mutant: the next node is the one behind, a folder's own first entry.
SearchInFolders(t, anchor, path, last) ==
  LET look[i \in 0 .. NumEntries(t)] ==
        IF i >= t[anchor].sibling_next THEN None
        ELSE IF (t[i].is_folder \/ last) /\ pathCompare(path, t[i].name) THEN i
        ELSE look[i + 1]
  IN  look[anchor + 1]

\* The loops over the entries of `anchor`.  Only folders are looked at as long as
\* a slash follows.  An entry "." is stepped over without a look at the end.
Search(t, anchor, path, last) ==
  LET stop == t[anchor].sibling_next
      considered(i) == t[i].is_folder \/ last
      look[i \in 0 .. NumEntries(t)] ==
        IF ~IsEntryValid(t, i) THEN Wild
        ELSE IF considered(i) /\ t[i].name = Dot THEN look[i + 1]
        ELSE IF considered(i) /\ pathCompare(path, t[i].name) THEN i
        ELSE LET next == IF t[i].is_folder THEN t[i].sibling_next ELSE i + 1
             IN  IF next < stop THEN look[next] ELSE None
  IN  IF anchor + 1 < stop THEN look[anchor + 1] ELSE None

\* A node, and what is left of the path; nothing is once the loop returns.
Return(it) == [it |-> it, path |-> <<>>]
GoOn(it, path) == IF it \in {None, Wild} THEN Return(it) ELSE [it |-> it, path |-> path]

\* From a node the search leads into its entry of the name, and the path is cut behind the
\* slash that delimits the name, or behind its own end when the slash was in the name.
Compare(t, it, path) ==
  LET found == IF IsEntryValid(t, it) THEN Search(t, it, path, ~Delimited(path)) ELSE Wild
      size == Len(t[found].name)
  IN  IF found \in {None, Wild} \/ ~Delimited(path) THEN Return(found)
      ELSE IF size = Len(path) THEN Return(Wild)
      ELSE GoOn(found, From(path, size + 2))

\* One turn of the loop of resolvePath: a slash leads to the root wherever it is met.
Turn(t, s) ==
  LET path == s.path
      parent == IF IsEntryValid(t, s.it) THEN t[s.it].parent ELSE Wild
      dot == Char(path, 1) = Period /\ Char(path, 2) # Period
      dots == Char(path, 1) = Period /\ Char(path, 2) = Period
  IN  IF path = <<>> THEN s
      ELSE CASE Char(path, 1) = Slash         -> GoOn(0, From(path, 2))
             [] dot /\ Char(path, 2) = Slash  -> GoOn(s.it, From(path, 3))
             [] dot /\ Len(path) = 1          -> Return(s.it)
             [] dots /\ Char(path, 3) = Slash -> GoOn(parent, From(path, 4))
             [] dots /\ Len(path) = 2         -> Return(parent)
             [] OTHER                         -> Compare(t, s.it, path)

\* Each turn takes a character at least.
resolvePath(t, path, search_from) ==
  LET after[n \in 0 .. Len(path)] ==
        IF n = 0 THEN GoOn(search_from, path) ELSE Turn(t, after[n - 1])
  IN  after[Len(path)].it

\* Mutant: the entry before a file is taken for its folder.
ParentNodeOfPrevious(t, n) ==
  IF n = None THEN None
  ELSE IF t[n].is_folder THEN t[n].parent ELSE n - 1

\* Of a file: the nearest folder before it in the table.
getParentNode(t, n) ==
  IF n = None THEN None
  ELSE IF t[n].is_folder THEN t[n].parent
  ELSE Max({i \in 0 .. n : t[i].is_folder})

\* Mutant: the index is not checked.
MakePathUnchecked(r) ==
  IF r = Wild THEN pc' = "wild" /\ UNCHANGED node ELSE node' = r /\ UNCHANGED pc

\* Path(fs, resolved): a node behind the table fails the assertion of getChild.
MakePath(r) ==
  IF r = Wild THEN pc' = "wild" /\ UNCHANGED node
  ELSE IF r = None \/ IsEntryValid(nodes, r) THEN node' = r /\ UNCHANGED pc
  ELSE pc' = (IF asserts THEN "halted" ELSE "wild") /\ UNCHANGED node

Found(path, from) == resolvePath(nodes, path, IF from = None THEN 0 ELSE from)

-----------------------------------------------------------------------------
Init ==
  /\ nodes \in Tables /\ asserts \in BOOLEAN
  /\ pc = "path" /\ node = 0 /\ at = 0 /\ end = 0 /\ seen = <<>>

append(path) ==
  /\ pc = "path" /\ MakePath(Found(path, node))
  /\ UNCHANGED <<nodes, asserts, at, end, seen>>

removeFilename ==
  /\ pc = "path" /\ node' = getParentNode(nodes, node)
  /\ UNCHANGED <<nodes, asserts, pc, at, end, seen>>

replaceFilename(path) ==
  /\ pc = "path" /\ MakePath(Found(path, getParentNode(nodes, node)))
  /\ UNCHANGED <<nodes, asserts, at, end, seen>>

clear ==
  /\ pc = "path" /\ node' = None
  /\ UNCHANGED <<nodes, asserts, pc, at, end, seen>>

\* Mutant: a file is its own end.
EndAtFile(n) == IF nodes[n].is_folder THEN nodes[n].sibling_next ELSE n

\* end(): of a file there is nothing to iterate.
End(n) == IF nodes[n].is_folder THEN nodes[n].sibling_next ELSE n + 1

\* The head of a range-based for: begin() and end() of the iterator.  The end of
\* the last folder is no entry, which the assertion of getChild does not allow.
Walk ==
  /\ pc = "path" /\ node # None
  /\ IF asserts /\ nodes[node].is_folder /\ ~IsEntryValid(nodes, End(node))
     THEN pc' = "halted" /\ UNCHANGED <<at, end, seen>>
     ELSE pc' = "walk" /\ at' = node + 1 /\ end' = End(node) /\ seen' = <<>>
  /\ UNCHANGED <<nodes, asserts, node>>

\* Mutant: the next entry of the same folder.
VisitSiblings ==
  /\ pc = "walk" /\ at # end /\ IsEntryValid(nodes, at)
  /\ seen' = Append(seen, at)
  /\ at' = IF nodes[at].is_folder THEN nodes[at].sibling_next ELSE at + 1
  /\ UNCHANGED <<nodes, asserts, pc, node, end>>

\* One turn of the loop.
Visit ==
  /\ pc = "walk" /\ at # end /\ IsEntryValid(nodes, at)
  /\ seen' = Append(seen, at) /\ at' = at + 1
  /\ UNCHANGED <<nodes, asserts, pc, node, end>>

Finish ==
  /\ pc = "walk" /\ at = end
  /\ pc' = "path" /\ at' = 0 /\ end' = 0 /\ seen' = <<>>
  /\ UNCHANGED <<nodes, asserts, node>>

Next ==
  \/ \E path \in Paths : append(path) \/ replaceFilename(path)
  \/ removeFilename \/ clear \/ Walk \/ Visit \/ Finish

\* A loop runs on by itself.
Spec == Init /\ [][Next]_vars /\ WF_vars(Visit) /\ WF_vars(Finish)

-----------------------------------------------------------------------------
Entries(t, d) == {i \in DOMAIN t \ {0} : Enclosing(t, i) = d}

\* The nodes below d: the least set that holds the entries of d and of its own folders.
Complete(t, d, S) ==
  Entries(t, d) \subseteq S /\ \A c \in S : Entries(t, c) \subseteq S
Below(t, d) == {i \in DOMAIN t : \A S \in SUBSET DOMAIN t : Complete(t, d, S) => i \in S}

\* The first part of a path ends before its first slash.
Slashes(path) == {k \in DOMAIN path : path[k] = Slash}
PartSize(path) == IF Slashes(path) = {} THEN Len(path) ELSE Min(Slashes(path)) - 1

\* It names an entry of folder d, the first one of those that differ in case only, and
\* before a slash a folder.
SameName(part, name) ==
  Len(part) = Len(name) /\ \A i \in DOMAIN part : equalsIgnoreCase(part[i], name[i])
Named(t, d, part, last) ==
  {i \in Entries(t, d) : SameName(part, t[i].name) /\ (last \/ t[i].is_folder)}
First(S) == IF S = {} THEN None ELSE Min(S)

\* What a path denotes in the tree, seen from folder d, part by part.
Denotation(t, d, part, last) ==
  CASE part = <<>>   -> 0
    [] part = Dot    -> d
    [] part = DotDot -> Enclosing(t, d)
    [] OTHER         -> First(Named(t, d, part, last))
Follow(t, s) ==
  LET size == PartSize(s.path)
      to == Denotation(t, s.it, SubSeq(s.path, 1, size), size = Len(s.path))
  IN  IF s.path = <<>> THEN s ELSE GoOn(to, From(s.path, size + 2))
Denoted(t, d, path) ==
  LET after[n \in 0 .. Len(path)] ==
        IF n = 0 THEN GoOn(d, path) ELSE Follow(t, after[n - 1])
  IN  after[Len(path)].it

\* A name is met with more than one part of the path: the folder "aOb" in "a/b".
Begins(path, k) == path[k] # Slash /\ (k = 1 \/ path[k - 1] = Slash)
Ambiguous(t, path) ==
  \E i \in DOMAIN t, k \in DOMAIN path :
    /\ Begins(path, k) /\ pathCompare(From(path, k), t[i].name)
    /\ \E n \in DOMAIN t[i].name : From(path, k)[n] = Slash

HasDots(t) == \E i \in DOMAIN t \ {0} : t[i].name = Dot

\* Types.
TypeOK ==
  /\ nodes \in Tables /\ asserts \in BOOLEAN
  /\ pc \in {"path", "walk", "halted", "wild"}
  /\ node \in DOMAIN nodes \cup {None}
  /\ at \in 0 .. NumEntries(nodes) /\ end \in 0 .. NumEntries(nodes)
  /\ \A n \in DOMAIN seen : seen[n] \in DOMAIN nodes

\* The walk over the flat table finds what the path denotes in the tree, from
\* every folder (resolvePath), unless the table has entries that are called "." or a
\* name that the code takes for several parts of the path.
ResolvesLikeTree ==
  pc = "path" /\ node = 0 /\ ~asserts /\ ~HasDots(nodes) =>
    \A d \in Folders(nodes), path \in Paths :
      ~Ambiguous(nodes, path) => resolvePath(nodes, path, d) = Denoted(nodes, d, path)

\* A loop over a path meets everything below it, in the order of the table, and
\* nothing else (RecursiveDirectoryIterator).
VisitsEverythingBelow ==
  pc = "walk" /\ at = end =>
    LET below == IF nodes[node].is_folder THEN Below(nodes, node) ELSE {}
    IN  /\ {seen[n] : n \in DOMAIN seen} = below
        /\ \A m, n \in DOMAIN seen : m < n => seen[m] < seen[n]

\* Every loop comes to its end.
WalksEnd == pc = "walk" ~> pc = "path"

\* In a folder that lists its files before its folders, the nearest folder before
\* a file is the one it is in: removing the file name leads there (getParentNode,
\* removeFilename).
FilesFirst(t) ==
  \A d \in Folders(t) : \A i, j \in Entries(t, d) : t[i].is_folder /\ ~t[j].is_folder => j < i

ParentEncloses ==
  [][removeFilename /\ FilesFirst(nodes) /\ node # None =>
       node' = Enclosing(nodes, node)]_vars

\* filesystem.hxx:103 says of removeFilename "foo/bar -> foo/": it leads to the
\* folder the path was in, whatever the order of the table.
RemovesFilename ==
  [][removeFilename /\ node # None => node' = Enclosing(nodes, node)]_vars
=============================================================================
