--------------------------- MODULE MCDiscFileSystem ---------------------------
(***************************************************************************)
(* Every tree of two entries with names that differ in case, are confused  *)
(* or are dots, and of three and four entries with fewer names.            *)
(***************************************************************************)
EXTENDS DiscFileSystem

\* The table of a tree that is given by the depth, the kind and the name of its
\* entries.  Files lie far behind the table; `size` is as good as any.
TableOf(n, depth, folder, name, size) ==
  LET level(i) == IF i = 0 THEN 0 ELSE depth[i]
      isFolder(i) == i = 0 \/ folder[i]
  IN  [i \in 0 .. n |->
        [is_folder |-> isFolder(i),
         name |-> IF i = 0 THEN <<>> ELSE name[i],
         parent |-> IF ~isFolder(i) THEN 100
                    ELSE IF i = 0 THEN 0
                    ELSE Max({j \in 0 .. i - 1 : level(j) = level(i) - 1}),
         sibling_next |-> IF ~isFolder(i) THEN size
                          ELSE Min({j \in i + 1 .. n : level(j) <= level(i)} \cup {n + 1})]]

Depths(n, folder) ==
  {d \in [1 .. n -> 1 .. n] : d[1] = 1 /\
     \A i \in 2 .. n : d[i] <= d[i - 1] + (IF folder[i - 1] THEN 1 ELSE 0)}

TreesOf(n, namings, size) ==
  UNION {{TableOf(n, d, folder, name, size) : d \in Depths(n, folder), name \in namings}
         : folder \in [1 .. n -> BOOLEAN]}

a == <<97>>
A == <<65>>
b == <<98>>
Q == <<81>>  \* "1" counts as its other case
one == <<49>>
ab == <<97, 98>>
aOb == <<97, 79, 98>>  \* met with a/b
dota == <<Period, 97>>
dotdota == <<Period, Period, 97>>

MCTables ==
  TreesOf(2, [1 .. 2 -> {a, A, one, Dot}], 0)
    \cup TreesOf(2, [1 .. 2 -> {a, b, aOb, dota, dotdota}], 3)
    \cup TreesOf(3, [1 .. 3 -> {a, ab}] \cup {<<a, b, aOb>>, <<aOb, a, b>>}, 100)
    \cup TreesOf(4, {[i \in 1 .. 4 |-> IF i % 2 = 1 THEN a ELSE ab]}, 0)

Under(p, q) == p \o <<Slash>> \o q
MCPaths ==
  {<<>>, <<Slash>>, Dot, DotDot, a, ab, Q, dota, dotdota}
    \cup {Under(p, q) : p \in {DotDot, a, ab}, q \in {<<>>, DotDot, a, ab, b, dota}}
    \cup {Under(Dot, a), Under(Q, a), Under(dotdota, b), Under(<<>>, Under(a, ab)),
          Under(a, Under(ab, <<>>)), Under(a, Under(DotDot, a)), Under(a, Under(a, a)),
          Under(a, Under(b, a))}
=============================================================================
