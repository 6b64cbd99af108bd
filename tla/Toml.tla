-------------------------------- MODULE Toml --------------------------------
(***************************************************************************)
(* core/src/toml.rs: Codex's config.toml.  toml_edit, a library, does the  *)
(* edits; the module takes what it would not keep, the byte order mark,    *)
(* the line ends and the end of the last line, off the bytes and puts it   *)
(* back.                                                                   *)
(*                                                                         *)
(* A body is a sequence of lines: the [header] of a table, a key with its  *)
(* value, which may be a table in braces, and either may have a comment    *)
(* beside it; or a comment.  Blank lines are layout.  Dotted keys and      *)
(* lists of tables are left out.                                           *)
(***************************************************************************)
EXTENDS Integers, SequencesExt

Header(path) == [kind |-> "header", path |-> path, value |-> "", beside |-> ""]
Pair(key, value) == [kind |-> "pair", path |-> <<key>>, value |-> value, beside |-> ""]
Comment(text) == [kind |-> "comment", path |-> <<>>, value |-> "", beside |-> text]
Beside(line, text) == [line EXCEPT !.beside = text]

Items(b) == {i \in DOMAIN b : b[i].kind # "comment"}
Headers(b) == {i \in DOMAIN b : b[i].kind = "header"}

Highest(S) == CHOOSE i \in S : \A j \in S : j <= i
Lowest(S) == CHOOSE i \in S : \A j \in S : i <= j

\* The header a line is under; 0 for none.
Over(b, i) == Highest({0} \cup {h \in Headers(b) : h < i})

\* What a line is about: the path of its table, or of its key.
About(b, i) ==
    IF b[i].kind = "header" \/ Over(b, i) = 0 THEN b[i].path ELSE b[Over(b, i)].path \o b[i].path

AtPath(b, path) == {i \in Items(b) : About(b, i) = path}
Under(b, path) == {i \in Items(b) : IsPrefix(path, About(b, i))}

\* A table with no header of its own is there when one inside it is.
IsTable(b, path) == path = <<>> \/ \E h \in Headers(b) : IsPrefix(path, b[h].path)

HasValue(b, path) == \E i \in AtPath(b, path) : b[i].kind = "pair"

WayTo(path) == {SubSeq(path, 1, k) : k \in 0..(Len(path) - 1)}

\* toml_edit keeps the comments above a line with it, and those at the end with the document.
WithComments(b, i) == {k \in 1..i : \A j \in k..(i - 1) : b[j].kind = "comment"}

Less(b, gone) ==
    LET kept == SelectSeq([i \in DOMAIN b |-> i], LAMBDA i : i \notin gone) IN
    [k \in DOMAIN kept |-> b[kept[k]]]

Without(b, path) == Less(b, UNION {WithComments(b, i) : i \in Under(b, path)})

\* Document::remove: a key, or a table with all in it.  Something that is no table on the way, or
\* nothing, and there is nothing to remove.
RemoveIn(b, path) ==
    IF \A way \in WayTo(path) : IsTable(b, way)
    THEN Without(b, path)
    ELSE b

\* The last line of a table's own; of the root's when h is 0.
EndOf(b, h) == Highest({h} \cup {i \in Items(b) \ Headers(b) : Over(b, i) = h})

\* toml_edit writes a table without a place of its own behind the one before it in the tree, whose
\* branches are in the order they first appear.
FirstOf(b, path) == Lowest({h \in Headers(b) : IsPrefix(path, b[h].path)})
BeforeInTree(b, p, q) ==
    IsPrefix(p, q) \/ \E k \in DOMAIN p \cap DOMAIN q :
        /\ SubSeq(p, 1, k - 1) = SubSeq(q, 1, k - 1) /\ p[k] # q[k]
        /\ FirstOf(b, SubSeq(p, 1, k)) < FirstOf(b, SubSeq(q, 1, k))

TableBefore(b, table) ==
    LET there == {way \in WayTo(table) : IsTable(b, way)}
        nearest == CHOOSE way \in there : \A other \in there : Len(other) <= Len(way)
        inside == {h \in Headers(b) : IsPrefix(nearest, b[h].path)}
    IN  IF inside = {} THEN 0
        ELSE CHOOSE h \in inside : \A g \in inside : BeforeInTree(b, b[g].path, b[h].path)

\* A new key goes last in its table, and a table that has none of its own gets a header for it.
AddTo(b, table, pair) ==
    LET own == {h \in Headers(b) : b[h].path = table} IN
    IF table = <<>> \/ own # {}
    THEN InsertAt(b, EndOf(b, IF table = <<>> THEN 0 ELSE Lowest(own)) + 1, pair)
    ELSE LET k == EndOf(b, TableBefore(b, table)) + 1 IN InsertAt(InsertAt(b, k, pair), k, Header(table))

\* Mutant of SetIn: a value is assigned anew, and what is beside it goes.
SetAnew(b, path, value) ==
    IF HasValue(b, path)
    THEN [i \in DOMAIN b |-> IF i \in AtPath(b, path) THEN Pair(Last(path), value) ELSE b[i]]
    ELSE AddTo(Without(b, path), Front(path), Pair(Last(path), value))

\* Document::set_string: a value is replaced where it is, with what is beside it; a table is replaced
\* by the value, with all in it.
SetIn(b, path, value) ==
    IF HasValue(b, path)
    THEN [i \in DOMAIN b |-> IF i \in AtPath(b, path) THEN [b[i] EXCEPT !.value = value] ELSE b[i]]
    ELSE AddTo(Without(b, path), Front(path), Pair(Last(path), value))

\* NotATable: a value where a table should be, on the way to the key.
NoTableOnTheWay(b, path) == \E way \in WayTo(path) : HasValue(b, way)
-----------------------------------------------------------------------------
(* The envelope.  A file is its lines and how each of them ends. *)

\* One CRLF makes a file a CRLF file.  A file that is empty does not lack an end.
Strip(f) ==
    [file |-> f,     \* history: what was read
     bom |-> f.bom,
     crlf |-> "crlf" \in Range(f.ends),
     final |-> f.ends = <<>> \/ Last(f.ends) # "none",
     body |-> f.lines]

Restore(d) ==
    [bom |-> d.bom,
     lines |-> d.body,
     ends |-> [i \in DOMAIN d.body |->
                  IF i = Len(d.body) /\ ~d.final THEN "none" ELSE IF d.crlf THEN "crlf" ELSE "lf"]]

\* Mutant of Preserved: no round trip.
PreservedAnyway(f) == TRUE

\* The round trip before any edit: a file that would not come back as it is is refused.
Preserved(f) == Restore(Strip(f)) = f
=============================================================================
