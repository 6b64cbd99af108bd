------------------------------- MODULE Editor -------------------------------
(***************************************************************************)
(* core/src/json.rs: a JSON document edited in place.  An edit cuts a      *)
(* range out of the text, puts something else there and reads the whole    *)
(* text again; a text that can no longer be read is refused and the        *)
(* document stays as it was.                                               *)
(*                                                                         *)
(* A document is a sequence of tokens: punctuation, a string, a scalar, a  *)
(* block comment.  White space is layout, and the newline that ends a line *)
(* comment with it.  A range [from, to) is a range of tokens.              *)
(*                                                                         *)
(* Documents of the third format are those of module Toml, whose edits are *)
(* asked for in the same way.                                              *)
(***************************************************************************)
EXTENDS Toml

CONSTANTS
    Strings,    \* keys, and values that are strings
    Scalars,    \* numbers, true, false, null
    Comments,
    Files,      \* the JSON files as they are opened: [tolerance, doc]
    TomlFiles,  \* the TOML files: [bom, lines, ends]
    Edits       \* tolerance -> the edits asked of a file of that format

VARIABLES
    doc,        \* Document::bytes
    tolerance,  \* "strict" or "jsonc"; "toml"
    edit,       \* the last edit asked for
    answer      \* how it went: "done" or "refused"

vars == <<doc, tolerance, edit, answer>>

NoEdit == [op |-> "open", path |-> <<>>, value |-> <<>>]
-----------------------------------------------------------------------------
(* Reading.  A node has its kind, its range and, when it is an object, its members in order. *)

Unreadable == [ok |-> FALSE]

At(t, i) == IF i \in DOMAIN t THEN t[i] ELSE "end"

\* skip_whitespace: comments are content in JSONC and nowhere else.
RECURSIVE Skip(_, _)
Skip(t, i) == IF tolerance = "jsonc" /\ At(t, i) \in Comments THEN Skip(t, i + 1) ELSE i

Node(kind, from, to, members) ==
    [ok |-> TRUE, kind |-> kind, from |-> from, to |-> to, members |-> members]

RECURSIVE Value(_, _), Object(_, _, _, _), Array(_, _, _)

Value(t, i) ==
    CASE At(t, i) = "{" -> Object(t, i, i + 1, <<>>)
      [] At(t, i) = "[" -> Array(t, i, i + 1)
      [] At(t, i) \in Strings \cup Scalars -> Node("opaque", i, i + 1, <<>>)
      [] OTHER -> Unreadable

\* The object that opened at `from`, read as far as i.  A comma before the brace is an error in strict
\* JSON, and a key seen before is one in both.
Object(t, from, i, members) ==
    LET j == Skip(t, i)
        colon == Skip(t, j + 1)
        val == Value(t, Skip(t, colon + 1))
        sep == Skip(t, val.to)
        all == Append(members, [key |-> t[j], from |-> j, to |-> val.to, val |-> val])
    IN  CASE At(t, j) = "}" /\ (members # <<>> /\ At(t, i - 1) = "," => tolerance = "jsonc") ->
                 Node("object", from, j + 1, members)
          [] At(t, j) \in Strings /\ At(t, colon) = ":" /\ (\A m \in Range(members) : m.key # t[j])
             /\ val.ok /\ At(t, sep) \in {",", "}"} ->
                 Object(t, from, IF t[sep] = "," THEN sep + 1 ELSE sep, all)
          [] OTHER -> Unreadable

\* array() does not look at the tolerance: a comma before the bracket passes in both.
Array(t, from, i) ==
    LET j == Skip(t, i)
        val == Value(t, j)
        sep == Skip(t, val.to)
    IN  CASE At(t, j) = "]" -> Node("opaque", from, j + 1, <<>>)
          [] At(t, j) # "]" /\ val.ok /\ At(t, sep) \in {",", "]"} ->
                 Array(t, from, IF t[sep] = "," THEN sep + 1 ELSE sep)
          [] OTHER -> Unreadable

\* parse_root: one value, and nothing after it.
Root(t) ==
    LET val == Value(t, Skip(t, 1)) IN
    IF val.ok /\ Skip(t, val.to) = Len(t) + 1 THEN val ELSE Unreadable

Named(node, key) == {m \in Range(node.members) : m.key = key}

\* The member at a path, as a set of one or none.
RECURSIVE Member(_, _)
Member(node, path) ==
    IF Len(path) = 1 THEN Named(node, path[1])
    ELSE UNION {Member(m.val, Tail(path)) : m \in Named(node, path[1])}

\* The object whose member that would be.
Parent(node, path) ==
    IF Len(path) = 1 THEN node ELSE (CHOOSE m \in Member(node, Front(path)) : TRUE).val
-----------------------------------------------------------------------------
(* Editing.  An edit comes to a document and whether it was done. *)

Done(t) == [ok |-> TRUE, doc |-> t]
Refused(t) == [ok |-> FALSE, doc |-> t]

Cut(t, from, to, put) == SubSeq(t, 1, from - 1) \o put \o SubSeq(t, to, Len(t))

Splice(t, from, to, put) ==
    IF Root(Cut(t, from, to, put)).ok THEN Done(Cut(t, from, to, put)) ELSE Refused(t)

\* Style::nested: "a": {"b": {"c": value}}.
RECURSIVE Nested(_, _)
Nested(path, value) ==
    <<path[1], ":">> \o
        IF Len(path) = 1 THEN value ELSE <<"{">> \o Nested(Tail(path), value) \o <<"}">>

\* Mutant of Insert: the member is put in front of the closing brace.
RECURSIVE InsertAtBrace(_, _, _, _)
InsertAtBrace(t, node, path, value) ==
    IF node.kind # "object" THEN Refused(t)
    ELSE IF Named(node, path[1]) # {}
    THEN InsertAtBrace(t, (CHOOSE m \in Named(node, path[1]) : TRUE).val, Tail(path), value)
    ELSE Splice(t, node.to - 1, node.to - 1,
                (IF node.members = <<>> THEN <<>> ELSE <<",">>) \o Nested(path, value))

\* plan_set of a path that is not there: down as far as the file goes, then what is missing as one
\* literal behind the last member.  Something that is no object on the way is refused.
RECURSIVE Insert(_, _, _, _)
Insert(t, node, path, value) ==
    LET at == IF node.members = <<>> THEN node.from + 1 ELSE Last(node.members).to
        put == (IF node.members = <<>> THEN <<>> ELSE <<",">>) \o Nested(path, value)
    IN  IF node.kind # "object" THEN Refused(t)
        ELSE IF Named(node, path[1]) = {} THEN Splice(t, at, at, put)
        ELSE Insert(t, (CHOOSE m \in Named(node, path[1]) : TRUE).val, Tail(path), value)

\* plan_set, with any value in place of the string: ensure_object puts an empty object there instead.
Put(t, path, value) ==
    IF Member(Root(t), path) = {} THEN Insert(t, Root(t), path, value)
    ELSE LET m == CHOOSE m \in Member(Root(t), path) : TRUE
         IN  Splice(t, m.val.from, m.val.to, value)

\* Mutant of Cutting: the last member leaves its comma behind.
CuttingLeavesComma(node, m) ==
    LET k == CHOOSE k \in DOMAIN node.members : node.members[k] = m IN
    IF Len(node.members) = 1 THEN <<node.from + 1, node.to - 1>>
    ELSE IF k < Len(node.members) THEN <<m.from, node.members[k + 1].from>>
    ELSE <<m.from, m.to>>

\* What `remove` cuts out: everything in the object when the member is its only one; on to the next
\* member; or, of the last, back to the one before.
Cutting(node, m) ==
    LET k == CHOOSE k \in DOMAIN node.members : node.members[k] = m IN
    IF Len(node.members) = 1 THEN <<node.from + 1, node.to - 1>>
    ELSE IF k < Len(node.members) THEN <<m.from, node.members[k + 1].from>>
    ELSE <<node.members[k - 1].to, m.to>>

Excise(t, path) ==
    IF Member(Root(t), path) = {} THEN Done(t)
    ELSE LET m == CHOOSE m \in Member(Root(t), path) : TRUE
             range == Cutting(Parent(Root(t), path), m)
         IN  Splice(t, range[1], range[2], <<>>)

Holds(t, node, s) == \E i \in node.from..(node.to - 1) : t[i] = s

\* Mutant of Push: it does not look for the string first.
PushAgain(t, path, s) ==
    IF Member(Root(t), path) = {} THEN Done(t)
    ELSE LET list == (CHOOSE m \in Member(Root(t), path) : TRUE).val IN
         IF t[list.to - 1] # "]" THEN Done(t)
         ELSE Splice(t, list.to - 1, list.to - 1,
                     IF t[list.to - 2] = "[" THEN <<s>> ELSE <<",", s>>)

\* push_string: only to a list that is there, once, in front of its bracket; a comma goes first unless
\* the bracket follows the opening one.
Push(t, path, s) ==
    IF Member(Root(t), path) = {} THEN Done(t)
    ELSE LET list == (CHOOSE m \in Member(Root(t), path) : TRUE).val IN
         IF t[list.to - 1] # "]" \/ Holds(t, list, s) THEN Done(t)
         ELSE Splice(t, list.to - 1, list.to - 1,
                     IF t[list.to - 2] = "[" THEN <<s>> ELSE <<",", s>>)

\* remove_from_array: the first element that is the string, with the comma right before it.
Unpush(t, path, s) ==
    IF Member(Root(t), path) = {} THEN Done(t)
    ELSE LET list == (CHOOSE m \in Member(Root(t), path) : TRUE).val
             i == CHOOSE i \in list.from..(list.to - 1) :
                      t[i] = s /\ \A j \in list.from..(i - 1) : t[j] # s
         IN  IF ~Holds(t, list, s) THEN Done(t)
             ELSE Splice(t, IF i > list.from /\ t[i - 1] = "," THEN i - 1 ELSE i, i + 1, <<>>)
-----------------------------------------------------------------------------
(* A document is opened and then edited any number of times, as the adapters do. *)

InToml == tolerance = "toml"

Init ==
    /\ \/ \E f \in Files : doc = f.doc /\ tolerance = f.tolerance
       \/ \E f \in TomlFiles : Preserved(f) /\ doc = Strip(f) /\ tolerance = "toml"
    /\ edit = NoEdit
    /\ answer = "done"

Asked(op) == {e \in Edits[tolerance] : e.op = op}

Becomes(e, r) ==
    /\ doc' = r.doc
    /\ answer' = IF r.ok THEN "done" ELSE "refused"
    /\ edit' = e
    /\ UNCHANGED tolerance

SetToml(d, path, value) ==
    IF NoTableOnTheWay(d.body, path) THEN Refused(d)
    ELSE Done([d EXCEPT !.body = SetIn(d.body, path, value)])

RemoveToml(d, path) == Done([d EXCEPT !.body = RemoveIn(d.body, path)])

SetString ==
    \E e \in Asked("set_string") :
        Becomes(e, IF InToml THEN SetToml(doc, e.path, e.value[1]) ELSE Put(doc, e.path, e.value))

\* A member that is there is left alone, whatever it is.
EnsureObject ==
    \E e \in Asked("ensure_object") :
        Becomes(e, IF Member(Root(doc), e.path) # {} THEN Done(doc) ELSE Put(doc, e.path, e.value))

RemoveKey ==
    \E e \in Asked("remove") :
        Becomes(e, IF InToml THEN RemoveToml(doc, e.path) ELSE Excise(doc, e.path))

PushString == \E e \in Asked("push_string") : Becomes(e, Push(doc, e.path, e.value[1]))

RemoveFromArray ==
    \E e \in Asked("remove_from_array") : Becomes(e, Unpush(doc, e.path, e.value[1]))

\* The bytes are written, and read at the next switch.  Of a JSON document they are all there is.
Reopen ==
    /\ InToml /\ edit.op # "open"
    /\ Becomes(NoEdit, Done(Strip(Restore(doc))))

Next == SetString \/ EnsureObject \/ RemoveKey \/ PushString \/ RemoveFromArray \/ Reopen

Spec == Init /\ [][Next]_vars
-----------------------------------------------------------------------------
(* What a document says, comments, commas and layout aside. *)

RECURSIVE Says(_, _)
Says(t, node) ==
    [text |-> IF node.kind = "object" THEN <<>>
              ELSE SelectSeq(SubSeq(t, node.from, node.to - 1), LAMBDA x : x \notin Comments \cup {","}),
     object |-> node.kind = "object",
     members |-> [i \in DOMAIN node.members |->
                     <<node.members[i].key, Says(t, node.members[i].val)>>]]

Leaf(text) == [text |-> text, object |-> FALSE, members |-> <<>>]
EmptyObject == [text |-> <<>>, object |-> TRUE, members |-> <<>>]

There(said, key) == {i \in DOMAIN said.members : said.members[i][1] = key}

\* The same with the member at the path made by F from what it was, or from `missing`.
RECURSIVE Having(_, _, _)
Having(said, path, new) ==
    IF path = <<>> THEN new
    ELSE IF There(said, path[1]) = {}
    THEN [said EXCEPT !.members = Append(@, <<path[1], Having(EmptyObject, Tail(path), new)>>)]
    ELSE [said EXCEPT !.members = [i \in DOMAIN @ |->
             IF @[i][1] = path[1] THEN <<path[1], Having(@[i][2], Tail(path), new)>> ELSE @[i]]]

RECURSIVE Lacking(_, _)
Lacking(said, path) ==
    IF Len(path) = 1
    THEN [said EXCEPT !.members = SelectSeq(@, LAMBDA m : m[1] # path[1])]
    ELSE [said EXCEPT !.members = [i \in DOMAIN @ |->
             IF @[i][1] = path[1] THEN <<path[1], Lacking(@[i][2], Tail(path))>> ELSE @[i]]]

Found(t, path) == Member(Root(t), path) # {}
Text(t, path) == Says(t, (CHOOSE m \in Member(Root(t), path) : TRUE).val).text
IsList(t, path) == Found(t, path) /\ Last(Text(t, path)) = "]"

\* What an edit that was done is meant to have made of a document.
Meant(t, e) ==
    LET said == Says(t, Root(t)) IN
    CASE e.op = "set_string" -> Having(said, e.path, Leaf(e.value))
      [] e.op = "ensure_object" -> IF Found(t, e.path) THEN said ELSE Having(said, e.path, EmptyObject)
      [] e.op = "remove" -> IF Found(t, e.path) THEN Lacking(said, e.path) ELSE said
      [] e.op = "push_string" ->
             IF IsList(t, e.path) /\ e.value[1] \notin Range(Text(t, e.path))
             THEN Having(said, e.path, Leaf(Front(Text(t, e.path)) \o e.value \o <<"]">>))
             ELSE said
      [] e.op = "remove_from_array" ->
             IF IsList(t, e.path)
             THEN Having(said, e.path, Leaf(RemoveFirst(Text(t, e.path), e.value[1])))
             ELSE said

\* A TOML document says which keys have which values and which tables have a header, in order.
SaidIn(b, T) ==
    LET lines == SelectSeq([i \in DOMAIN b |-> i], LAMBDA i : i \in T) IN
    [k \in DOMAIN lines |-> <<b[lines[k]].kind, About(b, lines[k]), b[lines[k]].value>>]

ExactInToml(d, now, e) ==
    LET b == d.body
        c == now.body
        others == SaidIn(b, Items(b) \ Under(b, e.path))
        table == Front(e.path)
        added == IF AtPath(b, table) # {} THEN {} ELSE AtPath(c, table) IN
    /\ [now EXCEPT !.body = b] = d
    /\ IF e.op = "remove"
       THEN IF \E way \in WayTo(e.path) : HasValue(b, way)
            THEN c = b
            ELSE Under(c, e.path) = {} /\ SaidIn(c, Items(c)) = others
       ELSE /\ SaidIn(c, Under(c, e.path)) = <<<<"pair", e.path, e.value[1]>>>>
            /\ SaidIn(c, Items(c) \ (Under(c, e.path) \cup added)) = others

\* Where an edit may take a comment away: inside the value it replaces, and between the member it
\* removes and its neighbours, or the braces.
Touched(t, e) ==
    IF e.op \notin {"set_string", "remove"} \/ ~Found(t, e.path) THEN <<1, 1>>
    ELSE LET m == CHOOSE m \in Member(Root(t), e.path) : TRUE
             node == Parent(Root(t), e.path)
             before == {n.to : n \in {n \in Range(node.members) : n.from < m.from}} \cup {node.from + 1}
             after == {n.from : n \in {n \in Range(node.members) : n.from > m.from}} \cup {node.to - 1}
         IN  IF e.op = "set_string" THEN <<m.val.from, m.val.to>>
             ELSE <<CHOOSE i \in before : \A j \in before : j <= i,
                    CHOOSE i \in after : \A j \in after : i <= j>>

CommentsOf(t) == SelectSeq(t, LAMBDA x : x \in Comments)

\* In TOML, with the lines an edit removes, above or beside them.
CommentsBut(b, gone) ==
    SelectSeq([i \in DOMAIN b |-> IF i \in gone THEN "" ELSE b[i].beside], LAMBDA x : x # "")

TakenInToml(b, e) ==
    IF e.op = "remove" \/ (e.op = "set_string" /\ ~HasValue(b, e.path))
    THEN UNION {WithComments(b, i) : i \in Under(b, e.path)} ELSE {}

\* A list a push or a removal from it has to refuse: see README.
TrailingComma(t, path) ==
    LET list == (CHOOSE m \in Member(Root(t), path) : TRUE).val
    IN  \/ \E i \in list.from..(list.to - 1) :
              t[i] = "," /\ \A j \in (i + 1)..(list.to - 2) : t[j] \in Comments
        \/ Text(t, path) = <<"[", "]">> /\ list.to - list.from > 2
FirstOfMany(t, path, s) == Len(Text(t, path)) > 3 /\ Text(t, path)[2] = s
-----------------------------------------------------------------------------
(* PROPERTIES *)

\* json.rs: "Edits are byte-range splices, never a re-serialisation".  An edit that was done says what it
\* was asked to say, at its path, and everything else is what it was, in the order it was.
EditsAreExact ==
    [][IF answer' = "refused" THEN doc' = doc
       ELSE IF InToml THEN edit'.op = "open" \/ ExactInToml(doc, doc', edit')
       ELSE Says(doc', Root(doc')) = Meant(doc, edit')]_vars

\* json.rs: "comments ... survive"; toml.rs: toml_edit "keeps comments, spacing and item order".  No edit
\* loses, repeats or moves past one another the comments outside what it replaces or removes.
CommentsSurvive ==
    [][IF InToml
       THEN CommentsBut(doc'.body, {}) = CommentsBut(doc.body, TakenInToml(doc.body, edit'))
       ELSE LET zone == Touched(doc, edit')
                before == CommentsOf(SubSeq(doc, 1, zone[1] - 1))
                after == CommentsOf(SubSeq(doc, zone[2], Len(doc)))
                now == CommentsOf(doc')
            IN  /\ IsPrefix(before, now) /\ IsSuffix(after, now)
                /\ Len(before) + Len(after) <= Len(now) /\ Len(now) <= Len(CommentsOf(doc))]_vars

\* json.rs, NotAnObject: an edit is refused only when something that is no object is in the way to its
\* key or no list is where the list should be, and for the lists README names.
RefusedForShape ==
    [][answer' = "refused" =>
          IF InToml
          THEN edit'.op = "set_string" /\ \E way \in WayTo(edit'.path) : HasValue(doc.body, way)
          ELSE
          \/ /\ edit'.op \in {"set_string", "ensure_object"}
             /\ \E k \in 0..(Len(edit'.path) - 1) :
                    LET way == SubSeq(edit'.path, 1, k) IN
                    IF k = 0 THEN Root(doc).kind # "object"
                    ELSE \E m \in Member(Root(doc), way) : m.val.kind # "object"
          \/ edit'.op = "push_string" /\ TrailingComma(doc, edit'.path)
          \/ /\ edit'.op = "remove_from_array"
             /\ ~IsList(doc, edit'.path) \/ FirstOfMany(doc, edit'.path, edit'.value[1])]_vars

\* An edit that adds, and then its opposite.
NoTrailInToml(d, e) ==
    LET added == SetToml(d, e.path, e.value[1]) IN
    \/ e.op # "set_string" \/ ~added.ok
    \/ Under(d.body, e.path) # {} \/ ~IsTable(d.body, Front(e.path))
    \/ RemoveToml(added.doc, e.path).doc = d

NoTrail(t, e) ==
    LET added == IF e.op = "push_string" THEN Push(t, e.path, e.value[1])
                 ELSE Put(t, e.path, e.value)
        removed == IF e.op = "push_string" THEN Unpush(added.doc, e.path, e.value[1])
                   ELSE Excise(added.doc, e.path)
    IN  \/ e.op \notin {"set_string", "ensure_object", "push_string"}
        \/ ~added.ok \/ added.doc = t
        \/ e.op # "push_string" /\ Found(t, e.path)
        \/ Len(e.path) > 1 /\ ~Found(t, Front(e.path))
        \/ e.op # "push_string" /\ Parent(Root(t), e.path).members = <<>>
           /\ Parent(Root(t), e.path).to - Parent(Root(t), e.path).from > 2
        \/ removed.ok /\ removed.doc = t

\* json.rs, remove: "adding then removing the same key would leave a trail, so idempotence would hold only
\* by luck".  A member added to an object that is there, and an element added to a list, are taken away
\* without a trace, unless the object was empty but for comments.
LeavesNoTrail ==
    \A e \in Edits[tolerance] : IF InToml THEN NoTrailInToml(doc, e) ELSE NoTrail(doc, e)

\* toml.rs: "All three are preserved by decision".  What is written has the byte order mark, the line
\* ends and the end of the last line that the file had, through any number of switches, as long as there
\* is a line to have them; and when all edits leave things as they are, it is the file there was.
EnvelopeKept ==
    [][InToml /\ edit'.op = "open" =>
          /\ doc.body = doc.file.lines => doc'.file = doc.file
          /\ doc'.body = doc.body /\ doc'.bom = doc.bom
          /\ doc'.final = doc.final \/ doc.body = <<>>
          /\ doc'.crlf = doc.crlf \/ Len(doc.body) = 0 \/ (Len(doc.body) = 1 /\ ~doc.final)]_vars
=============================================================================
