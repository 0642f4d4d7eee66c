---------------------------- MODULE ConfigEdit ----------------------------
(***************************************************************************)
(* The config file and those who write it: the operator, who may save any  *)
(* text at any moment, and the commands of two editors.  VS Code reads the *)
(* file, lets go of the thread, and writes it back whole (commands.ts);    *)
(* Neovim does the same in one callback (record.lua).  What a command      *)
(* removes is addressed by a position that a collection placed: the CLI    *)
(* read the file, and the editor looked the names up in a later read.      *)
(***************************************************************************)
EXTENDS ConfigText, Functions

CONSTANTS
    Texts,      \* the texts the file may have at first; <<>> is no file
    Saves,      \* what the operator may save over it
    Additions,  \* what may be recorded: [key, entry]
    Inside,     \* <<short, long>>: names that occur within other strings
    MaxBegun,   \* bound: collections and commands in one run
    MaxSaves    \* bound: saves of the operator

\* What the decoder makes of an element by itself.
Within ==
    [Start EXCEPT !.stack = <<"lbrace", "lbrack">>, !.prev = "open", !.entries = [k \in {""} |-> <<>>]]
EntryOf(entry) == Steps(Within, entry)[Len(entry)].entry

\* What the editors write is one value, a string or an object.
IsValue(entry) ==
    LET read == Steps(Within, entry)
    IN /\ entry # <<>>
       /\ \A n \in 1..(Len(entry) - 1) : Level(read[n]) > 2
       /\ Level(read[Len(entry)]) = 2 /\ read[Len(entry)].prev = "value"

ASSUME TextsAssumption == Texts \cup Saves \subseteq Seq(STRING)
ASSUME AdditionsAssumption ==
    \A new \in Additions :
        /\ new.key \in Arrays
        /\ new.entry \in Seq(STRING) /\ IsValue(new.entry)

VARIABLES
    file,       \* the text of the config
    rows,       \* rows[e]: the recorded items an editor shows
    ops,        \* the collections and commands under way
    begun,      \* how many there have been
    saves,      \* saves so far
    edit        \* history: what the last step wrote, if it was a command

editVars == <<file, rows, ops, begun, saves, edit>>

Editors == {"vscode", "nvim"}
NoEdit  == [kind |-> "none"]

EditInit ==
    /\ file \in Texts
    /\ rows = [e \in Editors |-> {}]
    /\ ops = {}
    /\ begun = 0
    /\ saves = 0
    /\ edit = NoEdit

Begin(op) ==
    /\ begun < MaxBegun
    /\ begun' = begun + 1
    /\ ops' = ops \cup {op}
    /\ edit' = NoEdit
    /\ UNCHANGED <<file, rows, saves>>

Save ==
    /\ saves < MaxSaves
    /\ file' \in Saves \ {file}
    /\ saves' = saves + 1
    /\ edit' = NoEdit
    /\ UNCHANGED <<rows, ops, begun>>

-----------------------------------------------------------------------------
(* Collections *)

\* What the CLI reports of the recorded entries, one item each.
Items(text) ==
    UNION {{[key |-> key, name |-> NameOf(key, e)] : e \in Range(Entries(text, key))} :
              key \in Arrays}

\* The process reads the file.  A file it cannot load ends the collection, and
\* there is one at a time in an editor.
CollectorReads(e) ==
    /\ \A op \in ops : op.kind = "collect" => op.editor # e
    /\ Parses(file)
    /\ Begin([kind |-> "collect", editor |-> e, items |-> Items(file)])

\* withOrigins: the process has ended, the editor reads the file for itself.
Place(op) ==
    /\ op.kind = "collect"
    /\ LET declared == DeclaredIn(file)
       IN rows' = [rows EXCEPT ![op.editor] =
            {[item |-> it, origin |-> declared[it.name]] :
                it \in {it \in op.items : it.name \in DOMAIN declared}}]
    /\ ops' = ops \ {op}
    /\ edit' = NoEdit
    /\ UNCHANGED <<file, begun, saves>>

-----------------------------------------------------------------------------
(* Commands *)

\* removeItem, remove_item: a row was picked, and is asked about; only rows
\* with a place in the file are offered.
AskRemove(e, row) ==
    /\ row \in rows[e]
    /\ Begin([kind |-> "ask", editor |-> e, what |-> row])

\* addItem: the prompts were answered; they look at nothing but the answers, so
\* in VS Code the command begins with the file it awaits.
AddReads(new) == Begin([kind |-> "add", what |-> new, text |-> file])

\* Mutant of NamedOn: the line is taken to be the one that was collected.
NamedAnyway(text, row) == TRUE

\* The line the item was on still has its name somewhere.
NamedOn(text, row) ==
    \E k \in OnLine(text, row.origin.line) :
        text[k] = row.item.name \/ <<row.item.name, text[k]>> \in Inside

\* The text without the row, if it is still to be found.
Removed(editor, text, row) ==
    IF NamedOn(text, row) THEN RemoveEntry(editor, text, row.item.key, row.origin) ELSE NoText

\* The new text, or that the command gives up with a warning: what cannot be
\* read is empty for addItem and the end for removeItem.
NewText(editor, kind, what, text) ==
    IF kind = "add" THEN AddToArray(editor, text, what.key, what.entry)
    ELSE IF text # <<>> THEN Removed(editor, text, what) ELSE NoText

Write(editor, kind, what, read) ==
    LET wrote == NewText(editor, kind, what, read)
    IN IF wrote = NoText THEN edit' = NoEdit /\ UNCHANGED file
       ELSE /\ file' = wrote
            /\ edit' = [kind |-> kind, what |-> what, read |-> read, wrote |-> wrote]

\* VS Code: the answer, and the file it awaits after it.
RemoveReads(op) ==
    /\ op.kind = "ask" /\ op.editor = "vscode"
    /\ ops' = (ops \ {op}) \cup {[kind |-> "remove", what |-> op.what, text |-> file]}
    /\ edit' = NoEdit
    /\ UNCHANGED <<file, rows, begun, saves>>

\* What was read comes back, is changed, and is written whole.
Writes(op) ==
    /\ op.kind \in {"add", "remove"}
    /\ Write("vscode", op.kind, op.what, op.text)
    /\ ops' = ops \ {op}
    /\ UNCHANGED <<rows, begun, saves>>

\* Neovim: no yield between the read and the write.
NvimRemoves(op) ==
    /\ op.kind = "ask" /\ op.editor = "nvim"
    /\ Write("nvim", "remove", op.what, file)
    /\ ops' = ops \ {op}
    /\ UNCHANGED <<rows, begun, saves>>

NvimAdds(new) ==
    /\ begun < MaxBegun
    /\ begun' = begun + 1
    /\ Write("nvim", "add", new, file)
    /\ UNCHANGED <<rows, ops, saves>>

EditNext ==
    \/ Save
    \/ \E e \in Editors :
        \/ CollectorReads(e)
        \/ \E row \in rows[e] : AskRemove(e, row)
    \/ \E new \in Additions : AddReads(new) \/ NvimAdds(new)
    \/ \E op \in ops : Place(op) \/ RemoveReads(op) \/ Writes(op) \/ NvimRemoves(op)

EditSpec == EditInit /\ [][EditNext]_editVars

-----------------------------------------------------------------------------

Without(es, n) == SubSeq(es, 1, n - 1) \o SubSeq(es, n + 1, Len(es))

\* The fields of the object that the decoder finds under a key.
Fields(text, key) ==
    LET read == Steps(Start, text)
    IN {k \in DOMAIN text : text[k] = key /\ read[k].prev = "key" /\ Level(read[k]) = 1}

\* A text that loads, in which the editors look for the arrays where the decoder
\* finds them: each at most once, and nothing behind the object.
Plain(text) ==
    LET read == Steps(Start, text)
    IN /\ Parses(text)
       /\ \A k \in Solid(text) : Over(read[k]) => \A j \in Solid(text) : j <= k
       /\ \A key \in Arrays :
             /\ Keyed(text, key) = Fields(text, key)
             /\ \A j, k \in Fields(text, key) : j = k

\* The key of the array that was edited, and its entries.
EditedKey == IF edit.kind = "add" THEN edit.what.key ELSE edit.what.item.key
Old == Entries(edit.read, EditedKey)
New == Entries(edit.wrote, EditedKey)

\* "Every result has to still be a config the CLI can load" (edit.test.ts:7): of
\* a plain text, in whatever layout, a command makes one that loads, with the new
\* entry at the end of its array, or with one entry of the array of the item
\* gone, and with every other entry of the file as it was.
EditIsOneEntry ==
    edit.kind # "none" /\ (edit.read = <<>> \/ Plain(edit.read)) =>
        /\ Parses(edit.wrote)
        /\ \A other \in (Arrays \cup DOMAIN Reading(edit.read).entries) \ {EditedKey} :
              Entries(edit.wrote, other) = Entries(edit.read, other)
        /\ IF edit.kind = "add" THEN New = Append(Old, EntryOf(edit.what.entry))
           ELSE \E n \in DOMAIN Old : New = Without(Old, n)

\* The tokens of element e that name it.
Naming(text, key, e) ==
    {k \in e[1]..e[2] :
        key = "domains" \/ (text[k] = NameField[key] /\ At(text, After(text, k)) = "colon")}

\* No line has something of two entries, each entry has one name, and the name
\* that is looked for is nowhere else.
Legible(text, name) ==
    LET Line(k) == PositionOf(text, k).line
        entries == UNION {{key} \X Elements(text, ArraySpan(text, key)) :
                             key \in {key \in Arrays : Keyed(text, key) # {}}}
    IN /\ \A x, y \in entries : \A j \in x[2][1]..x[2][2], k \in y[2][1]..y[2][2] :
             Line(j) = Line(k) => x = y
       /\ \A x \in entries : \A j, k \in Naming(text, x[1], x[2]) : j = k
       /\ \A k \in DOMAIN text :
             /\ text[k] = name => k \in UNION {Declaring(text, key) : key \in Arrays}
             /\ <<name, text[k]>> \notin Inside

\* "The file may have been edited since. Removing whatever now sits on that line
\* would delete the wrong entry" (commands.ts:333): however the file changed after
\* the CLI read it, after the item was placed and while the command was asked
\* about, what is removed has the name of the row and is in its array.  It takes
\* a file with one entry on a line, a line that is not shorter than it was, and no
\* name within another, for the check of the line to be enough.
RemovesTheNamed ==
    /\ edit.kind = "remove" /\ Plain(edit.read) /\ Legible(edit.read, edit.what.item.name)
    /\ OffsetOf(edit.read, edit.what.origin) \in OnLine(edit.read, edit.what.origin.line)
    =>  \E n \in DOMAIN Old :
            New = Without(Old, n) /\ NameOf(EditedKey, Old[n]) = edit.what.item.name
=============================================================================
