----------------------------- MODULE FilePanels -----------------------------
(***************************************************************************)
(* The two-pane file browser of the SSH shell (net/FileBrowser.cpp over      *)
(* net/PosixFileOperations.cpp).                                             *)
(*                                                                         *)
(* A panel shows the listing it read last, with a row for `..` above it in a *)
(* subdirectory; only the active panel is read again, and only after an      *)
(* operation of its own.  The files also change under it: the other panel,   *)
(* the web page and another session work on the same volumes.                *)
(*                                                                         *)
(* A path is a sequence of numbers, the volume first; a name is a number, so *)
(* that names are ordered.  Which paths are directories is fixed.            *)
(***************************************************************************)
EXTENDS Naturals, FiniteSets, SequencesExt

CONSTANTS
    Path,               \* the paths there may be, the roots of the volumes aside
    DirPath             \* those of them that are directories

ASSUME PanelAssumption ==
    /\ IsFiniteSet(Path) /\ DirPath \subseteq Path
    /\ \A p \in Path : p \in Seq(Nat) /\ Len(p) > 1 /\ p[1] \in {1, 2}

Up == 0                 \* the row `..`; no name is 0
Nothing == <<>>         \* no entry
Side == {1, 2}

VARIABLES
    disk,               \* the paths that exist
    panel,              \* panels_: directory, listing, whether `..` is shown, cursor
    side,               \* active_
    mode,               \* mode_ and promptAction_
    subject             \* the entry the open prompt was asked for

panelVars == <<disk, panel, side, mode, subject>>

Root(v) == <<v>>
Exists(p) == Len(p) = 1 \/ p \in disk
Within(d, p) == Len(d) <= Len(p) /\ SubSeq(p, 1, Len(d)) = d
IsDir(p) == Len(p) = 1 \/ p \in DirPath
Prompts == {"NewFile", "NewDirectory", "Rename", "Copy"}

PanelsTypeOK ==
    /\ disk \subseteq Path
    /\ \A i \in Side :
        /\ IsDir(panel[i].dir)
        /\ panel[i].entries \in Seq(Path)
        /\ panel[i].parent = (Len(panel[i].dir) > 1)
        /\ panel[i].cursor \in 0..Len(panel[i].entries)
    /\ side \in Side
    /\ mode \in {"Browse", "View"} \cup Prompts
    /\ subject \in Path \cup {Nothing}

-----------------------------------------------------------------------------
\* opendir and readdir, sorted by name; nothing when the directory is gone.
listed(d, files) ==
    LET children == {p \in files : Front(p) = d}
        upTo(p) == {q \in children : Last(q) <= Last(p)}
    IN IF Len(d) > 1 /\ d \notin files THEN <<>>
       ELSE [i \in 1..Cardinality(children) |-> CHOOSE p \in children : Cardinality(upTo(p)) = i]

rows(p) == Len(p.entries) + (IF p.parent THEN 1 ELSE 0)

\* The name the cursor was on.  The listing is asked for the cursor's own
\* number, `..` or not.
keep(p) ==
    IF p.cursor < Len(p.entries) THEN <<Last(p.entries[p.cursor + 1])>>
    ELSE IF p.cursor = 0 /\ p.parent THEN <<Up>> ELSE Nothing

\* reload: the directory is read again, and the cursor looks for that name.
reload(p, files) ==
    LET entries == listed(p.dir, files)
        new == [p EXCEPT !.entries = entries, !.parent = Len(p.dir) > 1]
        at == {i \in 1..Len(entries) : <<Last(entries[i])>> = keep(p)}
        wanted == IF at = {} THEN 0 ELSE (CHOOSE i \in at : TRUE) - 1
    IN [new EXCEPT !.cursor = IF rows(new) = 0 THEN 0 ELSE Min({wanted, rows(new) - 1})]

\* The entry under the cursor.
selected(p) ==
    LET i == IF p.parent THEN p.cursor ELSE p.cursor + 1 IN
    IF i \in 1..Len(p.entries) THEN p.entries[i] ELSE Nothing

\* The row the screen paints in the colour of the cursor.
shown(p) ==
    IF p.parent /\ p.cursor = 0 THEN Nothing
    ELSE LET at == p.cursor - (IF p.parent THEN 1 ELSE 0)
         IN IF at >= Len(p.entries) THEN Nothing ELSE p.entries[at + 1]

opened(v, files) == reload([dir |-> Root(v), entries |-> <<>>, parent |-> FALSE, cursor |-> 0], files)

PanelsInit ==
    /\ disk \in {files \in SUBSET Path : \A p \in files : Len(p) > 2 => Front(p) \in files}
    /\ panel = [i \in Side |-> opened(1, disk)]
    /\ side = 1
    /\ mode = "Browse"
    /\ subject = Nothing

current == panel[side]

-----------------------------------------------------------------------------
\* Up, Down, Home, End and the pages.
moveCursor ==
    /\ mode = "Browse" /\ rows(current) > 0
    /\ \E to \in {current.cursor - 1, current.cursor + 1, 0, rows(current) - 1} :
        /\ to \in 0..rows(current) - 1
        /\ panel' = [panel EXCEPT ![side].cursor = to]
    /\ UNCHANGED <<disk, side, mode, subject>>

tab ==
    /\ mode = "Browse"
    /\ side' = 3 - side
    /\ UNCHANGED <<disk, panel, mode, subject>>

\* Alt+F1, Alt+F2.  The cursor is set to the top before the name it is on is
\* looked up, in the listing of the directory that is left.
switchVolume(i) ==
    /\ mode = "Browse"
    /\ LET p == panel[i] IN
        panel' = [panel EXCEPT ![i] = reload([p EXCEPT !.dir = Root(3 - p.dir[1]), !.cursor = 0], disk)]
    /\ UNCHANGED <<disk, side, mode, subject>>

\* To the root of the volume; the cursor goes to the directory that is left.
goUp ==
    /\ mode = "Browse" /\ Len(current.dir) > 1
    /\ LET p == reload([current EXCEPT !.dir = Root(@[1])], disk)
           left == {i \in 1..Len(p.entries) : p.entries[i] = current.dir}
       IN panel' = [panel EXCEPT ![side] =
            IF left = {} THEN p ELSE [p EXCEPT !.cursor = (CHOOSE i \in left : TRUE) - 1]]
    /\ UNCHANGED <<disk, side, mode, subject>>

\* Enter on a directory.
openSelected ==
    /\ mode = "Browse" /\ selected(current) \in DirPath
    /\ panel' = [panel EXCEPT ![side] =
                    reload([@ EXCEPT !.dir = selected(current), !.cursor = 0], disk)]
    /\ UNCHANGED <<disk, side, mode, subject>>

\* F3, or Enter on a file: it may be gone, too large or no text.
startView ==
    /\ mode = "Browse" /\ selected(current) \in disk \ DirPath
    /\ mode' = "View"
    /\ UNCHANGED <<disk, panel, side, subject>>

handleView ==
    /\ mode = "View"
    /\ mode' = "Browse"
    /\ UNCHANGED <<disk, panel, side, subject>>

\* F4 to F7: copy and rename ask about the entry under the cursor.
openPrompt(action) ==
    /\ mode = "Browse"
    /\ action \in {"Rename", "Copy"} => selected(current) # Nothing
    /\ mode' = action
    /\ subject' = IF action \in {"Rename", "Copy"} THEN selected(current) ELSE Nothing
    /\ UNCHANGED <<disk, panel, side>>

\* Escape.
handlePrompt ==
    /\ mode \in Prompts
    /\ mode' = "Browse"
    /\ subject' = Nothing
    /\ UNCHANGED <<disk, panel, side>>

\* F10 or Ctrl+C, and `mc` typed again.
browserOpens ==
    /\ panel' = [i \in Side |-> opened(1, disk)]
    /\ side' = 1
    /\ mode' = "Browse"
    /\ subject' = Nothing
    /\ UNCHANGED disk

-----------------------------------------------------------------------------
room(p) == Exists(Front(p)) /\ IsDir(Front(p))

moved(from, to) ==
    (disk \ {p \in disk : Within(from, p)})
        \cup {to \o SubSeq(p, Len(from) + 1, Len(p)) : p \in {q \in disk : Within(from, q)}}

\* What an operation leaves when it succeeds: fopen "ab", mkdir, rename (which
\* FatFs refuses onto an existing name or another volume), copy.
done(action, from, to) ==
    CASE action = "NewFile" -> IF to \notin DirPath /\ room(to) THEN {disk \cup {to}} ELSE {}
      [] action = "NewDirectory" ->
            IF to \in DirPath \ disk /\ room(to) THEN {disk \cup {to}} ELSE {}
      [] action = "Rename" ->
            IF from \in disk /\ to \notin disk /\ room(to) /\ to[1] = from[1]
                    /\ ~Within(from, to) /\ moved(from, to) \subseteq Path
                    /\ (from \in DirPath <=> to \in DirPath)
            THEN {moved(from, to)} ELSE {}
      [] action = "Copy" ->
            IF from \in disk \ DirPath /\ to \notin DirPath /\ room(to) THEN {disk \cup {to}} ELSE {}

\* What it leaves when it fails: a copy that could not be written takes the
\* target away, one that was there before included.
failed(action, to) == {disk} \cup (IF action = "Copy" THEN {disk \ ({to} \ DirPath)} ELSE {})

\* Enter: the operation on the entry the cursor is on now, and then the active
\* panel, and only that one, is read again.
applyPrompt(to) ==
    /\ mode \in Prompts
    /\ mode' = "Browse"
    /\ subject' = Nothing
    /\ \/ /\ disk' \in done(mode, selected(current), to)
          /\ panel' = [panel EXCEPT ![side] = reload(@, disk')]
       \/ /\ disk' \in failed(mode, to)
          /\ UNCHANGED panel
    /\ UNCHANGED side

\* F8, without a question.  A tree that could not be removed entirely has lost
\* a part of it, and the panel is not read again.
doDelete ==
    /\ mode = "Browse"
    /\ LET target == selected(current)
           tree == {p \in disk : Within(target, p)}
       IN /\ target \in disk
          /\ \/ disk' = disk \ tree /\ panel' = [panel EXCEPT ![side] = reload(@, disk')]
             \/ disk' \in {disk \ lost : lost \in SUBSET (tree \ {target})} /\ UNCHANGED panel
    /\ UNCHANGED <<side, mode, subject>>

\* The web page or another session.
filesChange ==
    /\ \E p \in Path :
        disk' = IF p \in disk THEN disk \ {q \in disk : Within(p, q)}
                ELSE IF room(p) THEN disk \cup {p} ELSE disk
    /\ UNCHANGED <<panel, side, mode, subject>>

PanelsNext ==
    \/ moveCursor \/ tab \/ goUp \/ openSelected \/ startView \/ handleView \/ doDelete
    \/ handlePrompt \/ browserOpens \/ filesChange
    \/ \E i \in Side : switchVolume(i)
    \/ \E action \in Prompts : openPrompt(action)
    \/ \E to \in Path : applyPrompt(to)

-----------------------------------------------------------------------------
\* The entry a key acts on is the one the screen paints as selected, and the
\* panel shows the volume and directory it works in; F8 asks no question.
KeysActOnShown == \A i \in Side : selected(panel[i]) = shown(panel[i])

\* An answered prompt works on the entry it was opened for, and a rename takes
\* nothing else from the volume, whatever was deleted or made meanwhile.
PromptKeepsSubject ==
    mode = "Rename" /\ mode' = "Browse" => \A p \in disk \ disk' : Within(subject, p)

\* A reload of the directory that is shown leaves the cursor on the name it was
\* on, as long as that name is there.
CursorKeepsName ==
    [][\A i \in Side :
        ( /\ panel'[i] # panel[i] /\ panel'[i].dir = panel[i].dir /\ disk' # disk
          /\ shown(panel[i]) \in Range(panel'[i].entries) )
        => shown(panel'[i]) = shown(panel[i])]_panelVars
=============================================================================
