------------------------------ MODULE FileList ------------------------------
(***************************************************************************)
(* The file manager (usr/apps/files/files.c): the list of a directory with *)
(* its selection and scroll position, and the view of a file.  A path is   *)
(* the sequence of its names, a name is a number in strcmp's order.  open  *)
(* and stat may fail at any time: the kernel's table of open files is      *)
(* shared with all other programs.  Drawing is left out, but for what of   *)
(* the list is on the screen.                                              *)
(***************************************************************************)
EXTENDS Integers, Sequences, SequencesExt

CONSTANTS
    Dirs,           \* the directories: path -> sequence of [name, is_dir]
    MAX_ENTRIES,
    Rows,           \* visible_list_rows: lines of the list on the screen
    MaxLine         \* bound on preview_line

\* The directories are a tree under the root, and a name is in each at most once.
ASSUME ListAssumption ==
    /\ MAX_ENTRIES \in Nat \ {0} /\ Rows \in Nat /\ MaxLine \in Nat
    /\ <<>> \in DOMAIN Dirs /\ DOMAIN Dirs \subseteq Seq(Nat)
    /\ \A p \in DOMAIN Dirs :
          /\ p # <<>> => Front(p) \in DOMAIN Dirs
          /\ Dirs[p] \in Seq([name : Nat, is_dir : BOOLEAN])
          /\ \A i, j \in DOMAIN Dirs[p] : Dirs[p][i].name = Dirs[p][j].name => i = j
          /\ \A i \in DOMAIN Dirs[p] :
                Dirs[p][i].is_dir => Append(p, Dirs[p][i].name) \in DOMAIN Dirs

VARIABLES
    entries,        \* entries[0..entry_count-1], here from 1
    selected,       \* an index from 0, as in the code
    list_top,
    current_path,
    preview_path, preview_line, preview_mode,
    running

list == <<entries, selected, list_top, current_path>>
preview == <<preview_path, preview_line, preview_mode>>
listVars == <<list, preview, running>>

Root == <<>>
Up == -1            \* the name ".."
entry_count == Len(entries)

is_root_path(p) == p = Root
parent_path_of(p) == IF is_root_path(p) THEN Root ELSE Front(p)
join_path(dir, name) == Append(dir, name)

\* Directories come first, then names in order.
entry_less(a, b) ==
    IF a.is_dir # b.is_dir THEN a.is_dir ELSE a.name < b.name

\* A turn of the outer loop of sort_entries: x moves down past the larger ones.
Insert(s, start, x) ==
    LET at == Min({j \in start..Len(s) : \A k \in (j + 1)..Len(s) : entry_less(x, s[k])})
    IN  InsertAt(s, at + 1, x)

sort_entries(start, s) ==
    LET sorted[k \in 0..(Len(s) - start)] ==
            IF k = 0 THEN SubSeq(s, 1, start)
            ELSE Insert(sorted[k - 1], start, s[start + k])
    IN  sorted[Len(s) - start]

-----------------------------------------------------------------------------
(* Loading a directory.                                                    *)

parent_entry(path) == [name |-> Up, path |-> parent_path_of(path), is_dir |-> TRUE]

\* A turn of the reading loop: an entry that stat knows is taken if there is room.
read_entry(path, failed, s, d) ==
    IF Len(s) < MAX_ENTRIES /\ d.name \notin failed
    THEN Append(s, [name |-> d.name, path |-> join_path(path, d.name), is_dir |-> d.is_dir])
    ELSE s

\* The directory's entries behind "..".
read_entries(path, failed) ==
    LET read[k \in 0..Len(Dirs[path])] ==
            IF k > 0 THEN read_entry(path, failed, read[k - 1], Dirs[path][k])
            ELSE IF is_root_path(path) THEN <<>> ELSE <<parent_entry(path)>>
    IN  read[Len(Dirs[path])]

DirNames(path) == {Dirs[path][i].name : i \in DOMAIN Dirs[path]}

rows == IF Rows < 1 THEN 1 ELSE Rows

\* selected and list_top after keep_selected_visible, for a list of n entries.
keep_selected_visible(sel, top, n) ==
    LET low == IF sel < 0 THEN 0 ELSE sel
        last == IF low >= n THEN n - 1 ELSE low
        s == IF last < 0 THEN 0 ELSE last
        t == IF s < top THEN s ELSE top
        u == IF s >= t + rows THEN s - rows + 1 ELSE t
    IN  [selected |-> s, list_top |-> IF u < 0 THEN 0 ELSE u]

Select(sel, top, n) ==
    LET v == keep_selected_visible(sel, top, n)
    IN  selected' = v.selected /\ list_top' = v.list_top

\* Mutated form of load_dir: the path is set before open is tried.
load_dir_PathFirst(path) ==
    \/ current_path' = path /\ UNCHANGED <<entries, selected, list_top>>
    \/ \E failed \in SUBSET DirNames(path) :
        LET s == read_entries(path, failed)
        IN  /\ entries' = sort_entries(IF is_root_path(path) THEN 0 ELSE 1, s)
            /\ current_path' = path
            /\ Select(IF s # <<>> THEN 0 ELSE -1, 0, Len(s))

\* open fails and nothing changes, or the directory is read, stat failing for some.
load_dir(path) ==
    \/ UNCHANGED list
    \/ \E failed \in SUBSET DirNames(path) :
        LET s == read_entries(path, failed)
        IN  /\ entries' = sort_entries(IF is_root_path(path) THEN 0 ELSE 1, s)
            /\ current_path' = path
            /\ Select(IF s # <<>> THEN 0 ELSE -1, 0, Len(s))

-----------------------------------------------------------------------------
(* The keys of the list.                                                   *)

Listing == running /\ ~preview_mode

\* UP, DOWN, PAGEUP, PAGEDOWN, HOME and END.
move(sel) ==
    /\ Listing /\ entry_count > 0
    /\ Select(sel, list_top, entry_count)
    /\ UNCHANGED <<entries, current_path, preview, running>>

go_parent ==
    /\ Listing /\ ~is_root_path(current_path)
    /\ load_dir(parent_path_of(current_path))
    /\ UNCHANGED <<preview, running>>

InRange == selected >= 0 /\ selected < entry_count

\* RETURN on a directory; keep_selected_visible behind it changes nothing more.
open_selected_dir ==
    /\ Listing /\ InRange /\ entries[selected + 1].is_dir
    /\ load_dir(entries[selected + 1].path)
    /\ UNCHANGED <<preview, running>>

open_selected_file ==
    /\ Listing /\ InRange /\ ~entries[selected + 1].is_dir
    /\ preview_path' = entries[selected + 1].path
    /\ preview_line' = 0 /\ preview_mode' = TRUE
    /\ UNCHANGED <<list, running>>

escape == Listing /\ running' = FALSE /\ UNCHANGED <<list, preview>>

-----------------------------------------------------------------------------
(* The keys of the view.                                                   *)

leave_preview ==
    /\ running /\ preview_mode
    /\ preview_mode' = FALSE
    /\ UNCHANGED <<list, preview_path, preview_line, running>>

scroll(line) ==
    /\ running /\ preview_mode /\ line \in 0..MaxLine
    /\ preview_line' = line
    /\ UNCHANGED <<list, preview_path, preview_mode, running>>

handle_preview_key ==
    \/ leave_preview
    \/ preview_line > 0 /\ scroll(preview_line - 1)
    \/ scroll(preview_line + 1)
    \/ scroll(IF preview_line > Rows THEN preview_line - Rows ELSE 0)
    \/ scroll(preview_line + Rows)
    \/ scroll(0)

handle_list_key ==
    \/ \E sel \in {selected - 1, selected + 1, selected - Rows, selected + Rows,
                   0, entry_count - 1} : move(sel)
    \/ go_parent
    \/ open_selected_dir
    \/ open_selected_file
    \/ escape

\* main loads the root directory first, and gives up if it cannot.
ListStart(failed) ==
    /\ entries = sort_entries(0, read_entries(Root, failed))
    /\ selected = 0 /\ list_top = 0 /\ current_path = Root
    /\ preview_path = Root /\ preview_line = 0 /\ preview_mode = FALSE
    /\ running = TRUE

ListInit == \E failed \in SUBSET DirNames(Root) : ListStart(failed)

ListNext == handle_list_key \/ handle_preview_key

ListSpec == ListInit /\ [][ListNext]_listVars

-----------------------------------------------------------------------------
(* Properties.                                                             *)

\* The list is never without its selection: it is one of the entries and on the
\* screen, after any keys and whatever directory was entered or left from wherever
\* the last one was scrolled to (keep_selected_visible, load_dir).
SelectedShown ==
    entry_count > 0 => InRange /\ selected \in list_top..(list_top + rows - 1)

\* What is listed is the directory the header names, also after open or stat has
\* failed: ".." leads to its parent, and every other entry is one of its own, as
\* file or directory, at its own path (load_dir, go_parent, open_selected).
ListIsOfPath ==
    \A i \in 1..entry_count : LET e == entries[i] IN
        IF e.name = Up
        THEN i = 1 /\ current_path # Root /\ e.path = Front(current_path)
        ELSE /\ e.path = Append(current_path, e.name)
             /\ \E d \in Range(Dirs[current_path]) : d.name = e.name /\ d.is_dir = e.is_dir

\* Behind ".." all directories come before all files, each in the order of names,
\* none twice, in whatever order the image has them (sort_entries).
ListSorted ==
    \A i, j \in 1..entry_count :
        i < j /\ entries[i].name # Up =>
            \/ entries[i].is_dir /\ ~entries[j].is_dir
            \/ entries[i].is_dir = entries[j].is_dir /\ entries[i].name < entries[j].name

\* Keys never lead out of what the image holds: the list is of one of its
\* directories, and the view of one of its files.
PathsExist ==
    /\ current_path \in DOMAIN Dirs
    /\ preview_mode => /\ Front(preview_path) = current_path
                       /\ [name |-> Last(preview_path), is_dir |-> FALSE]
                              \in Range(Dirs[current_path])

\* List, path, selection and scroll position belong together, whatever could not be
\* opened (load_dir, keep_selected_visible, open_selected_file).
ListConsistent ==
    /\ SelectedShown
    /\ ListIsOfPath
    /\ ListSorted
    /\ PathsExist
=============================================================================
