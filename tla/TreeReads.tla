----------------------------- MODULE TreeReads -----------------------------
(***************************************************************************)
(* How a file of a tree that others may edit is read (internal/treefs):      *)
(* OpenFile("d/f") through a held handle of its directory, and the checks of   *)
(* Close.  Every system call is a step, and edits happen between any two.     *)
(*                                                                         *)
(* An object is what an inode is.  An entry is a kind and an object; what      *)
(* Lstat observes is its object with the version its last change gave it:     *)
(* modes, sizes and times, which are taken to tell versions apart.            *)
(***************************************************************************)
EXTENDS Naturals, Sequences
CONSTANT MaxEdits  \* a natural number: how many edits others make during the read

Object == 1..2
VARIABLES
    top,      \* version of the root directory
    entry,    \* what d is in the root: a directory, or a link to one
    dirs,     \* version of each directory, and what f is in it
    files,    \* version of each file
    pc, seen, \* the next step, and what the reader has observed
    handle, open, read,
    named,    \* the file and version that d/f literally named, at any moment of the read
    edits
vars == <<top, entry, dirs, files, pc, seen, handle, open, read, named, edits>>
outside == <<top, entry, dirs, files, edits>>

Kind == {"plain", "link", "none"}
Named(e, ds, fs) ==
    IF e.kind = "plain" /\ ds[e.at].f.kind = "plain" THEN {<<ds[e.at].f.at, fs[ds[e.at].f.at]>>} ELSE {}
Init ==
    /\ top = 0 /\ entry = [kind |-> "plain", at |-> 1]
    /\ dirs = [k \in Object |-> [version |-> 0, f |-> [kind |-> "plain", at |-> k]]]
    /\ files = [j \in Object |-> 0]
    /\ pc = "root" /\ seen = [root |-> 0, d |-> <<>>, f |-> <<>>]
    /\ handle = 0 /\ open = 0 /\ read = <<>>
    /\ named = Named(entry, dirs, files) /\ edits = 0

\* What Lstat shows of d, of the held directory, of f in it, and Stat of the held file.
DirEntry == IF entry.kind = "plain" THEN <<entry.at, dirs[entry.at].version>> ELSE <<entry.kind>>
Held == <<handle, dirs[handle].version>>
FileEntry == LET f == dirs[handle].f IN IF f.kind = "plain" THEN <<f.at, files[f.at]>> ELSE <<f.kind>>
HeldFile == <<open, files[open]>>

\* Mutant: only the identity is compared.
SameObject(a, b) == a = b \/ (Len(a) = 2 /\ Len(b) = 2 /\ a[1] = b[1])
Same(a, b) == a = b

reading == <<outside, named>>
Goto(to) == pc' = to
StatRoot == /\ pc = "root" /\ Goto("dir") /\ seen' = [seen EXCEPT !.root = top] /\ UNCHANGED <<reading, handle, open, read>>
StatDir ==
    /\ pc = "dir" /\ Goto(IF entry.kind = "plain" THEN "hold" ELSE "failed")
    /\ seen' = [seen EXCEPT !.d = DirEntry] /\ UNCHANGED <<reading, handle, open, read>>
\* The root's handle follows a link that leads to a directory below it.
HoldDir ==
    /\ pc = "hold" /\ Goto(IF entry.kind = "none" THEN "failed" ELSE "dirEntry")
    /\ handle' = IF entry.kind = "none" THEN 0 ELSE entry.at
    /\ UNCHANGED <<reading, seen, open, read>>
StatFile ==
    /\ pc = "file" /\ Goto(IF dirs[handle].f.kind = "plain" THEN "open" ELSE "failed")
    /\ seen' = [seen EXCEPT !.f = FileEntry] /\ UNCHANGED <<reading, handle, open, read>>
OpenFile ==
    /\ pc = "open" /\ Goto(IF dirs[handle].f.kind = "none" THEN "failed" ELSE "fileHeld")
    /\ open' = IF dirs[handle].f.kind = "none" THEN 0 ELSE dirs[handle].f.at
    /\ UNCHANGED <<reading, seen, handle, read>>
\* Bytes come in two pieces.
Read ==
    /\ pc \in {"read", "more"} /\ Goto(IF pc = "read" THEN "more" ELSE "closeHeld")
    /\ read' = Append(read, HeldFile) /\ UNCHANGED <<reading, seen, handle, open>>
\* check() of a directory and of a file: the entry, and what is held.
Check(at, found, was, to) ==
    /\ pc = at /\ Goto(IF Same(was, found) THEN to ELSE "failed")
    /\ UNCHANGED <<reading, seen, handle, open, read>>
Checks ==
    \/ Check("dirEntry", DirEntry, seen.d, "dirHeld")
    \/ pc = "dirHeld" /\ Check("dirHeld", Held, seen.d, "file")
    \/ pc = "fileHeld" /\ Check("fileHeld", HeldFile, seen.f, "fileEntry")
    \/ pc = "fileEntry" /\ Check("fileEntry", FileEntry, seen.f, "read")
\* Close(): the file, then its directory, then the root.
Close ==
    \/ pc = "closeHeld" /\ Check("closeHeld", HeldFile, seen.f, "closeEntry")
    \/ pc = "closeEntry" /\ Check("closeEntry", FileEntry, seen.f, "closeDir")
    \/ pc = "closeDir" /\ Check("closeDir", DirEntry, seen.d, "closeDirHeld")
    \/ pc = "closeDirHeld" /\ Check("closeDirHeld", Held, seen.d, "closeRoot")
    \/ Check("closeRoot", <<top>>, <<seen.root>>, "done")

\* Others write a file in place, or change what an entry names.
Edit ==
    /\ edits < MaxEdits /\ edits' = edits + 1 /\ pc \notin {"done", "failed"}
    /\ \/ \E j \in Object : files' = [files EXCEPT ![j] = @ + 1] /\ UNCHANGED <<top, entry, dirs>>
       \/ \E k, j \in Object, x \in Kind :
            /\ dirs' = [dirs EXCEPT ![k] = [version |-> @.version + 1, f |-> [kind |-> x, at |-> j]]]
            /\ UNCHANGED <<top, entry, files>>
       \/ \E k \in Object, x \in Kind :
            /\ top' = top + 1 /\ entry' = [kind |-> x, at |-> k] /\ UNCHANGED <<dirs, files>>
    /\ named' = named \cup Named(entry', dirs', files')
    /\ UNCHANGED <<pc, seen, handle, open, read>>

Next == StatRoot \/ StatDir \/ HoldDir \/ StatFile \/ OpenFile \/ Read \/ Checks \/ Close \/ Edit
Spec == Init /\ [][Next]_vars

\* "Close rejects replacement, size, mode or modification-time changes observed during
\* reads" (tree.go:131): what a read that closes without an error returned are the bytes
\* of one version, and d/f named that version, through no link, while it was read.
ReadsOneMoment == pc = "done" => read[1] = read[2] /\ read[1] \in named
=============================================================================
