------------------------------ MODULE SaveData ------------------------------
(***************************************************************************)
(* Saves (libs/system/cellSaveData.c).  A save is a directory of files and *)
(* PARAM.SFO, which says what is shown of it and which files are secure.   *)
(* The guest chooses a directory, gives the parameters and asks for one    *)
(* file operation after the other, all in callbacks; at the end PARAM.SFO  *)
(* is replaced.  The program may end at any point between.                 *)
(* One save operation is in flight at a time.                              *)
(***************************************************************************)
EXTENDS Integers, Sequences, FiniteSets, SequencesExt

CONSTANTS
    Dirs,        \* directories of saves
    Files,       \* names of files
    Contents,    \* those of them that are an icon, a picture or a sound
    MaxSecure,   \* CELL_SAVEDATA_SECUREFILE_MAX
    Spans,       \* offsets and lengths the guest writes, in cells of a file
    MaxLen,      \* bound: cells of a file
    MaxOps,      \* bound: file operations of a save (4096 in the code)
    MaxSaves,    \* bound: operations
    MaxCrashes   \* bound: times the program ends within one

VARIABLES
    disk,    \* the directories: whether one is there, its files, PARAM.SFO, a PARAM.SFO.tmp
    op,      \* the operation in flight
    saves,   \* operations begun
    crashes,
    wanted,  \* history: what the guest's file operations make of each file, and of its sort
    shown,   \* history: the save whose PARAM.SFO each directory should have
    upset    \* history: directories whose last operation did not end well

saveVars == <<disk, op, saves, crashes, wanted, shown, upset>>

None == <<-1>>
NoSfo == [ver |-> 0, secure |-> {}]
TornSfo == [ver |-> -1, secure |-> {}]
NoDir == [there |-> FALSE, files |-> [f \in Files |-> None], sfo |-> NoSfo, tmp |-> NoSfo]
NoFileOp == [do |-> "none", file |-> "", secure |-> FALSE, span |-> <<0, 0>>]
Idle == [pc |-> "idle", dir |-> "", saving |-> FALSE, meta |-> NoSfo, left |-> 0,
         fileOp |-> NoFileOp]

Init ==
    /\ disk = [d \in Dirs |-> NoDir]
    /\ op = Idle
    /\ saves = 0
    /\ crashes = 0
    /\ wanted = [d \in Dirs |-> [f \in Files |-> [content |-> None, secure |-> FALSE]]]
    /\ shown = [d \in Dirs |-> 0]
    /\ upset = {}

\* read_param_sfo: the metadata of a directory are valid if it has a PARAM.SFO.
Valid(meta) == meta.ver > 0
Listed == {d \in Dirs : disk[d].there /\ Valid(disk[d].sfo)}

\* The operation ends, well or not.
Ends == op' = Idle /\ UNCHANGED upset
Fails == op' = Idle /\ upset' = upset \cup {op.dir}

-----------------------------------------------------------------------------
(* savedata_select_guest and the two first callbacks *)

\* A list or fixed callback is shown the saves, and names a directory, or ends it all.
Begin(saving) ==
    /\ op = Idle /\ saves < MaxSaves
    /\ saves' = saves + 1
    /\ op' = [Idle EXCEPT !.pc = "select", !.saving = saving, !.left = MaxOps]
    /\ UNCHANGED <<disk, crashes, wanted, shown, upset>>

\* The directory it named; without a name the operation takes the first that is listed.
Select(d) ==
    /\ op.pc = "select"
    /\ op' = [op EXCEPT !.pc = "stat", !.dir = d,
                        !.meta = IF disk[d].there THEN disk[d].sfo ELSE NoSfo]
    /\ UNCHANGED <<disk, saves, crashes, wanted, shown, upset>>

\* The callback ends the operation, or there is nothing to take.
SelectEnds ==
    /\ op.pc = "select"
    /\ op' = Idle
    /\ UNCHANGED <<disk, saves, crashes, wanted, shown, upset>>

\* funcStat of a save gives parameters, which make the directory, or gives none.
StatGiven ==
    /\ op.pc = "stat" /\ op.saving
    /\ op' = [op EXCEPT !.pc = "file", !.meta.ver = saves]
    /\ disk' = [disk EXCEPT ![op.dir].there = TRUE]
    /\ UNCHANGED <<saves, crashes, wanted, shown, upset>>

StatNext ==
    /\ op.pc = "stat"
    /\ op' = [op EXCEPT !.pc = "file"]
    /\ UNCHANGED <<disk, saves, crashes, wanted, shown, upset>>

\* It ends the operation, with an error or without.
StatEnds ==
    /\ op.pc = "stat"
    /\ Ends
    /\ UNCHANGED <<disk, saves, crashes, wanted, shown>>

-----------------------------------------------------------------------------
(* funcFile *)

\* metadata_set_secure: the mark of a file that is no content, as far as there is room.
Marked(secure, f, on) ==
    IF ~on THEN secure \ {f}
    ELSE IF Cardinality(secure) < MaxSecure THEN secure \cup {f} ELSE secure

Cells(file) == IF file = None THEN <<>> ELSE file

\* fwrite at an offset: what lies before it stays, a gap is zeros, what lies behind stays.
Patch(cells, off, n, v) ==
    [i \in 1..Max({off + n, Len(cells)}) |->
        IF i > off /\ i <= off + n THEN v ELSE IF i <= Len(cells) THEN cells[i] ELSE 0]

\* Truncated to the end of what was written, unless the operation asks for no truncation.
NeverTrimmed(cells, do, end) == cells
Trimmed(cells, do, end) == IF do = "write" THEN SubSeq(cells, 1, end) ELSE cells

From(fop) == fop.span[1]
To(fop) == fop.span[1] + fop.span[2]

Written(cells, fop) == Trimmed(Patch(cells, From(fop), fop.span[2], saves), fop.do, To(fop))

\* The mode: a write at the start of a file empties it, any other keeps what is there.
OpenedEmpty(file, fop) == <<>>
Opened(file, fop) == IF fop.do = "write" /\ From(fop) = 0 THEN <<>> ELSE Cells(file)

FileOps == [do : {"write", "notrunc"}, file : Files, secure : BOOLEAN, span : Spans]

\* What the guest's operations make of a file: every cell is the last one written there.
Reference(old, fop) ==
    [i \in 1..(IF fop.do = "write" THEN To(fop) ELSE Max({Len(old), To(fop)})) |->
        IF i \in From(fop) + 1..To(fop) THEN saves ELSE IF i <= Len(old) THEN old[i] ELSE 0]

\* The callback asks for a write; the mark changes first, then the file is opened.
WriteBegin(fop) ==
    /\ op.pc = "file" /\ op.left > 0
    /\ op' = [op EXCEPT !.pc = "write", !.fileOp = fop, !.left = @ - 1,
                        !.meta.secure = IF op.saving /\ fop.file \notin Contents
                                        THEN Marked(@, fop.file, fop.secure) ELSE @]
    /\ disk' = [disk EXCEPT ![op.dir].there = TRUE,
                            ![op.dir].files[fop.file] = Opened(@, fop)]
    /\ wanted' = [wanted EXCEPT ![op.dir][fop.file] =
                    [content |-> Reference(Cells(@.content), fop),
                     secure |-> IF op.saving /\ fop.file \notin Contents
                                THEN fop.secure ELSE @.secure]]
    /\ UNCHANGED <<saves, crashes, shown, upset>>

WriteEnd ==
    /\ op.pc = "write"
    /\ disk' = [disk EXCEPT ![op.dir].files[op.fileOp.file] = Written(@, op.fileOp)]
    /\ op' = [op EXCEPT !.pc = "file", !.fileOp = NoFileOp]
    /\ UNCHANGED <<saves, crashes, wanted, shown, upset>>

DeleteFile(f) ==
    /\ op.pc = "file" /\ op.left > 0
    /\ disk' = [disk EXCEPT ![op.dir].files[f] = None]
    /\ op' = [op EXCEPT !.left = @ - 1,
                        !.meta.secure = IF op.saving THEN Marked(@, f, FALSE) ELSE @]
    /\ wanted' = [wanted EXCEPT ![op.dir][f] =
                    [content |-> None, secure |-> @.secure /\ ~op.saving]]
    /\ UNCHANGED <<saves, crashes, shown, upset>>

\* A read of a file that is missing ends the operation; any other has no effect here.
ReadMissing(f) ==
    /\ op.pc = "file" /\ op.left > 0 /\ disk[op.dir].files[f] = None
    /\ Fails
    /\ UNCHANGED <<disk, saves, crashes, wanted, shown>>

\* A file without a usable name or a buffer, or a result that is an error.
FileFails ==
    /\ op.pc = "file"
    /\ Fails
    /\ UNCHANGED <<disk, saves, crashes, wanted, shown>>

-----------------------------------------------------------------------------
(* The end: PARAM.SFO is written beside the old one and takes its place *)

\* Operations without metadata, and loads, end here.
FileLast ==
    /\ op.pc = "file"
    /\ IF op.saving /\ Valid(op.meta)
       THEN op' = [op EXCEPT !.pc = "sfo"] /\ UNCHANGED <<upset, wanted>>
       ELSE /\ op' = Idle
            /\ wanted' = IF Valid(disk[op.dir].sfo) THEN wanted
                         ELSE [wanted EXCEPT ![op.dir] =
                                [f \in Files |-> [@[f] EXCEPT !.secure = FALSE]]]
            /\ UNCHANGED upset
    /\ UNCHANGED <<disk, saves, crashes, shown>>

\* fopen("wb") of the file that write_binary_param_sfo fills, before it is filled.
TornInPlace(dir) == [dir EXCEPT !.sfo = TornSfo]
Torn(dir) == [dir EXCEPT !.tmp = TornSfo]

SfoOpen ==
    /\ op.pc = "sfo"
    /\ disk' = [disk EXCEPT ![op.dir] = Torn(@)]
    /\ op' = [op EXCEPT !.pc = "tmp"]
    /\ UNCHANGED <<saves, crashes, wanted, shown, upset>>

SfoWritten ==
    /\ op.pc = "tmp"
    /\ disk' = [disk EXCEPT ![op.dir].tmp = op.meta]
    /\ op' = [op EXCEPT !.pc = "rename"]
    /\ UNCHANGED <<saves, crashes, wanted, shown, upset>>

SfoRename ==
    /\ op.pc = "rename"
    /\ disk' = [disk EXCEPT ![op.dir].sfo = disk[op.dir].tmp, ![op.dir].tmp = NoSfo]
    /\ shown' = [shown EXCEPT ![op.dir] = op.meta.ver]
    /\ Ends
    /\ UNCHANGED <<saves, crashes, wanted>>

\* It cannot be written or renamed: it is removed, the old PARAM.SFO stays.
SfoFails ==
    /\ op.pc \in {"sfo", "tmp", "rename"}
    /\ disk' = [disk EXCEPT ![op.dir].tmp = NoSfo]
    /\ Fails
    /\ UNCHANGED <<saves, crashes, wanted, shown>>

\* The program ends; it starts again with the disk as it is.
Crash ==
    /\ op # Idle /\ crashes < MaxCrashes
    /\ crashes' = crashes + 1
    /\ op' = Idle
    /\ upset' = IF op.pc = "select" THEN upset ELSE upset \cup {op.dir}
    /\ UNCHANGED <<disk, saves, wanted, shown>>

Next ==
    \/ \E b \in BOOLEAN : Begin(b)
    \/ \E d \in Dirs : Select(d)
    \/ SelectEnds \/ StatGiven \/ StatNext \/ StatEnds
    \/ \E fop \in FileOps : WriteBegin(fop)
    \/ WriteEnd
    \/ \E f \in Files : DeleteFile(f) \/ ReadMissing(f)
    \/ FileFails \/ FileLast
    \/ SfoOpen \/ SfoWritten \/ SfoRename \/ SfoFails
    \/ Crash

Spec == Init /\ [][Next]_saveVars

-----------------------------------------------------------------------------
(* Properties *)

Sfos == [ver : -1..MaxSaves, secure : SUBSET Files]
Data == {None} \cup UNION {[1..n -> 0..MaxSaves] : n \in 0..MaxLen}

TypeOK ==
    /\ \A d \in Dirs :
        /\ disk[d].there \in BOOLEAN
        /\ \A f \in Files : disk[d].files[f] \in Data /\ wanted[d][f].content \in Data
        /\ disk[d].sfo \in Sfos /\ disk[d].tmp \in Sfos
        /\ shown[d] \in 0..MaxSaves
    /\ op.pc \in {"idle", "select", "stat", "file", "write", "sfo", "tmp", "rename"}
    /\ op.left \in 0..MaxOps /\ op.meta \in Sfos
    /\ saves \in 0..MaxSaves /\ crashes \in 0..MaxCrashes
    /\ upset \subseteq Dirs

\* Whatever fails and wherever the program ends, PARAM.SFO is that of the last save that
\* was completed: none is torn, none is lost, and none is from a save that failed.
SfoOfLastSave == \A d \in Dirs : disk[d].sfo.ver = shown[d]

\* A save that was completed stays in the lists.
CompletedListed == \A d \in Dirs : shown[d] > 0 => d \in Listed

\* A directory nothing went wrong in holds what the guest's operations made of its files.
Settled == {d \in Dirs \ upset : op.dir # d}
FilesAsAsked ==
    \A d \in Settled, f \in Files : disk[d].files[f] = wanted[d][f].content

\* And its files are secure as the guest asked, as long as there was room for the marks.
SecureAsAsked ==
    \A d \in Settled : Valid(disk[d].sfo) /\ MaxSecure >= Cardinality(Files) =>
        disk[d].sfo.secure = {f \in Files : wanted[d][f].secure}

SavesSound == SfoOfLastSave /\ CompletedListed /\ FilesAsAsked /\ SecureAsAsked

=============================================================================
