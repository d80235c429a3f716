----------------------------- MODULE GuestFiles -----------------------------
(***************************************************************************)
(* Files of the guest: the library cellFs (libs/filesystem/cellFs.c) and   *)
(* the system calls sys_fs (runtime/syscalls/sys_fs.c) open host files for *)
(* it and keep the streams in tables of descriptors.  The tables have no   *)
(* lock: an open takes its slot in two steps.                              *)
(***************************************************************************)
EXTENDS Integers, Sequences, FiniteSets, FiniteSetsExt

CONSTANTS
    Callers,   \* guest threads
    Names,     \* paths the guest opens
    Unmapped,  \* those below no prefix that cellFs maps
    Fds,       \* descriptors: places of s_files, or of g_sys_fs_fds
    MaxOpens,  \* bound: host streams opened
    Entries,   \* the names in a directory, a sequence
    Flags      \* the flags the guest opens files with

VARIABLES
    api,     \* "cell" or "sys": the layer the guest uses
    host,    \* what is on the host: "none", "empty" or "data"
    fds,     \* the descriptors in use: the stream behind each
    streams, \* host streams: what each was opened with, and whether it is open
    dir,     \* a directory of the guest: s_dirs or g_sys_fs_dirs, one place
    got,     \* history: the entries reported since it was opened
    fpc,     \* the callers within an open
    held,    \* history: descriptors the guest was given and has not closed, with their streams
    raced    \* history: an open took a slot that was taken since it was found; then it ends

fileVars == <<api, host, fds, streams, dir, got, fpc, held, raced>>

NoFd == -1
NoStream == 0
Access == {"r", "w", "rw"}
Every == [acc : Access, creat : BOOLEAN, trunc : BOOLEAN, append : BOOLEAN]

Outside == [at |-> "outside", name |-> "", flags |-> {}, stream |-> NoStream, fd |-> NoFd]
NoDir == [used |-> FALSE, next |-> 0, first |-> FALSE, done |-> FALSE]
Unused == {f \in Fds : fds[f] = NoStream}

Init ==
    /\ api \in {"cell", "sys"}
    /\ host \in [Names -> {"none", "data"}]
    /\ fds = [f \in Fds |-> NoStream]
    /\ streams = <<>>
    /\ dir = NoDir
    /\ got = <<>>
    /\ fpc = [c \in Callers |-> Outside]
    /\ held = [f \in Fds |-> NoStream]
    /\ raced = FALSE

-----------------------------------------------------------------------------
(* Modes.  A host stream is opened for reading, for writing, or both; "w" truncates, "a" writes
   at the end, and both create. *)

Mode(base, plus) == [base |-> base, plus |-> plus]

\* flags_to_mode of cellFs.c.
CellMode(f) ==
    CASE f.acc = "r" -> Mode("r", FALSE)
      [] f.acc = "w" /\ f.append -> Mode("a", FALSE)
      [] f.acc = "w" /\ ~f.append /\ (f.creat \/ f.trunc) -> Mode("w", FALSE)
      [] f.acc = "rw" /\ f.append -> Mode("a", TRUE)
      [] f.acc = "rw" /\ ~f.append /\ f.trunc -> Mode("w", TRUE)
      [] f.acc = "rw" /\ ~f.append /\ f.creat /\ ~f.trunc -> Mode("a", TRUE)
      [] OTHER -> Mode("r", TRUE)

\* The mode sys_fs_open chooses.
SysMode(f) ==
    CASE f.trunc -> Mode("w", f.acc = "rw")
      [] ~f.trunc /\ f.append -> Mode("a", f.acc = "rw")
      [] OTHER -> Mode("r", f.acc # "r")

ModeOf(a, f) == IF a = "cell" THEN CellMode(f) ELSE SysMode(f)

\* What fopen makes of a file.
FOpen(mode, content) ==
    [ok      |-> mode.base # "r" \/ content # "none",
     content |-> IF mode.base = "w" \/ (mode.base = "a" /\ content = "none") THEN "empty"
                 ELSE content,
     reads   |-> mode.base = "r" \/ mode.plus,
     writes  |-> mode.base # "r" \/ mode.plus,
     atEnd   |-> mode.base = "a"]

\* Both layers try "w+b" when the first fopen fails and the file was to be created.
OneTry(a, f, content) == FOpen(ModeOf(a, f), content)
Opened(a, f, content) ==
    LET try == FOpen(ModeOf(a, f), content) IN
    IF ~try.ok /\ f.creat THEN FOpen(Mode("w", TRUE), content) ELSE try

\* What an open with these flags is for.
Wanted(f, content) ==
    [ok      |-> content # "none" \/ f.creat,
     content |-> IF content = "none" \/ (f.trunc /\ f.acc # "r") THEN "empty" ELSE content,
     reads   |-> f.acc # "w",
     writes  |-> f.acc # "r",
     atEnd   |-> f.append]

Agree(got1, want) ==
    /\ got1.ok = want.ok
    /\ want.ok =>
        /\ got1.content = want.content
        /\ want.reads => got1.reads
        /\ want.writes => got1.writes /\ got1.atEnd = want.atEnd

\* Where the layers differ.  Both create a file that is truncated or appended to.
Creates(f) == ~f.creat /\ (f.trunc \/ f.append)
CellDiffers(f) ==
    \/ f.acc = "w" /\ f.creat                \* truncates
    \/ f.acc = "rw" /\ f.creat /\ ~f.trunc   \* writes at the end
    \/ f.trunc /\ f.append                   \* does not truncate
    \/ f.acc # "r" /\ Creates(f)
SysDiffers(f) ==
    \/ f.acc = "r" /\ (f.trunc \/ f.append)  \* cannot be read
    \/ f.trunc /\ f.append                   \* does not append
    \/ Creates(f)

-----------------------------------------------------------------------------
(* Opening and closing *)

Beyond(c) == fpc[c].at = "outside"
Leaves(c) == fpc' = [fpc EXCEPT ![c] = Outside]

\* A caller opens the stream; it goes on at a place, or is told that there is no such file.
FOpens(c, name, f, at) ==
    LET o == Opened(api, f, host[name]) IN
    IF o.ok
    THEN /\ host' = [host EXCEPT ![name] = o.content]
         /\ streams' = Append(streams, [name |-> name, writes |-> o.writes, open |-> TRUE])
         /\ fpc' = [fpc EXCEPT ![c].at = at, ![c].stream = Len(streams) + 1]
    ELSE Leaves(c) /\ UNCHANGED <<host, streams>>

\* cellFsOpen opens the stream and then looks for a descriptor.
CellOpen(c, name, f) ==
    /\ api = "cell" /\ Beyond(c) /\ Len(streams) < MaxOpens
    /\ name \notin Unmapped
    /\ FOpens(c, name, f, "find")
    /\ UNCHANGED <<api, fds, dir, got, held, raced>>

LeftOpen(s) == s
Closed(s) == [s EXCEPT !.open = FALSE, !.name = "closed"]

CellFind(c) ==
    /\ fpc[c].at = "find"
    /\ IF Unused = {}
       THEN Leaves(c) /\ streams' = [streams EXCEPT ![fpc[c].stream] = Closed(@)]
       ELSE fpc' = [fpc EXCEPT ![c].at = "set", ![c].fd = Min(Unused)] /\ UNCHANGED streams
    /\ UNCHANGED <<api, host, fds, dir, got, held, raced>>

\* sys_fs_open looks for a descriptor and then opens the stream.
SysFind(c, name, f) ==
    /\ api = "sys" /\ Beyond(c) /\ Len(streams) < MaxOpens
    /\ Unused # {}
    /\ fpc' = [fpc EXCEPT ![c] = [at |-> "open", name |-> name, flags |-> {f},
                                  stream |-> NoStream, fd |-> Min(Unused)]]
    /\ UNCHANGED <<api, host, fds, streams, dir, got, held, raced>>

SysOpen(c) ==
    /\ fpc[c].at = "open"
    /\ \E f \in fpc[c].flags : FOpens(c, fpc[c].name, f, "set")
    /\ UNCHANGED <<api, fds, dir, got, held, raced>>

\* The descriptor is taken.
Set(c) ==
    /\ fpc[c].at = "set"
    /\ raced' = (fds[fpc[c].fd] # NoStream)
    /\ fds' = [fds EXCEPT ![fpc[c].fd] = fpc[c].stream]
    /\ held' = [held EXCEPT ![fpc[c].fd] = fpc[c].stream]
    /\ Leaves(c)
    /\ UNCHANGED <<api, host, streams, dir, got>>

\* The stream is closed and the descriptor given back.
Close(fd) ==
    /\ fds[fd] # NoStream
    /\ streams' = [streams EXCEPT ![fds[fd]] = Closed(@)]
    /\ fds' = [fds EXCEPT ![fd] = NoStream]
    /\ held' = [held EXCEPT ![fd] = NoStream]
    /\ UNCHANGED <<api, host, dir, got, fpc, raced>>

CellClose(fd) == api = "cell" /\ Close(fd)
SysClose(fd)  == api = "sys" /\ Close(fd)

-----------------------------------------------------------------------------
(* What changes files *)

OpenOn(name) == \E s \in DOMAIN streams : streams[s].open /\ streams[s].name = name

\* A write or a truncation through a descriptor.
Change(fd, content) ==
    /\ fds[fd] # NoStream /\ streams[fds[fd]].writes
    /\ host' = [host EXCEPT ![streams[fds[fd]].name] = content]
    /\ UNCHANGED <<api, fds, streams, dir, got, fpc, held, raced>>

\* The host neither removes, renames nor truncates by name a file that is open.
Unlink(name) ==
    /\ host[name] # "none" /\ ~OpenOn(name)
    /\ host' = [host EXCEPT ![name] = "none"]
    /\ UNCHANGED <<api, fds, streams, dir, got, fpc, held, raced>>

Rename(from, to) ==
    /\ host[from] # "none" /\ host[to] = "none" /\ ~OpenOn(from)
    /\ host' = [host EXCEPT ![from] = "none", ![to] = host[from]]
    /\ UNCHANGED <<api, fds, streams, dir, got, fpc, held, raced>>

CellWrite(fd) == api = "cell" /\ Change(fd, "data")
SysWrite(fd)  == api = "sys" /\ Change(fd, "data")
CellFtruncate(fd) == api = "cell" /\ Change(fd, "empty")
SysFtruncate(fd)  == api = "sys" /\ Change(fd, "empty")
CellUnlink(name) == api = "cell" /\ Unlink(name)
SysUnlink(name)  == api = "sys" /\ Unlink(name)
CellRename(from, to) == api = "cell" /\ Rename(from, to)
SysRename(from, to)  == api = "sys" /\ Rename(from, to)

\* Only cellFs truncates by name.
CellTruncate(name) ==
    /\ api = "cell"
    /\ host[name] # "none" /\ ~OpenOn(name)
    /\ host' = [host EXCEPT ![name] = "empty"]
    /\ UNCHANGED <<api, fds, streams, dir, got, fpc, held, raced>>

-----------------------------------------------------------------------------
(* A directory: the search finds its first entry when it is opened *)

OpenDir ==
    /\ ~dir.used /\ Entries # <<>>
    /\ dir' = [used |-> TRUE, next |-> 1, first |-> TRUE, done |-> FALSE]
    /\ got' = <<>>
    /\ UNCHANGED <<api, host, fds, streams, fpc, held, raced>>
CellOpendir == api = "cell" /\ OpenDir
SysOpendir  == api = "sys" /\ OpenDir

\* The entry the search is at, and the one it finds next; it stays at the end.
AtEnd == ~dir.first /\ dir.next = Len(Entries)
StaysFirst == dir.first
PastFirst == FALSE
Entry ==
    LET n == IF dir.first THEN dir.next ELSE dir.next + 1 IN
    /\ dir' = [dir EXCEPT !.next = n, !.first = PastFirst]
    /\ got' = Append(got, Entries[n])
NoEntry == dir' = [dir EXCEPT !.done = TRUE] /\ UNCHANGED got

CellReaddir ==
    /\ api = "cell" /\ dir.used
    /\ Len(got) <= Len(Entries)
    /\ IF dir.done \/ AtEnd THEN NoEntry ELSE Entry
    /\ UNCHANGED <<api, host, fds, streams, fpc, held, raced>>

SysReaddir ==
    /\ api = "sys" /\ dir.used
    /\ Len(got) <= Len(Entries)
    /\ IF AtEnd THEN NoEntry ELSE Entry
    /\ UNCHANGED <<api, host, fds, streams, fpc, held, raced>>

CloseDir ==
    /\ dir.used
    /\ dir' = NoDir
    /\ UNCHANGED <<api, host, fds, streams, got, fpc, held, raced>>
CellClosedir == api = "cell" /\ CloseDir
SysClosedir  == api = "sys" /\ CloseDir

-----------------------------------------------------------------------------

Next ==
    /\ ~raced
    /\ \/ \E c \in Callers, name \in Names, f \in Flags : CellOpen(c, name, f) \/ SysFind(c, name, f)
       \/ \E c \in Callers : CellFind(c) \/ SysOpen(c) \/ Set(c)
       \/ \E fd \in Fds : CellClose(fd) \/ SysClose(fd) \/ CellWrite(fd) \/ SysWrite(fd)
                           \/ CellFtruncate(fd) \/ SysFtruncate(fd)
       \/ \E name \in Names : CellUnlink(name) \/ SysUnlink(name) \/ CellTruncate(name)
       \/ \E from, to \in Names : from # to /\ (CellRename(from, to) \/ SysRename(from, to))
       \/ CellOpendir \/ SysOpendir \/ CellReaddir \/ SysReaddir \/ CellClosedir \/ SysClosedir

\* A descriptor, and the place of a caller, have their types.
TypeOK ==
    /\ \A n \in Names : host[n] \in {"none", "empty", "data"}
    /\ \A f \in Fds : fds[f] \in 0 .. Len(streams) /\ held[f] \in 0 .. Len(streams)
    /\ Len(streams) <= MaxOpens + Cardinality(Callers)
    /\ dir.next \in 0 .. Len(Entries)
    /\ \A c \in Callers : fpc[c].at \in {"outside", "find", "open", "set"}

\* Each combination of flags does to a file what it is for, but for the named differences.
OpensAgree ==
    \A f \in Every, content \in {"none", "data"} :
        \/ Agree(Opened(api, f, content), Wanted(f, content))
        \/ IF api = "cell" THEN CellDiffers(f) ELSE SysDiffers(f)

\* A descriptor of the guest stands for the stream its open made, which is open; no stream is
\* left open without one, and the file of an open stream exists.
FdsExact ==
    /\ \A fd \in Fds : held[fd] = fds[fd]
    /\ \A fd \in Fds : fds[fd] # NoStream => streams[fds[fd]].open
    /\ \A s \in DOMAIN streams :
        streams[s].open <=> \/ \E fd \in Fds : fds[fd] = s
                            \/ \E c \in Callers : fpc[c].stream = s
    /\ \A s \in DOMAIN streams : streams[s].open => host[streams[s].name] # "none"

\* The entries of a directory are reported once and in order, and all of them before the end.
EntriesOnce ==
    /\ Len(got) <= Len(Entries)
    /\ got = SubSeq(Entries, 1, Len(got))
    /\ dir.used /\ dir.done => got = Entries

FilesSound == raced \/ (OpensAgree /\ FdsExact /\ EntriesOnce)

=============================================================================
