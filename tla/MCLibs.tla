------------------------------- MODULE MCLibs -------------------------------
(* The SPUs, the RSX, storage and the libraries for TLC. *)
EXTENDS MCHost, Integers

\* User commands; two SPUs that share an engine; one SPU and images of every sort; two
\* writers of a signal; and commands with and without lists.
Dev == INSTANCE SpuProofs WITH
    MaxCommands <- 3,
    Users <- {"u1", "u2"}, Notifiers <- {"w"}, MaxEngines <- 3,
    Threads <- {"s1"}, Addrs <- {1, 2}, SpanFrom <- 2, Kernel <- 16, JobModule <- 13,
    JobBinaries <- {14}, Tasks <- {4}, MaxFns <- 2, Late <- FALSE,
    Signallers <- {"w1", "w2"}, Bits <- {"a", "b"}, SPUs <- {}, Capacity <- 1, LatchMax <- 1,
    MaxEvents <- 1,
    Tags <- {1, 2}, Depth <- 3, Lists <- {<<FALSE>>, <<TRUE, TRUE, FALSE>>},
    Masks <- {{1}, {1, 2}}, MaxCmds <- 3, OneListPerTag <- TRUE,
    rsx <- v1, cause <- v2, pending <- v3, event <- v4, intr <- v5, active <- v6, epoch <- v7,
    completed <- v8, record <- v9, signal <- v10, get <- v11,
    sharded <- v1, allocated <- v2, freed <- v3, listed <- v4, bucketed <- v5, refs <- v6,
    bucketLock <- v7, registryLock <- v8, retiring <- v9, aborted <- v10, mpc <- v11,
    eng <- v12,
    registry <- v1, index <- v2, indexCount <- v3, building <- v4, bpc <- v5, branch <- v6,
    orMode <- v1, sig <- v2, lineLock <- v3, wrt <- v4, reader <- v5, owed <- v6,
    groupPort <- v7, events <- v8, latch <- v9, latchLock <- v10, thrower <- v11, sent <- v12,
    over <- v13,
    cmds <- v1, outstanding <- v2, queued <- v3, tagsDone <- v4, stall <- v5, deferred <- v6,
    update <- v7, moved <- v8

\* Two SPUs that build the index, and one image; two SPUs that throw.
OtherDev == INSTANCE SpuProofs WITH
    MaxCommands <- 0,
    Users <- {}, Notifiers <- {}, MaxEngines <- 0,
    Threads <- {"s1", "s2"}, Addrs <- {1}, SpanFrom <- 2, Kernel <- 16, JobModule <- 13,
    JobBinaries <- {}, Tasks <- {}, MaxFns <- 2, Late <- FALSE,
    Signallers <- {}, Bits <- {}, SPUs <- {1, 2}, Capacity <- 1, LatchMax <- 2,
    MaxEvents <- 2,
    Tags <- {}, Depth <- 0, Lists <- {}, Masks <- {}, MaxCmds <- 0, OneListPerTag <- TRUE,
    rsx <- v1, cause <- v2, pending <- v3, event <- v4, intr <- v5, active <- v6, epoch <- v7,
    completed <- v8, record <- v9, signal <- v10, get <- v11,
    sharded <- v1, allocated <- v2, freed <- v3, listed <- v4, bucketed <- v5, refs <- v6,
    bucketLock <- v7, registryLock <- v8, retiring <- v9, aborted <- v10, mpc <- v11,
    eng <- v12,
    registry <- v1, index <- v2, indexCount <- v3, building <- v4, bpc <- v5, branch <- v6,
    orMode <- v1, sig <- v2, lineLock <- v3, wrt <- v4, reader <- v5, owed <- v6,
    groupPort <- v7, events <- v8, latch <- v9, latchLock <- v10, thrower <- v11, sent <- v12,
    over <- v13,
    cmds <- v1, outstanding <- v2, queued <- v3, tagsDone <- v4, stall <- v5, deferred <- v6,
    update <- v7, moved <- v8

\* A job chain, its workers and one guest thread; ports of two sizes that are opened and
\* closed again; two allocators at the edges of the window, and a size that wraps; two
\* descriptors, two callers and two names; two operations on one save with a file and an
\* icon, and a crash.
Lib == INSTANCE LibraryProofs WITH
    Guests <- {"c"}, Programs <- Programs, Original <- 1, MaxCalls <- 2,
    Callers <- {"c1"}, NumPorts <- 2, BlockCounts <- {1, 2}, Window <- 6, FreeMax <- 2,
    Keys <- {}, NumNotify <- 1, BlockFrames <- 2, Movies <- {}, MaxFed <- 1, MaxInits <- 1,
    Overlap <- FALSE,
    Allocators <- {"c1", "c2"}, AddressSpace <- 64, Base <- 16, WindowEnd <- 20, MB <- 2,
    Sizes <- {1, 3, 50}, Budget <- 4, Footprint <- 1, Slots <- 2, VmBase <- 24, VmEnd <- 28,
    VmSlots <- 0, VSize <- 2, PSizes <- {}, StackBase <- 52, StackEnd <- 52,
    Openers <- {"c1", "c2"}, Names <- {"a", "b"}, Unmapped <- {}, Fds <- {3, 4},
    MaxOpens <- 3, Entries <- <<>>,
    Flags <- {[acc |-> "r", creat |-> FALSE, trunc |-> FALSE, append |-> FALSE],
              [acc |-> "rw", creat |-> TRUE, trunc |-> TRUE, append |-> FALSE]},
    Dirs <- {"d"}, Files <- {"f", "icon"}, Contents <- {"icon"}, MaxSecure <- 2,
    Spans <- {<<0, 3>>, <<1, 1>>}, MaxLen <- 3, MaxOps <- 3, MaxSaves <- 2, MaxCrashes <- 1,
    mem <- v1, run <- v2, cur <- v3, calls <- v4, scan <- v5, asleep <- v6, pool <- v7,
    wk <- v8, done <- v9, failed <- v10, guard <- v11, jpc <- v12,
    audio <- v1, ports <- v2, bump <- v3, free <- v4, notify <- v5, mixer <- v6, stream <- v7,
    ring <- v8, acall <- v9,
    heapBump <- v1, allocs <- v2, total <- v3, external <- v4, charged <- v5, vms <- v6,
    vmBump <- v7, stacks <- v8, mpc <- v9, given <- v10, billed <- v11, raced <- v12,
    api <- v1, host <- v2, fds <- v3, streams <- v4, dir <- v5, got <- v6, fpc <- v7,
    held <- v8, fileRaced <- v9,
    disk <- v1, op <- v2, saves <- v3, crashes <- v4, wanted <- v5, shown <- v6, upset <- v7

\* A port that plays, notify queues and a movie stream; virtual memory and two stacks; a
\* directory of three entries.
Other == INSTANCE LibraryProofs WITH
    Guests <- {}, Programs <- {}, Original <- 0, MaxCalls <- 0,
    Callers <- {"c1", "c2"}, NumPorts <- 1, BlockCounts <- {2}, Window <- 6, FreeMax <- 3,
    Keys <- {"k1", "k2"}, NumNotify <- 2, BlockFrames <- 2, Movies <- {3}, MaxFed <- 1,
    MaxInits <- 2, Overlap <- FALSE,
    Allocators <- {"c1", "c2"}, AddressSpace <- 64, Base <- 16, WindowEnd <- 17, MB <- 2,
    Sizes <- {1}, Budget <- 4, Footprint <- 1, Slots <- 2, VmBase <- 24, VmEnd <- 30,
    VmSlots <- 2, VSize <- 2, PSizes <- {1}, StackBase <- 52, StackEnd <- 55,
    Openers <- {"c1"}, Names <- {}, Unmapped <- {}, Fds <- {3}, MaxOpens <- 1,
    Entries <- <<"x", "y", "z">>, Flags <- {},
    Dirs <- {}, Files <- {}, Contents <- {}, MaxSecure <- 0, Spans <- {}, MaxLen <- 0,
    MaxOps <- 0, MaxSaves <- 0, MaxCrashes <- 0,
    mem <- v1, run <- v2, cur <- v3, calls <- v4, scan <- v5, asleep <- v6, pool <- v7,
    wk <- v8, done <- v9, failed <- v10, guard <- v11, jpc <- v12,
    audio <- v1, ports <- v2, bump <- v3, free <- v4, notify <- v5, mixer <- v6, stream <- v7,
    ring <- v8, acall <- v9,
    heapBump <- v1, allocs <- v2, total <- v3, external <- v4, charged <- v5, vms <- v6,
    vmBump <- v7, stacks <- v8, mpc <- v9, given <- v10, billed <- v11, raced <- v12,
    api <- v1, host <- v2, fds <- v3, streams <- v4, dir <- v5, got <- v6, fpc <- v7,
    held <- v8, fileRaced <- v9,
    disk <- v1, op <- v2, saves <- v3, crashes <- v4, wanted <- v5, shown <- v6, upset <- v7

ASSUME DeviceAssumption ==
    /\ Dev!UcmdSizes
    /\ Dev!RegSizes
    /\ Dev!ImageSizes /\ OtherDev!ImageSizes
    /\ Dev!ChannelSizes /\ OtherDev!ChannelSizes
    /\ Dev!MfcSizes

ASSUME LibraryAssumption ==
    /\ Lib!JobSizes
    /\ Lib!AudioSizes /\ Other!AudioSizes
    /\ Lib!MemSizes /\ Other!MemSizes
    /\ Lib!FileSizes /\ Other!FileSizes
    /\ Lib!SaveSizes

\* Two segments of the command ring, and a guest that releases stoppers in every way.
Fifo == INSTANCE RsxFifo WITH
    Segs <- 2, SegWords <- 4, MaxSent <- 3, MaxCommits <- 2,
    Releasing <- {"patch", "journal", "lost"}, KeepsApplied <- FALSE,
    word <- v1, get <- v2, put <- v3, ret <- v4, gctx <- v5, pending <- v6, due <- v7,
    journal <- v8, startup <- v9, look <- v10, sent <- v11, done <- v12

\* Every ring of four words, and rings with draws between a user command and a stopper.
Chain == INSTANCE RsxChain WITH
    Put <- 4, Links <- {0, 2, 4},
    Scans <- [0 .. 4 -> {"data", "nop", "ucmd", "prologue", "begin", "end", "draw", "self",
                         "jump", "far", "call", "return"}],
    mem <- v1, link <- v2, pick <- v3, get <- v4, ret <- v5, open <- v6

Draws == INSTANCE RsxChain WITH
    Put <- 7, Links <- {0},
    Scans <- {[d \in 0 .. 7 |-> CASE d = 0 -> "data" [] d = 6 -> "ucmd" [] d = 7 -> "self"
                                  [] OTHER -> f[d]] :
                 f \in [1 .. 5 -> {"data", "prologue", "begin", "end", "draw", "self"}]},
    mem <- v1, link <- v2, pick <- v3, get <- v4, ret <- v5, open <- v6

Display == INSTANCE RsxDisplay WITH
    MaxFrames <- 2, EvMax <- 1, Handlers <- {"flip", "queue", "vblank"}, CMod <- 8,
    Recent <- 3, MaxSkips <- 1, Ahead <- FALSE,
    head <- v1, armed <- v2, label <- v3, stream <- v4, vblank <- v5, guest <- v6,
    latched <- v7, evq <- v8, raised <- v9, shown <- v10, passed <- v11

\* The io map of the library, and that of the consumer.
IoMap == INSTANCE GcmMap WITH
    EaPages <- 3, IoPages <- 4, RingPages <- 1, Slots <- 3, Units <- 2,
    maps <- v1, ioTable <- v2, eaTable <- v3, reserved <- v4, newest <- v5, rsxMap <- v6

RsxIoMap == INSTANCE GcmMap WITH
    EaPages <- 5, IoPages <- 4, RingPages <- 1, Slots <- 3, Units <- 2,
    maps <- v1, ioTable <- v2, eaTable <- v3, reserved <- v4, newest <- v5, rsxMap <- v6

\* One transaction, a body of two chunks, and connections that may end anywhere.
Http == INSTANCE HttpClient WITH
    Trans <- {"t1"}, Clients <- {"c1"}, Bodies <- {<<2, 1>>}, Sizes <- {2}, MaxRedirects <- 1,
    MaxSocks <- 1, Persist <- FALSE,
    lib <- v1, clients <- v2, trans <- v3, socks <- v4, resolvers <- v5

-----------------------------------------------------------------------------

DevicesInit ==
    \/ kindUsed = "mfc" /\ Dev!Mfc!Init /\ Off9
    \/ kindUsed = "registry" /\ Dev!Registry!Init /\ Off13
    \/ kindUsed = "images" /\ Dev!Images!Init /\ Off7
    \/ kindUsed = "index" /\ OtherDev!Images!Init /\ Off7
    \/ kindUsed = "signals" /\ Dev!Channels!Init /\ Off14
    \/ kindUsed = "throws" /\ OtherDev!Channels!Init /\ Off14
    \/ kindUsed = "ucmd" /\ Dev!Ucmd!Init /\ Off12
    \/ kindUsed = "fifo" /\ Fifo!Init /\ Off13
    \/ kindUsed = "chain" /\ Chain!Init /\ Off7
    \/ kindUsed = "draws" /\ Draws!Init /\ Off7
    \/ kindUsed = "display" /\ Display!Init /\ Off12
    \/ kindUsed = "iomap" /\ IoMap!Init /\ Off7
    \/ kindUsed = "rsxmap" /\ RsxIoMap!Init /\ Off7
    \/ kindUsed = "heap" /\ Lib!Memory!Init /\ Off13
    \/ kindUsed = "vms" /\ Other!Memory!Init /\ Off13
    \/ kindUsed = "files" /\ Lib!Fs!Init /\ Off10
    \/ kindUsed = "directory" /\ Other!Fs!Init /\ Off10
    \/ kindUsed = "saves" /\ Lib!Saves!Init /\ Off8
    \/ kindUsed = "http" /\ Http!Init /\ Off6

DevicesNext ==
    \/ kindUsed = "mfc" /\ Dev!Mfc!Next /\ UNCHANGED From9
    \/ kindUsed = "registry" /\ Dev!Registry!Next /\ UNCHANGED From13
    \/ kindUsed = "images" /\ Dev!Images!Next /\ UNCHANGED From7
    \/ kindUsed = "index" /\ OtherDev!Images!Next /\ UNCHANGED From7
    \/ kindUsed = "signals" /\ Dev!Channels!Signals /\ UNCHANGED From14
    \/ kindUsed = "throws" /\ OtherDev!Channels!Throws /\ UNCHANGED From14
    \/ kindUsed = "ucmd" /\ Dev!Ucmd!Next /\ UNCHANGED From12
    \/ kindUsed = "fifo" /\ Fifo!Next /\ UNCHANGED From13
    \/ kindUsed = "chain" /\ Chain!Next /\ UNCHANGED From7
    \/ kindUsed = "draws" /\ Draws!Next /\ UNCHANGED From7
    \/ kindUsed = "display" /\ Display!Next /\ UNCHANGED From12
    \/ kindUsed = "iomap" /\ IoMap!LibsStep /\ UNCHANGED From7
    \/ kindUsed = "rsxmap" /\ RsxIoMap!RsxStep /\ UNCHANGED From7
    \/ kindUsed = "heap" /\ Lib!Memory!Next /\ UNCHANGED From13
    \/ kindUsed = "vms" /\ Other!Memory!Next /\ UNCHANGED From13
    \/ kindUsed = "files" /\ Lib!Fs!Next /\ UNCHANGED From10
    \/ kindUsed = "directory" /\ Other!Fs!Next /\ UNCHANGED From10
    \/ kindUsed = "saves" /\ Lib!Saves!Next /\ UNCHANGED From8
    \/ kindUsed = "http" /\ Http!Next /\ UNCHANGED From6

DevicesTypes ==
    /\ kindUsed = "mfc" => Dev!Mfc!TypeOK
    /\ kindUsed = "registry" => Dev!Registry!TypeOK
    /\ kindUsed = "images" => Dev!Images!TypeOK
    /\ kindUsed = "index" => OtherDev!Images!TypeOK
    /\ kindUsed = "signals" => Dev!Channels!TypeOK
    /\ kindUsed = "throws" => OtherDev!Channels!TypeOK
    /\ kindUsed = "ucmd" => Dev!Ucmd!TypeOK
    /\ kindUsed = "fifo" => Fifo!TypeOK
    /\ kindUsed = "chain" => Chain!TypeOK
    /\ kindUsed = "draws" => Draws!TypeOK
    /\ kindUsed = "display" => Display!TypeOK
    /\ kindUsed = "iomap" => IoMap!TypeOK
    /\ kindUsed = "rsxmap" => RsxIoMap!TypeOK
    /\ kindUsed = "heap" => Lib!Memory!TypeOK
    /\ kindUsed = "vms" => Other!Memory!TypeOK
    /\ kindUsed = "files" => Lib!Fs!TypeOK
    /\ kindUsed = "directory" => Other!Fs!TypeOK
    /\ kindUsed = "saves" => Lib!Saves!TypeOK
    /\ kindUsed = "http" => Http!TypeOK

\* The MFC: elements move in order, fences hold, a tag is done when its commands are; one
\* engine per context, alive while it is used.  A branch runs code of an image that may
\* serve its context, and searches inside the index.  A signal, throw or send is received
\* once; a record is fetched whole and no older than its signal.
SpuSound ==
    /\ kindUsed = "mfc" => Dev!Mfc!MfcSound
    /\ kindUsed = "registry" => Dev!Registry!RegistrySound
    /\ kindUsed = "images" => Dev!Images!DispatchSound
    /\ kindUsed = "index" => OtherDev!Images!DispatchSound
    /\ kindUsed = "signals" => Dev!Channels!ChannelsSound
    /\ kindUsed = "throws" => OtherDev!Channels!ChannelsSound
    /\ kindUsed = "ucmd" => Dev!Ucmd!UcmdSound

\* The RSX: packets run in order, once and whole, and never past a stopper that was not
\* released; a repair resumes where the flow reaches what the guest waits for; every cause of
\* the interrupt arrives, and frames are shown in order.  An io mapping leads back to the
\* memory it was made for, and a pointer covers its whole resource.
RsxSound ==
    /\ kindUsed = "fifo" => Fifo!FifoSound
    /\ kindUsed = "chain" => Chain!ChainSound
    /\ kindUsed = "draws" => Draws!ChainSound
    /\ kindUsed = "display" => Display!DisplaySound
    /\ kindUsed = "iomap" => IoMap!MapSound
    /\ kindUsed = "rsxmap" => RsxIoMap!RsxMapSound

\* Storage: regions do not overlap and stay in their budget; a descriptor of the guest is its
\* own open stream, and no stream leaks; a save is whole or its last completed state is kept.
StorageSound ==
    /\ kindUsed = "heap" => Lib!Memory!MemorySound
    /\ kindUsed = "vms" => Other!Memory!MemorySound
    /\ kindUsed = "files" => Lib!Fs!FilesSound
    /\ kindUsed = "directory" => Other!Fs!FilesSound
    /\ kindUsed = "saves" => Lib!Saves!SavesSound

\* The network: a socket has one owner, what a call and its lookup worker share is freed once,
\* and a body is received as it was sent.
NetworkSound == kindUsed = "http" => Http!HttpSound

-----------------------------------------------------------------------------

\* What a job asks for in local store.
Layout == INSTANCE JobLayout WITH
    BinSizes <- {16, 40960, 239616}, IoSizes <- {0, 1025, 65536},
    CacheLists <- {<<>>, <<0, 16384, 16>>, <<24>>}, StackSizes <- {32, 48, 139264},
    slot <- v1, tag <- v2, job <- v3, placed <- v4

\* Two guest threads and the tasks of one taskset.
TaskSet == INSTANCE SpursTaskset WITH
    Callers <- {"c1", "c2"}, Objects <- {"o1"}, NumSets <- 1, NumTasks <- 2, NumWids <- 1,
    MaxSerial <- 2, ManyJoiners <- FALSE,
    spurs <- v1, sets <- v2, bits <- v3, tasks <- v4, thr <- v5, exitCode <- v6,
    tcall <- v7, hooks <- v8, owed <- v9, serials <- v10

\* Two tasksets and one workload.
TaskSets == INSTANCE SpursTaskset WITH
    Callers <- {"c1"}, Objects <- {"o1", "o2"}, NumSets <- 2, NumTasks <- 1, NumWids <- 1,
    MaxSerial <- 2, ManyJoiners <- FALSE,
    spurs <- v1, sets <- v2, bits <- v3, tasks <- v4, thr <- v5, exitCode <- v6,
    tcall <- v7, hooks <- v8, owed <- v9, serials <- v10

\* An event flag that tasks, a guest thread and an SPU program share.
SFlag == INSTANCE SpursEventFlag WITH
    Tasks <- {"t1", "t2"}, Setters <- {"s1"}, Callers <- {"c1"}, Bits <- {"a"},
    NumSlots <- 2, AnyOf <- {{"a"}}, AllOf <- {}, Prompt <- TRUE,
    ef <- v1, port <- v2, known <- v3, watch <- v4, latch <- v5, fpc <- v6, out <- v7,
    mine <- v8

\* Two guest threads, and two bits.
SFlags == INSTANCE SpursEventFlag WITH
    Tasks <- {"t1"}, Setters <- {}, Callers <- {"c1", "c2"}, Bits <- {"a", "b"},
    NumSlots <- 2, AnyOf <- {{"a"}}, AllOf <- {{"a", "b"}}, Prompt <- TRUE,
    ef <- v1, port <- v2, known <- v3, watch <- v4, latch <- v5, fpc <- v6, out <- v7,
    mine <- v8

SQueue == INSTANCE SpursQueue WITH
    Callers <- {"c1", "c2"}, Tasks <- {"t1", "t2"}, Depth <- 2, MaxSent <- 5,
    Kinds <- {"spurs"},
    kind <- v1, toSpu <- v2, head <- v3, tail <- v4, elems <- v5, mark <- v6, latch <- v7,
    qpc <- v8, wasEdge <- v9, sent <- v10, got <- v11

LfQueue == INSTANCE SpursQueue WITH
    Callers <- {"c1", "c2"}, Tasks <- {"t1"}, Depth <- 2, MaxSent <- 5, Kinds <- {"lf"},
    kind <- v1, toSpu <- v2, head <- v3, tail <- v4, elems <- v5, mark <- v6, latch <- v7,
    qpc <- v8, wasEdge <- v9, sent <- v10, got <- v11

\* Objects that live twice, and a table that fills.
Router == INSTANCE WriteRouter WITH
    Threads <- {"w1", "w2"}, Targets <- {"t1", "t2"}, Cells <- {1}, Spans <- {{1}},
    Capacity <- 2, Home <- [c \in {1} |-> 0], GenMod <- 5, MaxLives <- 2, Spurious <- FALSE,
    table <- v1, more <- v2, full <- v3, pages <- v4, gens <- v5, reg <- v6, watched <- v7

\* Two cells that collide.
Collide == INSTANCE WriteRouter WITH
    Threads <- {"w1", "w2"}, Targets <- {"t1", "t2"}, Cells <- {1, 2}, Spans <- {{1}, {1, 2}},
    Capacity <- 2, Home <- [c \in {1, 2} |-> 0], GenMod <- 5, MaxLives <- 1, Spurious <- FALSE,
    table <- v1, more <- v2, full <- v3, pages <- v4, gens <- v5, reg <- v6, watched <- v7

-----------------------------------------------------------------------------

LibsInit ==
    \/ kindUsed = "ports" /\ Lib!Audio!Init /\ Off10
    \/ kindUsed = "mixer" /\ Other!Audio!Init /\ Off10
    \/ kindUsed = "jobs" /\ Lib!Jobs!Init /\ Off13
    \/ kindUsed = "layout" /\ Layout!Init /\ Off5
    \/ kindUsed = "tasks" /\ TaskSet!Init /\ Off11
    \/ kindUsed = "tasksets" /\ TaskSets!Init /\ Off11
    \/ kindUsed = "spursflag" /\ SFlag!Init /\ Off9
    \/ kindUsed = "spursflags" /\ SFlags!Init /\ Off9
    \/ kindUsed = "spursqueue" /\ SQueue!Init /\ Off12
    \/ kindUsed = "lfqueue" /\ LfQueue!Init /\ Off12
    \/ kindUsed = "router" /\ Router!Init /\ Off8
    \/ kindUsed = "collide" /\ Collide!Init /\ Off8

LibsNext ==
    \/ kindUsed = "ports" /\ Lib!Audio!Next /\ UNCHANGED From10
    \/ kindUsed = "mixer" /\ Other!Audio!Next /\ UNCHANGED From10
    \/ kindUsed = "jobs" /\ Lib!Jobs!Next /\ UNCHANGED From13
    \/ kindUsed = "layout" /\ Layout!Next /\ UNCHANGED From5
    \/ kindUsed = "tasks" /\ TaskSet!Next /\ UNCHANGED From11
    \/ kindUsed = "tasksets" /\ TaskSets!Next /\ UNCHANGED From11
    \/ kindUsed = "spursflag" /\ SFlag!Next /\ UNCHANGED From9
    \/ kindUsed = "spursflags" /\ SFlags!Next /\ UNCHANGED From9
    \/ kindUsed = "spursqueue" /\ SQueue!Next /\ UNCHANGED From12
    \/ kindUsed = "lfqueue" /\ LfQueue!Next /\ UNCHANGED From12
    \/ kindUsed = "router" /\ Router!Next /\ UNCHANGED From8
    \/ kindUsed = "collide" /\ Collide!Next /\ UNCHANGED From8

LibsTypes ==
    /\ kindUsed = "ports" => Lib!Audio!TypeOK
    /\ kindUsed = "mixer" => Other!Audio!TypeOK
    /\ kindUsed = "jobs" => Lib!Jobs!TypeOK
    /\ kindUsed = "tasks" => TaskSet!TypeOK
    /\ kindUsed = "tasksets" => TaskSets!TypeOK
    /\ kindUsed = "spursflag" => SFlag!TypeOK
    /\ kindUsed = "spursflags" => SFlags!TypeOK
    /\ kindUsed = "spursqueue" => SQueue!TypeOK
    /\ kindUsed = "lfqueue" => LfQueue!TypeOK
    /\ kindUsed = "router" => Router!TypeOK
    /\ kindUsed = "collide" => Collide!TypeOK

\* Audio: a unit of the window has one owner, and a port plays what was written to it.
MediaSound ==
    /\ kindUsed = "ports" => Lib!Audio!AudioSound
    /\ kindUsed = "mixer" => Other!Audio!AudioSound

\* Job chains: every job once, batches fenced, the earliest error.
JobsOrderly == kindUsed = "jobs" => Lib!Jobs!JobsOrderly

\* What is laid out for a job does not overlap.  A task gets its signals, a join ends with
\* its own task, and a workload is runnable when a task of it is.  Whoever sleeps in a flag
\* or a queue is told; elements stay in order.  A watched write reaches its watcher.
SpursSound ==
    /\ kindUsed = "layout" => Layout!LayoutSound
    /\ kindUsed = "tasks" => TaskSet!TasksetSound
    /\ kindUsed = "tasksets" => TaskSets!TasksetSound
    /\ kindUsed = "spursflag" => SFlag!FlagSound
    /\ kindUsed = "spursflags" => SFlags!FlagSound
    /\ kindUsed = "spursqueue" => SQueue!QueueSound
    /\ kindUsed = "lfqueue" => LfQueue!QueueSound
    /\ kindUsed = "router" => Router!RouterSound
    /\ kindUsed = "collide" => Collide!RouterSound

\* The variables of the kind in use have their types.
LibraryTypes == DevicesTypes /\ LibsTypes

LibrariesSpec ==
    /\ DevicesInit \/ LibsInit
    /\ [][(DevicesNext \/ LibsNext) /\ UNCHANGED kindUsed]_every

=============================================================================
