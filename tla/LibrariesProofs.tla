--------------------------- MODULE LibrariesProofs ---------------------------
(***************************************************************************)
(* Theorems about the specification of the run Libraries: a kind carries   *)
(* the inductive invariant of its component, and a step moves the kind in  *)
(* use and no other.                                                       *)
(***************************************************************************)
EXTENDS MCLibs, TLAPS

LibraryInv ==
    /\ kindUsed = "jobs" => Lib!JobInv
    /\ kindUsed = "ports" => Lib!AudioInv
    /\ kindUsed = "mixer" => Other!AudioInv
    /\ kindUsed = "heap" => Lib!MemInv
    /\ kindUsed = "vms" => Other!MemInv
    /\ kindUsed = "files" => Lib!FileInv
    /\ kindUsed = "directory" => Other!FileInv
    /\ kindUsed = "saves" => Lib!SaveInv
    /\ kindUsed = "ucmd" => Dev!UcmdInv
    /\ kindUsed = "registry" => Dev!RegInv
    /\ kindUsed = "images" => Dev!ImageInv
    /\ kindUsed = "index" => OtherDev!ImageInv
    /\ kindUsed = "signals" => Dev!ChannelInv
    /\ kindUsed = "throws" => OtherDev!ChannelInv
    /\ kindUsed = "mfc" => Dev!MfcInv

LibraryStep == (DevicesNext \/ LibsNext) /\ UNCHANGED kindUsed

\* A step of the host is a step of the kind in use, or nothing moves.
LEMMA LibraryMoves ==
  ASSUME [LibraryStep]_every
  PROVE  /\ kindUsed' = kindUsed
         /\ kindUsed = "jobs" => [Lib!Jobs!Next]_(Lib!Jobs!jobVars)
         /\ kindUsed = "ports" => [Lib!Audio!Next]_(Lib!Audio!audioVars)
         /\ kindUsed = "mixer" => [Other!Audio!Next]_(Other!Audio!audioVars)
         /\ kindUsed = "heap" => [Lib!Memory!Next]_(Lib!Memory!memVars)
         /\ kindUsed = "vms" => [Other!Memory!Next]_(Other!Memory!memVars)
         /\ kindUsed = "files" => [Lib!Fs!Next]_(Lib!Fs!fileVars)
         /\ kindUsed = "directory" => [Other!Fs!Next]_(Other!Fs!fileVars)
         /\ kindUsed = "saves" => [Lib!Saves!Next]_(Lib!Saves!saveVars)
         /\ kindUsed = "ucmd" => [Dev!Ucmd!Next]_(Dev!Ucmd!ucmdVars)
         /\ kindUsed = "registry" => [Dev!Registry!Next]_(Dev!Registry!regVars)
         /\ kindUsed = "images" => [Dev!Images!Next]_(Dev!Images!imgVars)
         /\ kindUsed = "index" => [OtherDev!Images!Next]_(OtherDev!Images!imgVars)
         /\ kindUsed = "signals" => [Dev!Channels!Next]_(Dev!Channels!chanVars)
         /\ kindUsed = "throws" => [OtherDev!Channels!Next]_(OtherDev!Channels!chanVars)
         /\ kindUsed = "mfc" => [Dev!Mfc!Next]_(Dev!Mfc!mfcVars)
<1>1. CASE LibraryStep
  <2>1. CASE DevicesNext
    BY <1>1, <2>1 DEF LibraryStep, DevicesNext, Dev!Channels!Next, OtherDev!Channels!Next
  <2>2. CASE LibsNext
    BY <1>1, <2>2 DEF LibraryStep, LibsNext
  <2> QED BY <1>1, <2>1, <2>2 DEF LibraryStep
<1>2. CASE UNCHANGED every
  <2>1. UNCHANGED <<kindUsed, v1, v2, v3, v4, v5, v6, v7, v8, v9, v10, v11, v12, v13>>
    BY <1>2 DEF every, From1, From2, From3, From4, From5, From6, From7, From8, From9,
       From10, From11, From12, From13
  <2>2. /\ UNCHANGED Lib!Jobs!jobVars
        /\ UNCHANGED Lib!Audio!audioVars /\ UNCHANGED Other!Audio!audioVars
    BY <2>1 DEF Lib!Jobs!jobVars, Lib!Audio!audioVars, Other!Audio!audioVars
  <2>3. /\ UNCHANGED Dev!Ucmd!ucmdVars /\ UNCHANGED Dev!Registry!regVars
        /\ UNCHANGED Dev!Images!imgVars /\ UNCHANGED OtherDev!Images!imgVars
    BY <2>1 DEF Dev!Ucmd!ucmdVars, Dev!Registry!regVars, Dev!Images!imgVars,
       OtherDev!Images!imgVars
  <2>4. /\ UNCHANGED Dev!Channels!chanVars /\ UNCHANGED OtherDev!Channels!chanVars
        /\ UNCHANGED Dev!Mfc!mfcVars
    BY <2>1 DEF Dev!Channels!chanVars, OtherDev!Channels!chanVars, Dev!Mfc!mfcVars
  <2>5. /\ UNCHANGED Lib!Memory!memVars /\ UNCHANGED Other!Memory!memVars
        /\ UNCHANGED Lib!Fs!fileVars /\ UNCHANGED Other!Fs!fileVars
        /\ UNCHANGED Lib!Saves!saveVars
    BY <2>1 DEF Lib!Memory!memVars, Other!Memory!memVars, Lib!Fs!fileVars, Other!Fs!fileVars,
       Lib!Saves!saveVars
  <2> QED BY <2>1, <2>2, <2>3, <2>4, <2>5
<1> QED BY <1>1, <1>2

LEMMA LibraryInit == DevicesInit \/ LibsInit => LibraryInv
<1> SUFFICES ASSUME DevicesInit \/ LibsInit PROVE LibraryInv
  OBVIOUS
<1>1. /\ kindUsed = "jobs" => Lib!Jobs!Init
      /\ kindUsed = "ports" => Lib!Audio!Init
      /\ kindUsed = "mixer" => Other!Audio!Init
      /\ kindUsed = "heap" => Lib!Memory!Init
      /\ kindUsed = "vms" => Other!Memory!Init
      /\ kindUsed = "files" => Lib!Fs!Init
      /\ kindUsed = "directory" => Other!Fs!Init
      /\ kindUsed = "saves" => Lib!Saves!Init
      /\ kindUsed = "ucmd" => Dev!Ucmd!Init
      /\ kindUsed = "registry" => Dev!Registry!Init
      /\ kindUsed = "images" => Dev!Images!Init
      /\ kindUsed = "index" => OtherDev!Images!Init
      /\ kindUsed = "signals" => Dev!Channels!Init
      /\ kindUsed = "throws" => OtherDev!Channels!Init
      /\ kindUsed = "mfc" => Dev!Mfc!Init
  BY DEF DevicesInit, LibsInit
<1>2. kindUsed = "jobs" => Lib!JobInv
  BY <1>1, Lib!JobInitInv, LibraryAssumption
<1>3. kindUsed = "ports" => Lib!AudioInv
  BY <1>1, Lib!AudioInitInv, LibraryAssumption
<1>4. kindUsed = "mixer" => Other!AudioInv
  BY <1>1, Other!AudioInitInv, LibraryAssumption
<1>5. kindUsed = "heap" => Lib!MemInv
  BY <1>1, Lib!MemInitInv, LibraryAssumption
<1>6. kindUsed = "vms" => Other!MemInv
  BY <1>1, Other!MemInitInv, LibraryAssumption
<1>7. kindUsed = "files" => Lib!FileInv
  BY <1>1, Lib!FileInitInv, LibraryAssumption
<1>8. kindUsed = "directory" => Other!FileInv
  BY <1>1, Other!FileInitInv, LibraryAssumption
<1>9. kindUsed = "saves" => Lib!SaveInv
  BY <1>1, Lib!SaveInitInv, LibraryAssumption
<1>10. kindUsed = "ucmd" => Dev!UcmdInv
  BY <1>1, Dev!UcmdInitInv, DeviceAssumption
<1>11. kindUsed = "registry" => Dev!RegInv
  BY <1>1, Dev!RegInitInv, DeviceAssumption
<1>12. kindUsed = "images" => Dev!ImageInv
  BY <1>1, Dev!ImageInitInv, DeviceAssumption
<1>13. kindUsed = "index" => OtherDev!ImageInv
  BY <1>1, OtherDev!ImageInitInv, DeviceAssumption
<1>14. kindUsed = "signals" => Dev!ChannelInv
  BY <1>1, Dev!ChannelInitInv, DeviceAssumption
<1>15. kindUsed = "throws" => OtherDev!ChannelInv
  BY <1>1, OtherDev!ChannelInitInv, DeviceAssumption
<1>16. kindUsed = "mfc" => Dev!MfcInv
  BY <1>1, Dev!MfcInitInv, DeviceAssumption
<1> QED BY <1>2, <1>3, <1>4, <1>5, <1>6, <1>7, <1>8, <1>9, <1>10, <1>11, <1>12, <1>13, <1>14,
       <1>15, <1>16 DEF LibraryInv

LEMMA LibraryKept == LibraryInv /\ [LibraryStep]_every => LibraryInv'
<1> SUFFICES ASSUME LibraryInv, [LibraryStep]_every PROVE LibraryInv'
  OBVIOUS
<1>1. kindUsed = "jobs" => Lib!JobInv'
  BY LibraryMoves, Lib!JobNextInv, LibraryAssumption DEF LibraryInv
<1>2. kindUsed = "ports" => Lib!AudioInv'
  BY LibraryMoves, Lib!AudioNextInv, Lib!AudioIdles, LibraryAssumption DEF LibraryInv
<1>3. kindUsed = "mixer" => Other!AudioInv'
  BY LibraryMoves, Other!AudioNextInv, Other!AudioIdles, LibraryAssumption DEF LibraryInv
<1>4. kindUsed = "heap" => Lib!MemInv'
  BY LibraryMoves, Lib!MemNextInv, LibraryAssumption DEF LibraryInv
<1>5. kindUsed = "vms" => Other!MemInv'
  BY LibraryMoves, Other!MemNextInv, LibraryAssumption DEF LibraryInv
<1>6. kindUsed = "files" => Lib!FileInv'
  BY LibraryMoves, Lib!FileNextInv, LibraryAssumption DEF LibraryInv
<1>7. kindUsed = "directory" => Other!FileInv'
  BY LibraryMoves, Other!FileNextInv, LibraryAssumption DEF LibraryInv
<1>8. kindUsed = "saves" => Lib!SaveInv'
  BY LibraryMoves, Lib!SaveNextInv, LibraryAssumption DEF LibraryInv
<1>9. kindUsed = "ucmd" => Dev!UcmdInv'
  BY LibraryMoves, Dev!UcmdNextInv, DeviceAssumption DEF LibraryInv
<1>10. kindUsed = "registry" => Dev!RegInv'
  BY LibraryMoves, Dev!RegNextInv, DeviceAssumption DEF LibraryInv
<1>11. kindUsed = "images" => Dev!ImageInv'
  BY LibraryMoves, Dev!ImageNextInv, DeviceAssumption DEF LibraryInv
<1>12. kindUsed = "index" => OtherDev!ImageInv'
  BY LibraryMoves, OtherDev!ImageNextInv, DeviceAssumption DEF LibraryInv
<1>13. kindUsed = "signals" => Dev!ChannelInv'
  BY LibraryMoves, Dev!ChannelNextInv, DeviceAssumption DEF LibraryInv
<1>14. kindUsed = "throws" => OtherDev!ChannelInv'
  BY LibraryMoves, OtherDev!ChannelNextInv, DeviceAssumption DEF LibraryInv
<1>15. kindUsed = "mfc" => Dev!MfcInv'
  BY LibraryMoves, Dev!MfcNextInv, DeviceAssumption DEF LibraryInv
<1> QED BY <1>1, <1>2, <1>3, <1>4, <1>5, <1>6, <1>7, <1>8, <1>9, <1>10, <1>11, <1>12, <1>13,
       <1>14, <1>15, LibraryMoves DEF LibraryInv

(* The job chains of the run: every job runs once, no command that follows a
   batch runs beside it or after a failure in it, and the earliest error is
   the one that is kept.                                                     *)
THEOREM JobsAreOrderly == LibrariesSpec => []JobsOrderly
<1>1. LibraryInv => JobsOrderly
  BY Lib!JobFollows DEF LibraryInv, JobsOrderly
<1> QED BY <1>1, LibraryInit, LibraryKept, PTL DEF LibrariesSpec, LibraryStep

(* The audio ports of the run: no unit of the window has two owners, what was
   fed to a port is played once, a movie that is over was played to its end,
   and no event queue is notified twice in a period.                         *)
THEOREM MediaIsSound == LibrariesSpec => []MediaSound
<1>1. LibraryInv => MediaSound
  BY Lib!AudioFollows, Other!AudioFollows, LibraryAssumption DEF LibraryInv, MediaSound
<1> QED BY <1>1, LibraryInit, LibraryKept, PTL DEF LibrariesSpec, LibraryStep

(* What an SPU of the run reaches through its channels: elements of a command
   list move in order, no command passes a fence, and a tag reads complete
   only when its commands are; one engine serves a context for as long as it
   is used; a branch runs code of an image that may serve its context; a
   signal, throw or send is received once; a record is fetched whole and no
   older than its signal.                                                    *)
THEOREM SpuIsSound == LibrariesSpec => []SpuSound
<1>1. LibraryInv => SpuSound
  <2> SUFFICES ASSUME LibraryInv PROVE SpuSound
    OBVIOUS
  <2>1. kindUsed = "mfc" => Dev!Mfc!MfcSound
    BY Dev!MfcFollows, DeviceAssumption DEF LibraryInv
  <2>2. kindUsed = "registry" => Dev!Registry!RegistrySound
    BY Dev!RegFollows, DeviceAssumption DEF LibraryInv
  <2>3. /\ kindUsed = "images" => Dev!Images!DispatchSound
        /\ kindUsed = "index" => OtherDev!Images!DispatchSound
    BY Dev!ImageFollows, OtherDev!ImageFollows DEF LibraryInv
  <2>4. /\ kindUsed = "signals" => Dev!Channels!ChannelsSound
        /\ kindUsed = "throws" => OtherDev!Channels!ChannelsSound
    BY Dev!ChannelFollows, OtherDev!ChannelFollows, DeviceAssumption DEF LibraryInv
  <2>5. kindUsed = "ucmd" => Dev!Ucmd!UcmdSound
    BY Dev!UcmdFollows DEF LibraryInv
  <2> QED BY <2>1, <2>2, <2>3, <2>4, <2>5 DEF SpuSound
<1> QED BY <1>1, LibraryInit, LibraryKept, PTL DEF LibrariesSpec, LibraryStep

(* Storage in the run: regions of memory do not overlap and stay in their
   budget, a descriptor of the guest is its own open stream and no stream
   leaks, and a save is whole or its last completed state is kept.           *)
THEOREM StorageIsSound == LibrariesSpec => []StorageSound
<1>1. LibraryInv => StorageSound
  <2> SUFFICES ASSUME LibraryInv PROVE StorageSound
    OBVIOUS
  <2>1. /\ kindUsed = "heap" => Lib!Memory!MemorySound
        /\ kindUsed = "vms" => Other!Memory!MemorySound
    BY Lib!MemFollows, Other!MemFollows, LibraryAssumption DEF LibraryInv
  <2>2. /\ kindUsed = "files" => Lib!Fs!FilesSound
        /\ kindUsed = "directory" => Other!Fs!FilesSound
    BY Lib!FileFollows, Other!FileFollows, LibraryAssumption DEF LibraryInv
  <2>3. kindUsed = "saves" => Lib!Saves!SavesSound
    BY Lib!SaveFollows, LibraryAssumption DEF LibraryInv
  <2> QED BY <2>1, <2>2, <2>3 DEF StorageSound
<1> QED BY <1>1, LibraryInit, LibraryKept, PTL DEF LibrariesSpec, LibraryStep

=============================================================================
