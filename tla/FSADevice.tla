----------------------------- MODULE FSADevice -----------------------------
(***************************************************************************)
(* The emulated /dev/fsa (kernel_ios_fsadevice.cpp): its table of open       *)
(* handles and what each command may answer.  The host's file system is     *)
(* outside: any call to it succeeds or fails with an error in HostErrors.   *)
(***************************************************************************)
EXTENDS Integers, Sequences

FSAStatus ==
  {"OK", "NotInit", "Busy", "Cancelled", "EndOfDir", "EndOfFile", "MaxMountpoints", "MaxVolumes",
   "MaxClients", "MaxFiles", "MaxDirs", "AlreadyOpen", "AlreadyExists", "NotFound", "NotEmpty",
   "AccessError", "PermissionError", "DataCorrupted", "StorageFull", "JournalFull", "LinkEntry",
   "UnavailableCmd", "UnsupportedCmd", "InvalidParam", "InvalidPath", "InvalidBuffer",
   "InvalidAlignment", "InvalidClientHandle", "InvalidFileHandle", "InvalidDirHandle", "NotFile",
   "NotDir", "FileTooBig", "OutOfRange", "OutOfResources", "MediaNotReady", "MediaError",
   "WriteProtected", "InvalidMedia"}

CONSTANT HostErrors   \* the FSAStatus values that host calls are translated to

ASSUME HostErrorsAssumption ==
  HostErrors \subseteq {"UnsupportedCmd", "NotFound", "AlreadyExists",
                        "PermissionError", "NotFile", "NotDir"}

\* an answer: the status, the handle or number of bytes that comes with OK, and
\* the table of handles the command leaves
Answer(status, value, hs) == [status |-> status, value |-> value, handles |-> hs]

Ok(hs) == {Answer("OK", 0, hs)}

\* translateError
HostResult(hs) == Ok(hs) \cup {Answer(e, 0, hs) : e \in HostErrors}

-----------------------------------------------------------------------------
\* Mutant: a new handle always takes the last place of the table.
FirstUnusedLast(hs) == IF hs = <<>> THEN 1 ELSE Len(hs)

FirstUnused(hs) ==
  CHOOSE i \in 1 .. Len(hs) + 1 :
    /\ i = Len(hs) + 1 \/ hs[i] = "Unused"
    /\ \A j \in 1 .. i - 1 : hs[j] # "Unused"

\* mapHandle of a file or folder that was opened: its handle
mapHandle(hs, type) ==
  LET i == FirstUnused(hs) IN
  {Answer("OK", i, [j \in 1 .. (IF i > Len(hs) THEN i ELSE Len(hs)) |->
                      IF j = i THEN type ELSE hs[j]])}

\* mapHandle from a handle: S if it names something of the type
OnHandle(hs, h, type, S) ==
  IF h \notin 1 .. Len(hs)
  THEN {Answer(IF type = "File" THEN "InvalidFileHandle" ELSE "InvalidDirHandle", 0, hs)}
  ELSE IF hs[h] # type
  THEN {Answer(IF type = "File" THEN "NotFile" ELSE "NotDir", 0, hs)}
  ELSE S

removeHandle(hs, h) == Ok([hs EXCEPT ![h] = "Unused"])

Opened(hs, type) == mapHandle(hs, type) \cup {Answer(e, 0, hs) : e \in HostErrors}

\* a transfer moves whole elements: of the bytes there are, what is left of the
\* last element is not counted
Transfer(hs, size, count) == {Answer("OK", e * size, hs) : e \in 0 .. count}

-----------------------------------------------------------------------------
changeDir(hs) == Ok(hs)
closeDir(hs, h) == OnHandle(hs, h, "Folder", removeHandle(hs, h))
closeFile(hs, h) == OnHandle(hs, h, "File", removeHandle(hs, h))
flushFile(hs, h) == OnHandle(hs, h, "File", Ok(hs))
flushQuota(hs) == Ok(hs)
getCwd(hs) == Ok(hs)
getInfoByQuery(hs) == HostResult(hs) \cup {Answer("UnsupportedCmd", 0, hs)}
getPosFile(hs, h) == OnHandle(hs, h, "File", Ok(hs))
isEof(hs, h) == OnHandle(hs, h, "File", Ok(hs) \cup {Answer("EndOfFile", 0, hs)})
makeDir(hs) == Ok(hs) \cup {Answer("PermissionError", 0, hs)}
mount(hs) == HostResult(hs)
openDir(hs) == Opened(hs, "Folder")
openFile(hs) == Opened(hs, "File")
readDir(hs, h) == OnHandle(hs, h, "Folder", Ok(hs) \cup {Answer("EndOfDir", 0, hs)})
readFile(hs, h, size, count) == OnHandle(hs, h, "File", Transfer(hs, size, count))
remove(hs) == HostResult(hs)
rename(hs) == HostResult(hs)
rewindDir(hs, h) == OnHandle(hs, h, "Folder", Ok(hs))
setPosFile(hs, h) == OnHandle(hs, h, "File", Ok(hs))
statFile(hs, h) == OnHandle(hs, h, "File", Ok(hs))
truncateFile(hs, h) == OnHandle(hs, h, "File", Ok(hs))
writeFile(hs, h, size, count) == OnHandle(hs, h, "File", Transfer(hs, size, count))

\* FSADevice::ioctl.  Unmount has no case.
ioctl(command, hs, h) ==
  CASE command = "ChangeDir" -> changeDir(hs)
    [] command = "CloseDir" -> closeDir(hs, h)
    [] command = "CloseFile" -> closeFile(hs, h)
    [] command = "FlushFile" -> flushFile(hs, h)
    [] command = "FlushQuota" -> flushQuota(hs)
    [] command = "GetCwd" -> getCwd(hs)
    [] command = "GetInfoByQuery" -> getInfoByQuery(hs)
    [] command = "GetPosFile" -> getPosFile(hs, h)
    [] command = "IsEof" -> isEof(hs, h)
    [] command = "MakeDir" -> makeDir(hs)
    [] command = "OpenDir" -> openDir(hs)
    [] command = "OpenFile" -> openFile(hs)
    [] command = "ReadDir" -> readDir(hs, h)
    [] command = "Remove" -> remove(hs)
    [] command = "Rename" -> rename(hs)
    [] command = "RewindDir" -> rewindDir(hs, h)
    [] command = "SetPosFile" -> setPosFile(hs, h)
    [] command = "StatFile" -> statFile(hs, h)
    [] command = "TruncateFile" -> truncateFile(hs, h)
    [] OTHER -> {Answer("UnsupportedCmd", 0, hs)}

\* FSADevice::ioctlv
ioctlv(command, hs, h, size, count) ==
  CASE command = "ReadFile" -> readFile(hs, h, size, count)
    [] command = "WriteFile" -> writeFile(hs, h, size, count)
    [] command = "Mount" -> mount(hs)
=============================================================================
