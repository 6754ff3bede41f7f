------------------------------ MODULE FSCalls ------------------------------
(***************************************************************************)
(* The calls of coreinit_fs_cmd.cpp, each with the request that             *)
(* coreinit_fsa_shim.cpp prepares for it.                                   *)
(***************************************************************************)

\* A request: the command for the device, whether it goes out as an ioctlv, and
\* the arguments that the preparation refuses when they are bad.
Ioctl(command, checks) == [command |-> command, vector |-> FALSE, checks |-> checks]
Ioctlv(command, checks) == [command |-> command, vector |-> TRUE, checks |-> checks]

ShimChangeDir == Ioctl("ChangeDir", {"path"})
ShimCloseDir == Ioctl("CloseDir", {})
ShimCloseFile == Ioctl("CloseFile", {})
ShimFlushFile == Ioctl("FlushFile", {})
ShimFlushQuota == Ioctl("FlushQuota", {"path"})
ShimGetCwd == Ioctl("GetCwd", {})
ShimGetInfoByQuery == Ioctl("GetInfoByQuery", {"path", "type"})
ShimGetPosFile == Ioctl("GetPosFile", {})
ShimIsEof == Ioctl("IsEof", {})
ShimMakeDir == Ioctl("MakeDir", {"path"})
ShimMount == Ioctlv("Mount", {"path"})
ShimOpenDir == Ioctl("OpenDir", {"path"})
ShimOpenFile == Ioctl("OpenFile", {"path", "mode"})
ShimReadDir == Ioctl("ReadDir", {})
ShimReadFile == Ioctlv("ReadFile", {"buffer"})
ShimRemove == Ioctl("Remove", {"path"})
ShimRename == Ioctl("Rename", {"path"})
ShimRewindDir == Ioctl("RewindDir", {})
ShimSetPosFile == Ioctl("SetPosFile", {})
ShimStatFile == Ioctl("StatFile", {})
ShimTruncateFile == Ioctl("TruncateFile", {})
ShimUnmount == Ioctl("Unmount", {"path"})
ShimWriteFile == Ioctlv("WriteFile", {"buffer"})

\* A call: its first request, the arguments that are checked on the way to it,
\* the finishCmdFn it is submitted with and the kind of handle it is about.
FSCall(shim, checks, finish, about) ==
  [command |-> shim.command, vector |-> shim.vector,
   refusable |-> shim.checks \cup checks # {}, finish |-> finish, about |-> about]

Simple(shim, checks, about) == FSCall(shim, checks, "Cmd", about)

getInfoByQueryAsync == Simple(ShimGetInfoByQuery, {"path", "out"}, "none")

FSChangeDir == Simple(ShimChangeDir, {"path"}, "none")
FSCloseDir == Simple(ShimCloseDir, {}, "Folder")
FSCloseFile == Simple(ShimCloseFile, {}, "File")
FSFlushFile == Simple(ShimFlushFile, {}, "File")
FSFlushQuota == Simple(ShimFlushQuota, {"path"}, "none")
FSGetCwd == Simple(ShimGetCwd, {"returnedPath", "bytes"}, "none")
FSGetDirSize == getInfoByQueryAsync
FSGetFreeSpaceSize == getInfoByQueryAsync
FSGetMountSourceNext == FSCall(ShimOpenDir, {"source"}, "MountSourceOpen", "none")
FSGetMountSource == FSGetMountSourceNext
FSGetPosFile == Simple(ShimGetPosFile, {"returnedFpos"}, "File")
FSGetStat == getInfoByQueryAsync
FSGetStatFile == Simple(ShimStatFile, {}, "File")
FSIsEof == Simple(ShimIsEof, {}, "File")
FSMakeDir == Simple(ShimMakeDir, {"path"}, "none")
FSMount == FSCall(ShimMount, {"source", "target", "bytes", "type"}, "Mount", "none")
FSOpenDir == Simple(ShimOpenDir, {"dirHandle", "path"}, "none")
FSOpenFile == Simple(ShimOpenFile, {"fileHandle", "path", "mode"}, "none")
FSReadDir == Simple(ShimReadDir, {"returnedDirEntry"}, "Folder")
FSReadFile == FSCall(ShimReadFile, {"bytes"}, "Transfer", "File")
FSRemove == Simple(ShimRemove, {"path"}, "none")
FSRename == Simple(ShimRename, {"oldPath", "newPath"}, "none")
FSRewindDir == Simple(ShimRewindDir, {}, "Folder")
FSSetPosFile == Simple(ShimSetPosFile, {}, "File")
FSTruncateFile == Simple(ShimTruncateFile, {}, "File")
FSUnmount == Simple(ShimUnmount, {"target"}, "none")
FSWriteFile == FSCall(ShimWriteFile, {"bytes"}, "Transfer", "File")

Call ==
  {FSChangeDir, FSCloseDir, FSCloseFile, FSFlushFile, FSFlushQuota, FSGetCwd, FSGetDirSize,
   FSGetFreeSpaceSize, FSGetMountSource, FSGetMountSourceNext, FSGetPosFile, FSGetStat,
   FSGetStatFile, FSIsEof, FSMakeDir, FSMount, FSOpenDir, FSOpenFile, FSReadDir, FSReadFile,
   FSRemove, FSRename, FSRewindDir, FSSetPosFile, FSTruncateFile, FSUnmount, FSWriteFile}
=============================================================================
