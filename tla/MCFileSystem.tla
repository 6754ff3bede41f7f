---------------------------- MODULE MCFileSystem ----------------------------
(* Small games with two users of one FSClient, on one core or on two.       *)
EXTENDS FileSystem

CONSTANTS u1, u2, io0, io1

MCUser == {u1, u2}
MCIOThread == {io0, io1}
MCHome == u1 :> io0 @@ u2 :> io1
MCHostErrors == {"NotFound", "AlreadyExists"}

Quiet ==
  [calls |-> {}, transfers |-> {}, priorities |-> {}, errors |-> {}, sync |-> {TRUE},
   refused |-> FALSE, deletes |-> FALSE,
   most |-> u1 :> 2 @@ u2 :> 1]

\* every call of one request that is about no handle, and its bad arguments
Paths ==
  [Quiet EXCEPT
     !.calls = {FSChangeDir, FSFlushQuota, FSGetCwd, FSGetDirSize, FSGetFreeSpaceSize, FSGetStat,
                FSMakeDir, FSMount, FSRemove, FSRename, FSUnmount},
     !.refused = TRUE, !.most = u1 :> 1 @@ u2 :> 0]

Files ==
  [Quiet EXCEPT
     !.calls = {FSOpenFile, FSCloseFile, FSFlushFile, FSGetPosFile, FSGetStatFile, FSIsEof,
                FSSetPosFile, FSTruncateFile},
     !.most = u1 :> 3 @@ u2 :> 0]

Folders ==
  [Quiet EXCEPT !.calls = {FSOpenDir, FSReadDir, FSRewindDir, FSCloseDir, FSOpenFile}]

\* asynchronous calls of different priorities
Priorities == [Quiet EXCEPT !.calls = {FSGetCwd}, !.priorities = {0, 1}, !.sync = {FALSE}]

\* reads and writes in pieces
Transferring ==
  [Quiet EXCEPT !.calls = {FSOpenFile, FSReadFile, FSWriteFile},
                !.transfers = {<<2, 2>>}]

\* commands that go to the front of the queue
MountSources ==
  [Quiet EXCEPT !.calls = {FSGetMountSource, FSGetCwd}, !.priorities = {1},
                !.most = [u \in User |-> 1]]

\* errors asked for by the game
Errors ==
  [Quiet EXCEPT !.calls = {FSMount, FSGetCwd}, !.errors = {"Busy", "NotFound"}]

Failures ==
  [Quiet EXCEPT !.calls = {FSGetCwd}, !.errors = {"WriteProtected", "MediaError"},
                !.refused = TRUE]

\* the client is deleted while commands are under way
Deleters ==
  [Quiet EXCEPT !.calls = {FSGetCwd}, !.sync = {TRUE, FALSE}, !.deletes = TRUE]

MountDeleters ==
  [Quiet EXCEPT !.calls = {FSGetMountSource}, !.deletes = TRUE,
                !.most = u1 :> 1 @@ u2 :> 0]

MCPrograms ==
  {Paths, Files, Folders, Priorities, Transferring, MountSources, Errors, Failures, Deleters,
   MountDeleters}
=============================================================================
