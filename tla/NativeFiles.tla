------------------------------ MODULE NativeFiles -----------------------------
(***************************************************************************)
(* Files of the operating system (NativeOSFile) and of HDFS                *)
(* (NativeHDFSFile): the modes they are opened in, and what calls on open  *)
(* files leave in them.  What the systems do with the flags is external:   *)
(* open(2), and the comment of hdfsOpenFile quoted in NativeHDFSFile.cc.   *)
(***************************************************************************)
EXTENDS Integers, Sequences

CONSTANTS FileNotFoundException, IllegalArgumentException, AssertionFails, IOException

AppendMode == 0
Create == 1
CreateNew == 2
Open == 3
OpenOrCreate == 4
Truncate == 5
Absent == <<"absent">>

accessFlags(fileAccess) ==
  CASE fileAccess = 0 -> {"RDONLY"}
    [] fileAccess = 1 -> {"WRONLY"}
    [] fileAccess = 2 -> {"RDWR"}
    [] OTHER -> IllegalArgumentException
(* Mutant: O_APPEND is left out. *)
osModeFlagsEndOnly(fileMode) ==
  CASE fileMode \in {AppendMode, OpenOrCreate} -> {"CREAT"}
    [] fileMode = Create -> {"CREAT", "TRUNC"}
    [] fileMode = CreateNew -> {"CREAT", "EXCL"}
    [] fileMode = Open -> {}
    [] fileMode = Truncate -> {"TRUNC"}
    [] OTHER -> IllegalArgumentException
osModeFlags(fileMode) ==
  CASE fileMode = AppendMode -> {"APPEND", "CREAT"}
    [] fileMode = Create -> {"CREAT", "TRUNC"}
    [] fileMode = CreateNew -> {"CREAT", "EXCL"}
    [] fileMode = Open -> {}
    [] fileMode = OpenOrCreate -> {"CREAT"}
    [] fileMode = Truncate -> {"TRUNC"}
    [] OTHER -> IllegalArgumentException
\* HDFS appends to a file that is there, and creates the others.
hdfsModeFlags(fileMode, exists) ==
  CASE fileMode = AppendMode -> IF exists THEN {"APPEND"} ELSE {"CREAT"}
    [] fileMode = Create -> {"CREAT", "TRUNC"}
    [] fileMode \in {CreateNew, OpenOrCreate} -> {"CREAT"}
    [] fileMode = Open -> {}
    [] fileMode = Truncate -> {"TRUNC"}
    [] OTHER -> IllegalArgumentException

(* The content of the file once it is open, or the exception. *)
osOpened(content, flags) ==
  IF content = Absent THEN IF "CREAT" \in flags THEN <<>> ELSE FileNotFoundException
  ELSE IF {"CREAT", "EXCL"} \subseteq flags THEN FileNotFoundException
  ELSE IF "TRUNC" \in flags THEN <<>> ELSE content
hdfsOpened(content, flags) ==
  CASE "RDWR" \in flags -> FileNotFoundException
    [] "RDONLY" \in flags -> IF content = Absent THEN FileNotFoundException ELSE content
    [] OTHER -> IF "APPEND" \in flags THEN content ELSE <<>>

Exceptions == {FileNotFoundException, IllegalArgumentException, AssertionFails, IOException}
modeFlags(fs, fileMode, content) ==
  IF fs = "OS" THEN osModeFlags(fileMode) ELSE hdfsModeFlags(fileMode, content # Absent)
(* A file and its handles: what it holds, and the flags and position of each handle, or
   why it was not opened. *)
Fresh(content) == [content |-> content, handle |-> <<>>]
constructor(s, fs, fileMode, fileAccess) ==
  LET mode == modeFlags(fs, fileMode, s.content)
      access == accessFlags(fileAccess)
      flags == mode \cup access
      opened == IF access = IllegalArgumentException \/ mode = IllegalArgumentException
                THEN IllegalArgumentException
                ELSE IF fs = "OS" THEN osOpened(s.content, flags) ELSE hdfsOpened(s.content, flags)
      ok == opened \notin Exceptions
  IN  [content |-> IF ok THEN opened ELSE s.content,
       handle |-> Append(s.handle,
         [fs |-> fs, flags |-> flags, open |-> ok, error |-> IF ok THEN <<>> ELSE <<opened>>,
          pos |-> IF fs = "HDFS" /\ "APPEND" \in flags THEN Len(s.content) ELSE 0])]

Failed(s, i, e) == [s EXCEPT !.handle[i].error = Append(@, e)]
\* What is behind the end of the file up to where a byte is put is zero.
Put(content, at, byte) ==
  [k \in 1 .. IF at < Len(content) THEN Len(content) ELSE at + 1 |->
     IF k = at + 1 THEN byte ELSE IF k <= Len(content) THEN content[k] ELSE 0]
\* HDFS writes where its stream is; its failures are assertions.
writeByte(s, i, byte) ==
  LET h == s.handle[i]
      at == IF h.fs = "OS" /\ "APPEND" \in h.flags THEN Len(s.content) ELSE h.pos
  IN  IF "RDONLY" \in h.flags THEN Failed(s, i, IF h.fs = "OS" THEN IOException ELSE AssertionFails)
      ELSE [s EXCEPT !.content = Put(@, at, byte), !.handle[i].pos = at + 1]
\* The byte read is not kept: what counts is where the next call is.
readByte(s, i) ==
  LET h == s.handle[i] IN
  IF "WRONLY" \in h.flags THEN Failed(s, i, IF h.fs = "OS" THEN IOException ELSE AssertionFails)
  ELSE IF h.pos < Len(s.content) THEN [s EXCEPT !.handle[i].pos = @ + 1] ELSE s
\* origin: 0 from the beginning, 1 from here, 2 from the end.
seek(s, i, offset, origin) ==
  LET h == s.handle[i]
      to == offset + (CASE origin = 0 -> 0 [] origin = 1 -> h.pos [] origin = 2 -> Len(s.content)
                        [] OTHER -> 0)
  IN  CASE origin \notin 0 .. 2 -> Failed(s, i, FileNotFoundException)
        [] h.fs = "HDFS" /\ (h.flags # {"RDONLY"} \/ origin = 2) -> Failed(s, i, AssertionFails)
        [] to < 0 -> Failed(s, i, IOException)
        [] OTHER -> [s EXCEPT !.handle[i].pos = to]
getpos(s, i) == s.handle[i].pos
\* Calls that follow are left out; a file of the operating system may be closed again.
close(s, i) ==
  [s EXCEPT !.handle[i].open = FALSE]

\* A step: the handle, the call, and its offset and origin or the byte it writes.
Did(s, step) ==
  LET i == step[1] IN
  IF ~s.handle[i].open THEN s
  ELSE CASE step[2] = "write" -> writeByte(s, i, step[3])
         [] step[2] = "read" -> readByte(s, i)
         [] step[2] = "seek" -> seek(s, i, step[3], step[4])
         [] step[2] = "close" -> close(s, i)
AfterSteps(s, steps) ==
  LET after[k \in 0 .. Len(steps)] == IF k = 0 THEN s ELSE Did(after[k - 1], steps[k])
  IN  after[Len(steps)]

(* What NativeHDFSFileSystem says of a path: looked up once, when it is made. *)
hdfsFileInfo(kind, size) ==
  [isFile |-> kind = "file", isDirectory |-> kind = "directory", exists |-> kind # "nothing",
   size |-> IF kind = "nothing" THEN -1 ELSE size]
===============================================================================
