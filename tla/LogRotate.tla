------------------------------ MODULE LogRotate ------------------------------
(****************************************************************************)
(* log/rotate/rotate.go: a log writer that changes to a new file when the   *)
(* present one is full, and a background task that closes, removes and      *)
(* compresses the old ones.                                                 *)
(*                                                                          *)
(* Write, Rotate and Close run under the mutex, so at any time at most one  *)
(* is in progress: wpc is its program counter.  The background task takes   *)
(* no mutex; every call of the file system is a step of its own.  A file is *)
(* known by the millisecond in its name; a handle is that of an inode and   *)
(* outlives the name.  The symbolic link to it is not modelled.             *)
(****************************************************************************)
EXTENDS Integers, Sequences, FiniteSets

CONSTANTS
  Length,       \* the lengths of the records that are written, in order
  MaxSize,      \* l.max()
  MaxBackups,
  MaxAge,       \* in milliseconds
  Compress,
  ChanCap,      \* the capacity of oldFileCh: 3 in the code
  MaxTime,      \* bound on the clock
  MaxInode,     \* bound on the files created
  MaxFaults     \* bound on the failures of the file system and the crashes

ASSUME LengthAssumption == Length \in Seq(Nat \ {0})
ASSUME SizeAssumption == MaxSize \in Nat \ {0} /\ ChanCap \in Nat \ {0}
ASSUME BoundsAssumption == MaxTime \in Nat \ {0} /\ MaxInode \in Nat /\ MaxFaults \in Nat
ASSUME PolicyAssumption == MaxBackups \in Nat /\ MaxAge \in Nat /\ Compress \in BOOLEAN

Record == DOMAIN Length
Time   == 1..MaxTime
Inode  == 1..MaxInode

VARIABLES
  now,                  \* currentTime()
  nextRecord,           \* the record of the next Write
  \* the directory and the inodes
  log,                  \* per time: the inode of the file of that name, or 0
  gz, gzData,           \* per time: the state and contents of the archive
  inodes,               \* the number of inodes so far
  name,                 \* per inode
  content, bytes,       \* per inode: its records, and their length
  \* the Logger
  file, size,           \* l.file (0 is nil), l.size
  offset,               \* where the handle l.file writes next
  ch, task,             \* l.oldFileCh, and whether the task was started
  wpc, op, newFile,     \* the call in progress
  \* the background task
  bpc,           \* its program counter, f
  todo, old,            \* entries of the directory to look at, and logFiles
  remove, compress,     \* the variables of CompressOnce
  \* history
  acked, home,          \* the records Write has returned success for, and in which file
  clash,                \* names given to two files
  raced,                \* names taken for old while Write was switching to them
  closeCalled,          \* Close has been called
  faults                \* the number of failures and crashes so far

clock     == <<now, nextRecord>>
archive   == <<gz, gzData>>
data      == <<content, bytes>>
directory == <<log, archive, inodes, name>>
logger    == <<file, size, offset, ch, task>>
writer    == <<wpc, op, newFile>>
sweep     == <<todo, old, remove, compress>>
bg        == <<bpc, sweep>>
ghosts    == <<acked, home, clash, raced, closeCalled>>
facts     == <<ghosts, faults>>
vars      == <<clock, directory, data, logger, writer, bg, facts>>

Entry == [t : Time, kind : {"log", "gz"}]

TypeOK ==
  /\ now \in Time /\ nextRecord \in 1..(Len(Length) + 1)
  /\ log \in [Time -> Inode \cup {0}]
  /\ gz \in [Time -> {"none", "partial", "done"}]
  /\ gzData \in [Time -> SUBSET Record]
  /\ inodes \in 0..MaxInode
  /\ name \in [Inode -> Time \cup {0}]
  /\ content \in [Inode -> SUBSET Record] /\ bytes \in [Inode -> Nat]
  /\ file \in Inode \cup {0} /\ size \in 0..MaxSize /\ offset \in Nat
  /\ ch \in Seq(Inode) /\ Len(ch) <= ChanCap /\ task \in BOOLEAN
  /\ wpc \in {"idle", "open", "send", "assign", "write"}
  /\ op \in {"none", "write", "rotate"} /\ newFile \in Inode \cup {0}
  /\ bpc \in {"recv", "list", "scan", "remove", "copy", "unlink"}
  /\ todo \subseteq Entry /\ old \subseteq Entry
  /\ remove \subseteq Entry /\ compress \subseteq Entry
  /\ acked \subseteq Record /\ home \in [Record -> Time \cup {0}]
  /\ clash \subseteq Time /\ raced \subseteq Time
  /\ closeCalled \in BOOLEAN /\ faults \in 0..MaxFaults

Init ==
  /\ now = 1 /\ nextRecord = 1
  /\ log = [t \in Time |-> 0]
  /\ gz = [t \in Time |-> "none"] /\ gzData = [t \in Time |-> {}]
  /\ inodes = 0
  /\ name = [i \in Inode |-> 0]
  /\ content = [i \in Inode |-> {}] /\ bytes = [i \in Inode |-> 0]
  /\ acked = {} /\ home = [r \in Record |-> 0]
  /\ clash = {} /\ raced = {} /\ closeCalled = FALSE /\ faults = 0
  /\ file = 0 /\ size = 0 /\ offset = 0 /\ ch = <<>> /\ task = FALSE
  /\ wpc = "idle" /\ op = "none" /\ newFile = 0
  /\ bpc = "recv"
  /\ todo = {} /\ old = {} /\ remove = {} /\ compress = {}

------------------------------------------------------------------------------
(* Write, Rotate and Close: l.mu is held from the call to the return *)

\* Whether Write goes on at once, or rotates first as Rotate does
Begin(what) ==
  IF what = "write" /\ file # 0 /\ size + Length[nextRecord] <= MaxSize THEN "write" ELSE "open"

\* Write is called and gets the mutex.  A record longer than a file is refused;
\* a full file, or none, leads to rotate().
WriteCall ==
  /\ wpc = "idle" /\ nextRecord \in Record
  /\ Begin("write") = "open" => inodes < MaxInode
  /\ IF Length[nextRecord] > MaxSize
     THEN nextRecord' = nextRecord + 1 /\ UNCHANGED <<wpc, op>>
     ELSE wpc' = Begin("write") /\ op' = "write" /\ UNCHANGED nextRecord
  /\ UNCHANGED <<now, directory, data, logger, newFile, bg, facts>>

RotateCall ==
  /\ wpc = "idle" /\ inodes < MaxInode
  /\ wpc' = "open" /\ op' = "rotate"
  /\ UNCHANGED <<clock, directory, data, logger, newFile, bg, facts>>

Close ==
  /\ wpc = "idle"
  /\ file' = 0
  /\ closeCalled' = TRUE
  /\ UNCHANGED <<clock, directory, data, size, offset, ch, task, writer, bg,
                 acked, home, clash, raced, faults>>

\* Write gives up on its record: it returns an error.
Return ==
  /\ wpc' = "idle" /\ op' = "none" /\ newFile' = 0
  /\ nextRecord' = IF op = "write" THEN nextRecord + 1 ELSE nextRecord

\* Something fails: what the model may still do of the kind.
Fault == faults < MaxFaults /\ faults' = faults + 1

\* MkdirAll or OpenFile fails.
OpenFails ==
  /\ wpc = "open"
  /\ Fault
  /\ Return
  /\ UNCHANGED <<now, directory, data, logger, bg, ghosts>>

\* currentTime() is not earlier than it was.
Later == now' \in now..MaxTime

\* OpenFile(genName(..), O_CREATE|O_TRUNC): an existing file of that name is
\* emptied.  Then Remove and Symlink; if that fails, rotate() returns, with the
\* file left in the directory and its handle open.
Open ==
  /\ wpc = "open"
  /\ Later
  /\ \E f \in Inode :
       /\ IF log[now'] # 0
          THEN f = log[now'] /\ UNCHANGED <<log, inodes, name>>
          ELSE /\ f = inodes + 1 /\ inodes' = f
               /\ log' = [log EXCEPT ![now'] = f]
               /\ name' = [name EXCEPT ![f] = now']
       /\ clash' = IF log[now'] = 0 /\ gz[now'] = "none" THEN clash ELSE clash \cup {now'}
       /\ content' = [content EXCEPT ![f] = {}] /\ bytes' = [bytes EXCEPT ![f] = 0]
       /\ \/ /\ wpc' = IF file = 0 THEN "assign" ELSE "send"
             /\ newFile' = f
             /\ UNCHANGED <<nextRecord, op, faults>>
          \/ Fault /\ Return
  /\ UNCHANGED <<archive, logger, bg, acked, home, raced, closeCalled>>

\* Mutant: l.file is nil once the old file has been handed over.
SendClears ==
  /\ wpc = "send" /\ task /\ Len(ch) < ChanCap
  /\ ch' = Append(ch, file)
  /\ file' = 0
  /\ wpc' = "assign"
  /\ UNCHANGED <<clock, directory, data, size, offset, task, op, newFile, bg, facts>>

\* l.oldFileCh <- oldFile
Send ==
  /\ wpc = "send" /\ task /\ Len(ch) < ChanCap
  /\ ch' = Append(ch, file)
  /\ wpc' = "assign"
  /\ UNCHANGED <<clock, directory, data, file, size, offset, task, op, newFile, bg, facts>>

\* Mutant: runTask() is not called.
AssignOnly ==
  /\ wpc = "assign"
  /\ file' = newFile /\ size' = 0 /\ offset' = 0
  /\ IF op = "write"
     THEN wpc' = "write" /\ newFile' = 0 /\ UNCHANGED <<op, nextRecord>>
     ELSE Return
  /\ UNCHANGED <<now, directory, data, ch, task, bg, facts>>

\* l.file = f; l.size = 0; runTask()
Assign ==
  /\ wpc = "assign"
  /\ file' = newFile /\ size' = 0 /\ offset' = 0 /\ task' = TRUE
  /\ IF op = "write"
     THEN wpc' = "write" /\ newFile' = 0 /\ UNCHANGED <<op, nextRecord>>
     ELSE Return
  /\ UNCHANGED <<now, directory, data, ch, bg, facts>>

\* n bytes go to where the handle stands.  A file that was emptied under the
\* handle has a hole up to there.
Put(n) ==
  /\ offset' = offset + n
  /\ bytes' = IF n = 0 THEN bytes ELSE [bytes EXCEPT ![file] = offset + n]

\* l.file.Write(p); l.size += n
Write ==
  /\ wpc = "write"
  /\ content' = [content EXCEPT ![file] = @ \cup {nextRecord}]
  /\ Put(Length[nextRecord])
  /\ size' = size + Length[nextRecord]
  /\ acked' = acked \cup {nextRecord}
  /\ home' = [home EXCEPT ![nextRecord] = name[file]]
  /\ Return
  /\ UNCHANGED <<now, directory, file, ch, task, bg, clash, raced, closeCalled, faults>>

\* Mutant: l.size counts the bytes of a write that succeeds only.
WriteUncounted ==
  /\ wpc = "write"
  /\ Fault
  /\ \E n \in 0..(Length[nextRecord] - 1) : Put(n)
  /\ Return
  /\ UNCHANGED <<now, directory, content, file, size, ch, task, bg, ghosts>>

\* The file system refuses the write after n bytes of the record, which stay in
\* the file and count.
WriteFails ==
  /\ wpc = "write"
  /\ Fault
  /\ \E n \in 0..(Length[nextRecord] - 1) : Put(n) /\ size' = size + n
  /\ Return
  /\ UNCHANGED <<now, directory, content, file, ch, task, bg, ghosts>>

------------------------------------------------------------------------------
(* The background task: run and CompressOnce *)

WriterUnchanged == UNCHANGED <<clock, logger, writer, data>>

Goto(label) == bpc' = label

\* for f := range l.oldFileCh: f.Close(), and CompressOnce if it has something
\* to do
Receive ==
  /\ bpc = "recv" /\ task /\ ch # <<>>
  /\ ch' = Tail(ch)
  /\ Goto(IF MaxBackups = 0 /\ MaxAge = 0 /\ ~ Compress THEN "recv" ELSE "list")
  /\ UNCHANGED <<clock, directory, data, file, size, offset, task, writer, sweep, facts>>

\* ioutil.ReadDir(l.dir())
List ==
  /\ bpc = "list"
  /\ todo' = {e \in Entry : IF e.kind = "log" THEN log[e.t] # 0 ELSE gz[e.t] # "none"}
  /\ Goto("scan")
  /\ WriterUnchanged
  /\ UNCHANGED <<directory, old, remove, compress, facts>>

ListFails ==
  /\ bpc = "list"
  /\ Fault
  /\ Goto("recv")
  /\ WriterUnchanged
  /\ UNCHANGED <<directory, sweep, ghosts>>

\* ReadDir lists the entries by name.
First(S) ==
  {e \in S : \A d \in S : e.t < d.t \/ (e.t = d.t /\ (e.kind = "log" \/ d.kind = "gz"))}

\* One round of the loop of oldLogFiles.  l.file is read without the mutex.
Scan ==
  /\ bpc = "scan" /\ todo # {} /\ file # 0
  /\ \E e \in First(todo) :
       /\ todo' = todo \ {e}
       /\ IF e.kind = "log" /\ e.t = name[file]
          THEN UNCHANGED <<old, raced>>
          ELSE /\ old' = old \cup {e}
               /\ raced' = IF newFile # 0 /\ e.t = name[newFile] THEN raced \cup {e.t} ELSE raced
  /\ WriterUnchanged
  /\ UNCHANGED <<directory, bpc, remove, compress, acked, home, clash, closeCalled, faults>>

\* The names of `old' that are among the newest MaxBackups.
Preserved ==
  LET names == {e.t : e \in old}
  IN  IF MaxBackups = 0 THEN names
      ELSE {t \in names : Cardinality({u \in names : u > t}) < MaxBackups}

\* Older than currentTime().Add(-1 * diff)
TooOld(t) == MaxAge > 0 /\ t < now - MaxAge

\* CompressOnce decides what to remove and what to compress.
Decide ==
  /\ bpc = "scan" /\ todo = {}
  /\ IF MaxAge > 0 THEN Later ELSE UNCHANGED now
  /\ LET remaining == {e \in old : e.t \in Preserved /\ ~ TooOld(e.t)'}
     IN  /\ remove' = old \ remaining
         /\ compress' = IF Compress THEN {e \in remaining : e.kind = "log"} ELSE {}
  /\ old' = {}
  /\ Goto("remove")
  /\ UNCHANGED <<nextRecord, logger, writer, data, directory, todo, facts>>

Newest(S) == {e \in S : \A d \in S : d.t <= e.t}

Archive(t, state, records) ==
  gz' = [gz EXCEPT ![t] = state] /\ gzData' = [gzData EXCEPT ![t] = records]

\* for _, f := range remove: the error of an os.Remove is only reported.
Remove ==
  /\ bpc = "remove"
  /\ \E e \in Newest(remove) :
       /\ remove' = remove \ {e}
       /\ \/ Fault /\ UNCHANGED <<log, archive>>
          \/ e.kind = "log" /\ log' = [log EXCEPT ![e.t] = 0] /\ UNCHANGED <<archive, faults>>
          \/ e.kind = "gz" /\ Archive(e.t, "none", {}) /\ UNCHANGED <<log, faults>>
  /\ WriterUnchanged
  /\ UNCHANGED <<inodes, name, bpc, todo, old, compress, ghosts>>

\* for _, f := range compress: compressLogFile opens the file; chown and then
\* OpenFile create or empty the archive.  If one of them fails the file is
\* skipped, and an archive that chown has emptied stays.
Create ==
  /\ bpc = "remove" /\ remove = {}
  /\ \E e \in Newest(compress) :
       \/ /\ compress' = compress \ {e} /\ Fault /\ UNCHANGED bpc
          /\ UNCHANGED archive \/ Archive(e.t, "partial", {})
       \/ Archive(e.t, "partial", {}) /\ Goto("copy") /\ UNCHANGED <<compress, faults>>
  /\ WriterUnchanged
  /\ UNCHANGED <<log, inodes, name, todo, old, remove, ghosts>>

\* The deferred os.Remove(dst) after an error
GiveUp(e) ==
  /\ Fault
  /\ Archive(e.t, "none", {})
  /\ compress' = compress \ {e}
  /\ Goto("remove")

\* Mutant: the error of the copy is not looked at.
CopyRegardless ==
  /\ bpc = "copy"
  /\ \E e \in Newest(compress) :
       \/ Archive(e.t, "done", content[log[e.t]]) /\ UNCHANGED faults
       \/ Fault /\ UNCHANGED archive
  /\ Goto("unlink")
  /\ WriterUnchanged
  /\ UNCHANGED <<log, inodes, name, todo, old, remove, compress, ghosts>>

\* io.Copy, gz.Close and gzf.Close
Copy ==
  /\ bpc = "copy"
  /\ \E e \in Newest(compress) :
       \/ Archive(e.t, "done", content[log[e.t]]) /\ Goto("unlink") /\ UNCHANGED <<compress, faults>>
       \/ GiveUp(e)
  /\ WriterUnchanged
  /\ UNCHANGED <<log, inodes, name, todo, old, remove, ghosts>>

\* os.Remove(src)
Unlink ==
  /\ bpc = "unlink"
  /\ \E e \in Newest(compress) :
       \/ /\ log' = [log EXCEPT ![e.t] = 0]
          /\ compress' = compress \ {e}
          /\ Goto("remove")
          /\ UNCHANGED <<archive, faults>>
       \/ GiveUp(e) /\ UNCHANGED log
  /\ WriterUnchanged
  /\ UNCHANGED <<inodes, name, todo, old, remove, ghosts>>

\* CompressOnce returns.
Swept ==
  /\ bpc = "remove" /\ remove = {} /\ compress = {}
  /\ Goto("recv")
  /\ WriterUnchanged
  /\ UNCHANGED <<directory, sweep, facts>>

------------------------------------------------------------------------------
(* The environment *)

\* The process ends and another one starts.
Restart ==
  /\ file' = 0 /\ size' = 0 /\ offset' = 0 /\ ch' = <<>> /\ task' = FALSE
  /\ wpc' = "idle" /\ op' = "none" /\ newFile' = 0
  /\ bpc' = "recv"
  /\ todo' = {} /\ old' = {} /\ remove' = {} /\ compress' = {}
  /\ closeCalled' = FALSE
  /\ nextRecord' = IF op = "write" THEN nextRecord + 1 ELSE nextRecord
  /\ UNCHANGED <<now, directory, data, acked, home, clash, raced>>

Crash == Fault /\ Restart

\* l.file.Name() of a nil file panics, in a goroutine nobody recovers.
Panic ==
  /\ bpc = "scan" /\ todo # {} /\ file = 0
  /\ Restart /\ UNCHANGED faults

------------------------------------------------------------------------------
Calls == WriteCall \/ RotateCall \/ Close

WriterStep ==
  OpenFails \/ Open \/ Send \/ Assign \/ Write \/ WriteFails

TaskStep ==
  \/ Receive \/ List \/ ListFails \/ Scan \/ Panic \/ Decide
  \/ Remove \/ Create \/ Copy \/ Unlink \/ Swept

Next == Calls \/ WriterStep \/ TaskStep \/ Crash

\* The goroutines run; nobody has to write, and the process need not crash.
Spec == Init /\ [][Next]_vars /\ WF_vars(WriterStep) /\ WF_vars(TaskStep)

------------------------------------------------------------------------------
(* Properties *)

\* The records in the file of that name and in its archive, if complete.
Kept(t) ==
  (IF log[t] = 0 THEN {} ELSE content[log[t]]) \cup (IF gz[t] = "done" THEN gzData[t] ELSE {})

\* The names of archives and of old log files.  The name of the present file
\* counts when it was another file's before, or was taken for old.
Current == IF file = 0 THEN 0 ELSE name[file]
Backups ==
  {t \in Time : (log[t] # 0 /\ t \notin {Current} \ (clash \cup raced)) \/ gz[t] # "none"}

\* The policy lets a file go: MaxBackups newer ones exist, or it is too old.
Expired(t) ==
  \/ MaxBackups > 0 /\ Cardinality({u \in Backups : u > t}) >= MaxBackups
  \/ TooOld(t)

\* A record that Write has reported written is in a log file or in a complete
\* archive, at every step of a rotation, a sweep or a crash in the middle of a
\* compression, until it expires.  It can be lost otherwise only when two
\* files were given one name (two rotations in a millisecond), or when the
\* sweep took for old the file Write was just switching to.
NothingLost ==
  \A r \in acked : r \in Kept(home[r]) \/ Expired(home[r]) \/ home[r] \in clash \cup raced

\* A name that the sweep takes out of the directory: the policy lets it go, or
\* a complete archive has all that its file has.
FileStep ==
  \A t \in Time : log[t] # 0 /\ log'[t] = 0 =>
    \/ Expired(t)
    \/ gz[t] = "done" /\ content[log[t]] \subseteq gzData[t]
    \/ t \in clash \cup raced

\* A complete archive goes, or is begun anew, only while its file is there.
ArchiveStep ==
  \A t \in Time : gz[t] = "done" /\ gz'[t] # "done" => Expired(t) \/ log[t] # 0

\* Old files do not change: the present one grows, and a file whose name comes
\* again is emptied.
ContentStep ==
  \A t \in Time : log[t] # 0 /\ content'[log[t]] # content[log[t]] =>
    \/ log[t] = file /\ content[file] \subseteq content'[file]
    \/ t \in clash'

\* No step of a sweep, of a call or of a crash takes a file or an archive away
\* before the other one is there, or writes to a file that was handed over.
ReplacedBeforeRemoved == [][FileStep /\ ArchiveStep /\ ContentStep]_vars

\* No file outgrows MaxSize, because l.size never underestimates it: across
\* rotations, writes that fail with a part of the record in the file, and the
\* emptying of a file whose name comes again.
SizeBounded ==
  /\ \A f \in Inode : bytes[f] <= MaxSize
  /\ file # 0 => bytes[file] <= size

\* The background task reads a nil l.file, and panics, only when the Logger
\* has been closed.
NilOnlyAfterClose ==
  bpc = "scan" /\ file = 0 => closeCalled

\* Whoever is inside Write or Rotate returns, although it waits for room in
\* oldFileCh with the mutex held.
WriteReturns == (wpc # "idle") ~> (wpc = "idle")
==============================================================================
