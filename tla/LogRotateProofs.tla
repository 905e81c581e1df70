--------------------------- MODULE LogRotateProofs ---------------------------
(****************************************************************************)
(* Theorems about LogRotate, for every sequence of records, size of a file, *)
(* policy, capacity of the channel and number of failures and crashes.      *)
(*                                                                          *)
(* The invariant LogInv is a conjunction of parts.  Those about the size    *)
(* and the control of a call are inductive together; NothingLost needs, on  *)
(* top of them, what the sweep knows of the directory while it is at work.  *)
(****************************************************************************)
EXTENDS LogRotate, FiniteSetTheorems, TLAPS

\* Where a call stands says which of its variables are set, and the task that
\* looks at l.file runs only once there has been one.
ControlInv ==
  /\ wpc \in {"send", "assign"} <=> newFile # 0
  /\ wpc = "idle" <=> op = "none"
  /\ wpc = "write" => op = "write"
  /\ wpc \in {"send", "write"} => file # 0
  /\ op = "write" => nextRecord \in Record /\ Length[nextRecord] <= MaxSize
  /\ bpc # "recv" => task
  /\ task /\ file = 0 => closeCalled

\* l.size never underestimates the file, because it is where the handle writes,
\* and the new file is empty.
SizeInv ==
  /\ SizeBounded
  /\ offset = size
  /\ newFile # 0 => bytes[newFile] = 0
  /\ wpc = "write" => size + Length[nextRecord] <= MaxSize

Listed(e) == IF e.kind = "log" THEN log[e.t] # 0 ELSE gz[e.t] # "none"
Exists(t) == log[t] # 0 \/ gz[t] # "none"

\* What the sweep has listed is still there when it comes to it, and each of
\* its variables is in use only where the code has it in scope.
SweepInv ==
  /\ \A e \in todo \cup old \cup remove \cup compress : Listed(e)
  /\ bpc \in {"recv", "list"} => todo = {} /\ old = {} /\ remove = {} /\ compress = {}
  /\ bpc = "scan" => remove = {} /\ compress = {}
  /\ bpc \in {"remove", "copy", "unlink"} => todo = {} /\ old = {}
  /\ bpc \in {"copy", "unlink"} => remove = {} /\ compress # {}
  /\ \A e \in compress : e.kind = "log" /\ e \notin remove

\* An entry of the directory leads to a file of that name.
FilesInv ==
  /\ \A t \in Time : log[t] <= inodes /\ (log[t] # 0 => name[log[t]] = t)
  /\ \A f \in Inode : f <= inodes => name[f] # 0
  /\ file <= inodes /\ newFile <= inodes

\* A name of one file only, that the sweep did not mistake for old
Clean(t) == t \notin clash \cup raced

\* The names of the file in use and of the one being switched to
InUse(t) == \E f \in {file, newFile} : f # 0 /\ name[f] = t

\* Unless its name was taken twice or mistaken, a file in use is in the
\* directory under its name, with no archive beside it, and is no entry of a
\* sweep.
CleanInv ==
  /\ \A f \in {file, newFile} :
       f # 0 /\ Clean(name[f]) => log[name[f]] = f /\ gz[name[f]] = "none"
  /\ \A e \in old \cup remove \cup compress : InUse(e.t) => ~ Clean(e.t)

\* A name that counts as a backup and will until a sweep removes it.
Solid(t) == Exists(t) /\ (InUse(t) => ~ Clean(t))
Newer(t) == {u \in Time : u > t /\ Solid(u)}

\* The policy lets go of the name, and will not take that back.
Gone(t) == TooOld(t) \/ (MaxBackups > 0 /\ Cardinality(Newer(t)) >= MaxBackups)

\* The records that are read back under a name: those of the file, or if it is
\* not there those of its archive.
OnDisk(t) ==
  IF log[t] # 0 THEN content[log[t]] ELSE IF gz[t] = "done" THEN gzData[t] ELSE {}

\* A file is removed with the policy's leave, or when its archive is complete.
RemoveInv ==
  /\ \A e \in remove : Gone(e.t)
  /\ bpc = "unlink" =>
       \A e \in Newest(compress) :
         gz[e.t] = "done" /\ (Clean(e.t) => content[log[e.t]] \subseteq gzData[e.t])

KeptInv ==
  \A r \in acked :
    /\ home[r] # 0
    /\ Clean(home[r]) => r \in OnDisk(home[r]) \/ Gone(home[r])

LogInv ==
  /\ TypeOK /\ ControlInv /\ SizeInv /\ SweepInv /\ FilesInv
  /\ CleanInv /\ RemoveInv /\ KeptInv

USE DEF clock, archive, data, directory, logger, writer, sweep, bg, ghosts, facts

Basic == TypeOK /\ ControlInv /\ SizeInv
Core  == Basic /\ SweepInv

------------------------------------------------------------------------------
(* The calls, their sizes, and the nil file *)

LEMMA RecordsOfLength ==
  ASSUME NEW r \in Record
  PROVE  Length[r] \in Nat \ {0} /\ Record = 1..Len(Length) /\ Len(Length) \in Nat
BY LengthAssumption DEF Record

LEMMA CoreInit == Init => Core
<1> SUFFICES ASSUME Init PROVE Core
    OBVIOUS
<1>1. now \in Time /\ nextRecord \in 1..(Len(Length) + 1) /\ inodes \in 0..MaxInode
      BY LengthAssumption, BoundsAssumption DEF Init, Time
<1>2. /\ log \in [Time -> Inode \cup {0}]
      /\ gz \in [Time -> {"none", "partial", "done"}] /\ gzData \in [Time -> SUBSET Record]
      /\ name \in [Inode -> Time \cup {0}] /\ content \in [Inode -> SUBSET Record]
      /\ bytes \in [Inode -> Nat] /\ home \in [Record -> Time \cup {0}]
      BY DEF Init
<1>3. ch \in Seq(Inode) /\ Len(ch) <= ChanCap /\ size \in 0..MaxSize /\ faults \in 0..MaxFaults
      BY SizeAssumption, BoundsAssumption DEF Init
<1>4. TypeOK
      BY <1>1, <1>2, <1>3 DEF Init, TypeOK
<1>5. ControlInv /\ SizeInv /\ SweepInv
      BY SizeAssumption DEF Init, ControlInv, SizeInv, SizeBounded, SweepInv
<1> QED BY <1>4, <1>5 DEF Core, Basic

\* A call begins, is refused, or Close drops the file.
LEMMA CoreCalls == Core /\ Calls => Basic'
<1> SUFFICES ASSUME Core, Calls PROVE Basic'
    OBVIOUS
<1> USE LengthAssumption, SizeAssumption, BoundsAssumption
    DEF Core, Basic
<1>1. CASE WriteCall
  <2>1. Length[nextRecord] \in Nat \ {0} /\ nextRecord + 1 \in 1..(Len(Length) + 1)
        BY <1>1, RecordsOfLength DEF WriteCall, Record
  <2>2. TypeOK'
        BY <1>1, <2>1 DEF WriteCall, TypeOK, Begin
  <2>3. ControlInv'
        BY <1>1, <2>1 DEF WriteCall, ControlInv, Begin, TypeOK
  <2>4. SizeInv'
        BY <1>1, <2>1 DEF WriteCall, SizeInv, SizeBounded, Begin, TypeOK, ControlInv
  <2> QED BY <2>2, <2>3, <2>4
<1>2. CASE RotateCall
  <2>1. TypeOK'
        BY <1>2 DEF RotateCall, TypeOK
  <2>2. ControlInv' /\ SizeInv'
        BY <1>2 DEF RotateCall, ControlInv, SizeInv, SizeBounded, TypeOK
  <2> QED BY <2>1, <2>2
<1>3. CASE Close
  <2>1. TypeOK'
        BY <1>3 DEF Close, TypeOK
  <2>2. ControlInv' /\ SizeInv'
        BY <1>3 DEF Close, ControlInv, SizeInv, SizeBounded, TypeOK
  <2> QED BY <2>1, <2>2
<1> QED BY <1>1, <1>2, <1>3 DEF Calls

\* What a call that ends, for whatever reason, does to the record counter.
LEMMA ReturnMoves ==
  ASSUME Core, Return
  PROVE  /\ nextRecord' \in 1..(Len(Length) + 1)
         /\ wpc' = "idle" /\ op' = "none" /\ newFile' = 0
<1>1. CASE op = "write"
      BY <1>1, LengthAssumption DEF Return, Core, Basic, ControlInv, TypeOK, Record
<1>2. CASE op # "write"
      BY <1>2, LengthAssumption DEF Return, Core, Basic, TypeOK
<1> QED BY <1>1, <1>2

LEMMA CoreOpen == Core /\ Open => Basic'
<1> SUFFICES ASSUME Core, Open PROVE Basic'
    OBVIOUS
<1> USE LengthAssumption, SizeAssumption, BoundsAssumption DEF Core, Basic
<1>1. now' \in Time
      BY DEF Open, Later, TypeOK, Time
<1>2. PICK f \in Inode :
        /\ IF log[now'] # 0
           THEN f = log[now'] /\ UNCHANGED <<log, inodes, name>>
           ELSE /\ f = inodes + 1 /\ inodes' = f
                /\ log' = [log EXCEPT ![now'] = f]
                /\ name' = [name EXCEPT ![f] = now']
        /\ clash' = IF log[now'] = 0 /\ gz[now'] = "none" THEN clash ELSE clash \cup {now'}
        /\ content' = [content EXCEPT ![f] = {}] /\ bytes' = [bytes EXCEPT ![f] = 0]
        /\ \/ /\ wpc' = IF file = 0 THEN "assign" ELSE "send"
              /\ newFile' = f
              /\ UNCHANGED <<nextRecord, op, faults>>
           \/ Fault /\ Return
      BY DEF Open
<1>3. f # 0 /\ f \in Nat
      BY DEF Inode
<1>4. /\ log' \in [Time -> Inode \cup {0}] /\ inodes' \in 0..MaxInode
      /\ name' \in [Inode -> Time \cup {0}] /\ content' \in [Inode -> SUBSET Record]
      /\ bytes' \in [Inode -> Nat] /\ clash' \subseteq Time
  <2>1. inodes' \in 0..MaxInode
        BY <1>2 DEF TypeOK, Inode
  <2>2. /\ log' \in [Time -> Inode \cup {0}] /\ name' \in [Inode -> Time \cup {0}]
        /\ clash' \subseteq Time
        BY <1>1, <1>2 DEF TypeOK
  <2>3. content' \in [Inode -> SUBSET Record] /\ bytes' \in [Inode -> Nat]
        BY <1>2 DEF TypeOK
  <2> QED BY <2>1, <2>2, <2>3
<1>5. /\ wpc' \in {"idle", "assign", "send"} /\ newFile' \in Inode \cup {0}
      /\ op' \in {"none", "write", "rotate"} /\ nextRecord' \in 1..(Len(Length) + 1)
      /\ faults' \in 0..MaxFaults
      BY <1>2, ReturnMoves DEF TypeOK, Fault
<1>6. TypeOK'
  <2>1. UNCHANGED <<gz, gzData, file, size, offset, ch, task, bpc, todo, old, remove, compress,
                    acked, home, raced, closeCalled>>
        BY DEF Open
  <2>2. TypeOK
        OBVIOUS
  <2> HIDE DEF Core, Basic
  <2> QED BY <1>1, <1>4, <1>5, <2>1, <2>2 DEF TypeOK
<1>7. ControlInv'
      BY <1>2, <1>3, ReturnMoves DEF Open, ControlInv
<1>8. SizeInv'
  <2>1. \A g \in Inode : bytes'[g] <= MaxSize /\ bytes'[g] <= bytes[g]
        BY <1>2 DEF SizeInv, SizeBounded, TypeOK
  <2>2. size' = size /\ offset' = size /\ file' = file /\ (file # 0 => bytes'[file] <= size)
        BY <2>1, <1>2 DEF Open, SizeInv, SizeBounded, TypeOK
  <2>3. newFile' # 0 => bytes'[newFile'] = 0
        BY <1>2, ReturnMoves DEF TypeOK
  <2>4. wpc' # "write"
        BY <1>2, ReturnMoves
  <2> QED BY <2>1, <2>2, <2>3, <2>4 DEF SizeInv, SizeBounded
<1> QED BY <1>6, <1>7, <1>8

\* Bytes that fit keep the file within its bound and behind l.size.
LEMMA PutBounded ==
  ASSUME Core, file \in Inode, NEW k \in Nat, Put(k), size' = size + k, size + k <= MaxSize
  PROVE  /\ bytes' \in [Inode -> Nat] /\ offset' = size' /\ size' \in 0..MaxSize
         /\ \A f \in Inode : bytes'[f] <= MaxSize
         /\ bytes'[file] <= size'
<1>1. /\ offset = size /\ size \in Nat /\ file # 0 /\ bytes \in [Inode -> Nat] /\ MaxSize \in Nat
      /\ \A f \in Inode : bytes[f] <= MaxSize
      /\ bytes[file] <= size
      BY SizeAssumption DEF Core, Basic, TypeOK, SizeInv, SizeBounded, Inode
<1>2. CASE k = 0
      BY <1>1, <1>2 DEF Put
<1>3. CASE k # 0
      BY <1>1, <1>3 DEF Put
<1> QED BY <1>2, <1>3

\* The steps of a call: open, hand over, assign, write.
LEMMA CoreWriter == Core /\ WriterStep => Basic'
<1> SUFFICES ASSUME Core, WriterStep PROVE Basic'
    OBVIOUS
<1> USE LengthAssumption, SizeAssumption, BoundsAssumption DEF Core, Basic
<1>1. CASE OpenFails
  <2>1. TypeOK'
    <3>1. /\ nextRecord' \in 1..(Len(Length) + 1) /\ wpc' = "idle" /\ op' = "none"
          /\ newFile' = 0 /\ faults' \in 0..MaxFaults
          BY <1>1, ReturnMoves DEF OpenFails, TypeOK, Fault
    <3>2. UNCHANGED <<now, directory, data, logger, bg, ghosts>>
          BY <1>1 DEF OpenFails
    <3> QED BY <3>1, <3>2 DEF TypeOK
  <2>2. ControlInv' /\ SizeInv'
        BY <1>1, ReturnMoves DEF OpenFails, ControlInv, SizeInv, SizeBounded
  <2> QED BY <2>1, <2>2
<1>2. CASE Open
      BY <1>2, CoreOpen
<1>3. CASE Send
  <2>1. file \in Inode
        BY <1>3 DEF Send, TypeOK, ControlInv
  <2>2. TypeOK'
        BY <1>3, <2>1 DEF Send, TypeOK
  <2>3. ControlInv' /\ SizeInv'
        BY <1>3 DEF Send, ControlInv, SizeInv, SizeBounded
  <2> QED BY <2>2, <2>3
<1>4. CASE Assign
  <2>1. newFile \in Inode /\ newFile # 0
        BY <1>4 DEF Assign, TypeOK, ControlInv, Inode
  <2>2. TypeOK'
        BY <1>4, <2>1, ReturnMoves DEF Assign, TypeOK
  <2>3. ControlInv'
        BY <1>4, <2>1, ReturnMoves DEF Assign, ControlInv
  <2>4. op = "write" => Length[nextRecord] \in Nat
        BY RecordsOfLength DEF ControlInv
  <2>5. SizeInv'
    <3>1. CASE op = "write"
          BY <1>4, <2>1, <2>4, <3>1 DEF Assign, SizeInv, SizeBounded, ControlInv, TypeOK
    <3>2. CASE op # "write"
          BY <1>4, <2>1, <3>2 DEF Assign, Return, SizeInv, SizeBounded, TypeOK
    <3> QED BY <3>1, <3>2
  <2> QED BY <2>2, <2>3, <2>5
<1>5. CASE Write
  <2>1. /\ file \in Inode /\ nextRecord \in Record /\ Length[nextRecord] \in Nat
        /\ size + Length[nextRecord] <= MaxSize
        BY <1>5, RecordsOfLength DEF Write, TypeOK, ControlInv, SizeInv
  <2>2. /\ bytes' \in [Inode -> Nat] /\ offset' = size' /\ size' \in 0..MaxSize
        /\ \A f \in Inode : bytes'[f] <= MaxSize
        /\ bytes'[file] <= size'
        BY <1>5, <2>1, PutBounded DEF Write
  <2>3. TypeOK'
    <3>1. /\ content' \in [Inode -> SUBSET Record] /\ acked' \subseteq Record
          /\ home' \in [Record -> Time \cup {0}]
      <4>1. name[file] \in Time \cup {0} /\ nextRecord \in Record
            BY <2>1 DEF TypeOK
      <4>2. content' \in [Inode -> SUBSET Record] /\ acked' \subseteq Record
            BY <1>5, <2>1 DEF Write, TypeOK
      <4>3. home' \in [Record -> Time \cup {0}]
            BY <1>5, <4>1 DEF Write, TypeOK
      <4> QED BY <4>2, <4>3
    <3>2. offset' \in Nat
          BY <2>2
    <3>3. UNCHANGED <<now, directory, file, ch, task, bg, clash, raced, closeCalled, faults>>
          BY <1>5 DEF Write
    <3>4. wpc' = "idle" /\ op' = "none" /\ newFile' = 0 /\ nextRecord' \in 1..(Len(Length) + 1)
          BY <1>5, ReturnMoves DEF Write
    <3> HIDE DEF Core, Basic
    <3>5. TypeOK
          BY DEF Core, Basic
    <3> QED BY <2>2, <3>1, <3>2, <3>3, <3>4, <3>5 DEF TypeOK
  <2>4. ControlInv'
        BY <1>5, <2>1, ReturnMoves DEF Write, ControlInv
  <2>5. SizeInv'
        BY <1>5, <2>2, ReturnMoves DEF Write, SizeInv, SizeBounded
  <2> QED BY <2>3, <2>4, <2>5
<1>6. CASE WriteFails
  <2>1. /\ file \in Inode /\ nextRecord \in Record /\ Length[nextRecord] \in Nat
        /\ size + Length[nextRecord] <= MaxSize
        BY <1>6, RecordsOfLength DEF WriteFails, TypeOK, ControlInv, SizeInv
  <2>2. PICK n \in 0..(Length[nextRecord] - 1) : Put(n) /\ size' = size + n
        BY <1>6 DEF WriteFails
  <2>3. n \in Nat /\ size + n <= MaxSize
        BY <2>1, <2>2 DEF TypeOK
  <2>4. /\ bytes' \in [Inode -> Nat] /\ offset' = size' /\ size' \in 0..MaxSize
        /\ \A f \in Inode : bytes'[f] <= MaxSize
        /\ bytes'[file] <= size'
        BY <2>1, <2>2, <2>3, PutBounded
  <2>5. TypeOK'
    <3>1. offset' \in Nat /\ faults' \in 0..MaxFaults
          BY <1>6, <2>4 DEF WriteFails, Fault, TypeOK
    <3> QED BY <1>6, <2>4, <3>1, ReturnMoves DEF WriteFails, TypeOK
  <2>6. ControlInv'
        BY <1>6, <2>1, ReturnMoves DEF WriteFails, ControlInv
  <2>7. SizeInv'
        BY <1>6, <2>4, ReturnMoves DEF WriteFails, SizeInv, SizeBounded
  <2> QED BY <2>5, <2>6, <2>7
<1> QED BY <1>1, <1>2, <1>3, <1>4, <1>5, <1>6 DEF WriterStep

LEMMA CoreRestart == Core /\ Restart /\ faults' \in 0..MaxFaults => Basic'
<1> SUFFICES ASSUME Core, Restart, faults' \in 0..MaxFaults PROVE Basic'
    OBVIOUS
<1>1. nextRecord' \in 1..(Len(Length) + 1)
      BY LengthAssumption DEF Core, Basic, TypeOK, ControlInv, Restart, Record
<1>2. TypeOK'
  <2>1. ch' \in Seq(Inode) /\ Len(ch') <= ChanCap /\ size' \in 0..MaxSize
        BY SizeAssumption DEF Restart
  <2> QED BY <1>1, <2>1 DEF Core, Basic, TypeOK, Restart
<1>3. ControlInv' /\ SizeInv'
      BY DEF Core, Basic, ControlInv, SizeInv, SizeBounded, Restart
<1> QED BY <1>2, <1>3 DEF Basic

\* The task takes a file from the channel and sweeps the directory.
LEMMA CoreTask == Core /\ TaskStep => Basic'
<1> SUFFICES ASSUME Core, TaskStep PROVE Basic'
    OBVIOUS
<1> USE SizeAssumption, BoundsAssumption DEF Core, Basic, Goto, WriterUnchanged
<1>1. CASE Receive
  <2>1. TypeOK'
        BY <1>1 DEF Receive, TypeOK
  <2>2. ControlInv' /\ SizeInv'
        BY <1>1 DEF Receive, ControlInv, SizeInv, SizeBounded
  <2> QED BY <2>1, <2>2
<1>2. CASE List
  <2>1. todo' \subseteq Entry
        BY <1>2 DEF List
  <2>2. TypeOK'
        BY <1>2, <2>1, SMTT(20) DEF List, TypeOK
  <2>3. ControlInv' /\ SizeInv'
        BY <1>2 DEF List, ControlInv, SizeInv, SizeBounded
  <2> QED BY <2>2, <2>3
<1>3. CASE Scan
  <2>1. \A e \in First(todo) : e \in Entry /\ e.t \in Time
        BY DEF First, TypeOK, Entry
  <2>2. TypeOK'
        BY <1>3, <2>1 DEF Scan, TypeOK
  <2>3. ControlInv' /\ SizeInv'
        BY <1>3 DEF Scan, ControlInv, SizeInv, SizeBounded
  <2> QED BY <2>2, <2>3
<1>4. CASE Panic
  <2>1. faults' \in 0..MaxFaults
        BY <1>4 DEF Panic, TypeOK
  <2> QED BY <1>4, <2>1, CoreRestart DEF Panic
<1>5. CASE Decide
  <2>1. now' \in Time
        BY <1>5 DEF Decide, Later, TypeOK, Time
  <2>2. remove' \subseteq Entry /\ compress' \subseteq Entry
        BY <1>5 DEF Decide, TypeOK
  <2>3. TypeOK'
        BY <1>5, <2>1, <2>2 DEF Decide, TypeOK
  <2>4. ControlInv' /\ SizeInv'
        BY <1>5 DEF Decide, ControlInv, SizeInv, SizeBounded
  <2> QED BY <2>3, <2>4
<1>6. CASE Remove \/ Create \/ Copy \/ Unlink \/ Swept
  <2>1. /\ log' \in [Time -> Inode \cup {0}]
        /\ gz' \in [Time -> {"none", "partial", "done"}]
        /\ gzData' \in [Time -> SUBSET Record]
    <3>1. \A e \in Newest(remove) \cup Newest(compress) : e.t \in Time
          BY DEF Newest, TypeOK, Entry
    <3>2. \A e \in Newest(compress) : content[log[e.t]] \in SUBSET Record
          BY <3>1 DEF TypeOK, SweepInv, Listed, Newest
    <3> QED BY <1>6, <3>1, <3>2
            DEF Remove, Create, Copy, Unlink, Swept, GiveUp, Archive, TypeOK
  <2>2. /\ remove' \subseteq Entry /\ compress' \subseteq Entry
        /\ faults' \in 0..MaxFaults
        /\ bpc' \in {"recv", "list", "scan", "remove", "copy", "unlink"}
        BY <1>6 DEF Remove, Create, Copy, Unlink, Swept, GiveUp, Fault, TypeOK
  <2>3. UNCHANGED <<clock, logger, writer, data, inodes, name, todo, old, ghosts>>
        BY <1>6 DEF Remove, Create, Copy, Unlink, Swept
  <2>4. TypeOK'
        BY <2>1, <2>2, <2>3 DEF TypeOK
  <2>5. ControlInv' /\ SizeInv'
        BY <1>6, <2>3 DEF Remove, Create, Copy, Unlink, Swept, ControlInv, SizeInv, SizeBounded
  <2> QED BY <2>4, <2>5
<1>7. CASE ListFails
  <2>1. TypeOK'
        BY <1>7, SMTT(20) DEF ListFails, Fault, TypeOK
  <2>2. ControlInv' /\ SizeInv'
        BY <1>7 DEF ListFails, ControlInv, SizeInv, SizeBounded
  <2> QED BY <2>1, <2>2
<1> QED BY <1>1, <1>2, <1>3, <1>4, <1>5, <1>6, <1>7 DEF TaskStep

LEMMA BasicStep == Core /\ [Next]_vars => Basic'
<1> SUFFICES ASSUME Core, [Next]_vars PROVE Basic'
    OBVIOUS
<1>1. CASE Crash
  <2>1. faults' \in 0..MaxFaults
        BY <1>1, BoundsAssumption DEF Crash, Fault, Core, Basic, TypeOK
  <2> QED BY <1>1, <2>1, CoreRestart DEF Crash
<1>2. CASE UNCHANGED vars
  <2>1. TypeOK'
        BY <1>2 DEF vars, Core, Basic, TypeOK
  <2>2. ControlInv' /\ SizeInv'
        BY <1>2 DEF vars, Core, Basic, ControlInv, SizeInv, SizeBounded
  <2> QED BY <2>1, <2>2 DEF Basic
<1> QED BY <1>1, <1>2, CoreCalls, CoreWriter, CoreTask DEF Next

\* Only the sweep removes what it has listed; Open and the archive add to it.
LEMMA SweepStep == Core /\ [Next]_vars => SweepInv'
<1> SUFFICES ASSUME Core, [Next]_vars PROVE SweepInv'
    OBVIOUS
<1> USE DEF Core, Basic, SweepInv, WriterUnchanged, Goto
<1>1. \A e \in todo \cup old \cup remove \cup compress : e \in Entry /\ e.t \in Time
      BY DEF TypeOK, Entry
<1>2. CASE UNCHANGED <<log, gz, bpc, sweep>>
      BY <1>2 DEF Listed
<1>3. CASE Open
  <2>1. \A t \in Time : log[t] # 0 => log'[t] # 0
        BY <1>3 DEF Open, TypeOK, Inode
  <2> QED BY <1>1, <1>3, <2>1 DEF Open, Listed
<1>4. CASE Restart
      BY <1>4 DEF Restart
<1>5. CASE Receive
      BY <1>5 DEF Receive, Listed
<1>6. CASE List \/ ListFails
  <2>1. CASE List
        BY <2>1 DEF List, Listed
  <2>2. CASE ListFails
        BY <2>2 DEF ListFails, Listed
  <2> QED BY <1>6, <2>1, <2>2
<1>7. CASE Scan
      BY <1>7 DEF Scan, First, Listed
<1>8. CASE Decide
  <2>1. /\ remove' \subseteq old /\ compress' \subseteq old /\ todo = {}
        /\ \A e \in compress' : e.kind = "log" /\ e \notin remove'
        BY <1>8 DEF Decide
  <2> QED BY <1>8, <2>1 DEF Decide, Listed
<1>9. CASE Remove
  <2>1. PICK x \in remove :
          /\ remove' = remove \ {x}
          /\ \/ Fault /\ UNCHANGED <<log, archive>>
             \/ x.kind = "log" /\ log' = [log EXCEPT ![x.t] = 0] /\ UNCHANGED <<archive, faults>>
             \/ x.kind = "gz" /\ Archive(x.t, "none", {}) /\ UNCHANGED <<log, faults>>
        BY <1>9 DEF Remove, Newest
  <2>2. \A e \in Entry : e # x => (e.t # x.t \/ e.kind # x.kind)
        BY <2>1, <1>1 DEF Entry
  <2>3. \A e \in Entry : e # x /\ Listed(e) => Listed(e)'
        BY <1>1, <2>1, <2>2 DEF Listed, Archive, TypeOK, Entry
  <2>4. \A e \in todo' \cup old' \cup remove' \cup compress' : e # x /\ e \in Entry /\ Listed(e)
        BY <1>1, <1>9, <2>1 DEF Remove
  <2> QED BY <1>9, <2>1, <2>3, <2>4 DEF Remove
<1>10. CASE Create \/ Copy
  <2>1. /\ log' = log /\ remove' = remove /\ compress' \subseteq compress
        /\ UNCHANGED <<todo, old>> /\ bpc' \in {"remove", "copy", "unlink"}
        /\ bpc \in {"remove", "copy"}
        /\ bpc' \in {"copy", "unlink"} => remove = {} /\ compress' # {}
        BY <1>10 DEF Create, Copy, GiveUp, Newest
  <2>2. remove = {}
        BY <1>10 DEF Create, Copy
  <2> QED BY <2>1, <2>2 DEF Listed
<1>11. CASE Unlink
  <2>1. PICK x \in compress :
          /\ compress' = compress \ {x}
          /\ bpc' = "remove"
          /\ log' = [log EXCEPT ![x.t] = 0] \/ log' = log
        BY <1>11 DEF Unlink, Newest, GiveUp
  <2>2. \A e \in compress \ {x} : e.t # x.t
        BY <1>1, <2>1 DEF Entry
  <2>3. \A e \in compress' : log'[e.t] # 0 /\ e.kind = "log"
        BY <1>1, <2>1, <2>2 DEF Listed, TypeOK
  <2> QED BY <1>11, <2>1, <2>3 DEF Unlink, Listed
<1>12. CASE Swept
      BY <1>12 DEF Swept
<1>13. CASE WriteCall \/ RotateCall \/ Close \/ OpenFails \/ Send \/ Assign \/ Write \/ WriteFails
      BY <1>2, <1>13 DEF WriteCall, RotateCall, Close, OpenFails, Send, Assign, Write, WriteFails
<1> QED BY <1>2, <1>3, <1>4, <1>5, <1>6, <1>7, <1>8, <1>9, <1>10, <1>11, <1>12, <1>13
        DEF Next, Calls, WriterStep, TaskStep, Crash, Panic, vars

LEMMA CoreStep == Core /\ [Next]_vars => Core'
BY BasicStep, SweepStep DEF Core

LEMMA CoreHolds == Spec => []Core
BY CoreInit, CoreStep, PTL DEF Spec

\* Every variable keeps its type: the channel never holds more than it has
\* room for, the size is never more than a file may have, and the directory
\* leads to inodes (rotate.go, all of Logger).
THEOREM LogTypeCorrect == Spec => []TypeOK
<1>1. Core => TypeOK
      BY DEF Core, Basic
<1> QED BY <1>1, CoreHolds, PTL

\* No file outgrows MaxSize, and l.size is never behind the file: Write decides
\* on it to rotate, also after failed opens, writes that fail with a part of the
\* record in the file, and a file emptied because its name came again (rotate.go,
\* Write and closeAndOpenNew).
THEOREM FilesStayInBounds == Spec => []SizeBounded
<1>1. Core => SizeBounded
      BY DEF Core, Basic, SizeInv
<1> QED BY <1>1, CoreHolds, PTL

\* The task meets a nil l.file, which it reads without the mutex, only after
\* a Close: it is started when a file has been assigned (rotate.go,
\* oldLogFiles and close).
THEOREM NilAfterCloseOnly == Spec => []NilOnlyAfterClose
<1>1. Core => NilOnlyAfterClose
      BY DEF Core, Basic, ControlInv, NilOnlyAfterClose
<1> QED BY <1>1, CoreHolds, PTL

------------------------------------------------------------------------------
(* The directory, and the files in use *)

\* Open leaves a file under the present time, another one than every other
\* name leads to.  A name that was there before is noted.
LEMMA OpenEffect ==
  ASSUME Core, FilesInv, Open
  PROVE  /\ now' \in Time /\ now <= now'
         /\ UNCHANGED <<gz, gzData, file, sweep, bpc, raced, acked, home>>
         /\ clash \subseteq clash'
         /\ now' \notin clash' => ~ Exists(now')
         /\ \E f \in Inode :
              /\ f # 0 /\ f <= inodes' /\ inodes <= inodes' /\ newFile' \in {0, f}
              /\ name'[f] = now' /\ \A g \in Inode : g <= inodes => name'[g] = name[g]
              /\ log'[now'] = f /\ log[now'] \in {0, f}
              /\ \A t \in Time : t # now' => log'[t] = log[t] /\ log[t] # f
              /\ content'[f] = {} /\ \A g \in Inode \ {f} : content'[g] = content[g]
<1> USE DEF Core, Basic
<1>1. now' \in Time /\ now <= now'
      BY DEF Open, Later, TypeOK, Time
<1>2. PICK f \in Inode :
        /\ IF log[now'] # 0
           THEN f = log[now'] /\ UNCHANGED <<log, inodes, name>>
           ELSE /\ f = inodes + 1 /\ inodes' = f
                /\ log' = [log EXCEPT ![now'] = f]
                /\ name' = [name EXCEPT ![f] = now']
        /\ clash' = IF log[now'] = 0 /\ gz[now'] = "none" THEN clash ELSE clash \cup {now'}
        /\ content' = [content EXCEPT ![f] = {}]
        /\ newFile' = f \/ newFile' = 0
      BY DEF Open, Return
<1>3. UNCHANGED <<gz, gzData, file, sweep, bpc, raced, acked, home>>
      BY DEF Open
<1>4. clash \subseteq clash' /\ (now' \notin clash' => ~ Exists(now'))
      BY <1>2 DEF Exists
<1>5. f # 0 /\ content'[f] = {} /\ \A g \in Inode \ {f} : content'[g] = content[g]
      BY <1>2 DEF Inode, TypeOK
<1>6. CASE log[now'] # 0
  <2>1. f = log[now'] /\ UNCHANGED <<log, inodes, name>>
        BY <1>2, <1>6
  <2>2. f <= inodes /\ name[f] = now'
        BY <1>1, <1>6, <2>1 DEF FilesInv
  <2>3. \A t \in Time : t # now' => log[t] # f
        BY <1>5, <2>2 DEF FilesInv
  <2>4. inodes <= inodes
        BY DEF TypeOK
  <2> QED BY <1>1, <1>2, <1>3, <1>4, <1>5, <2>1, <2>2, <2>3, <2>4
<1>7. CASE log[now'] = 0
  <2>1. f = inodes + 1 /\ inodes' = f /\ f <= inodes' /\ inodes <= inodes'
        BY <1>2, <1>7 DEF TypeOK
  <2>2. log' = [log EXCEPT ![now'] = f] /\ name' = [name EXCEPT ![f] = now']
        BY <1>2, <1>7
  <2>3. name'[f] = now' /\ log'[now'] = f
        BY <1>1, <2>2 DEF TypeOK
  <2>4. \A g \in Inode : g <= inodes => name'[g] = name[g]
        BY <2>1, <2>2 DEF TypeOK, Inode
  <2>5. \A t \in Time : t # now' => log'[t] = log[t] /\ log[t] # f
        BY <2>1, <2>2 DEF TypeOK, FilesInv
  <2> QED BY <1>1, <1>2, <1>3, <1>4, <1>5, <1>7, <2>1, <2>3, <2>4, <2>5
<1> QED BY <1>6, <1>7

LEMMA FilesStep == Core /\ FilesInv /\ [Next]_vars => FilesInv'
<1> SUFFICES ASSUME Core, FilesInv, [Next]_vars PROVE FilesInv'
    OBVIOUS
<1>1. CASE Open
  <2>1. PICK f \in Inode :
          /\ f # 0 /\ f <= inodes' /\ inodes <= inodes' /\ newFile' \in {0, f}
          /\ name'[f] = now' /\ \A g \in Inode : g <= inodes => name'[g] = name[g]
          /\ log'[now'] = f /\ \A t \in Time : t # now' => log'[t] = log[t] /\ log[t] # f
        BY <1>1, OpenEffect
  <2>2. file' = file /\ now' \in Time /\ inodes' \in Nat /\ inodes \in Nat
    <3>1. Core'
          BY CoreStep
    <3> QED BY <1>1, <3>1, OpenEffect, BoundsAssumption DEF Core, Basic, TypeOK
  <2>3. \A t \in Time : log'[t] <= inodes' /\ (log'[t] # 0 => name'[log'[t]] = t)
    <3>1. SUFFICES ASSUME NEW t \in Time, t # now'
                   PROVE  log'[t] <= inodes' /\ (log'[t] # 0 => name'[log'[t]] = t)
          BY <2>1
    <3>2. log'[t] = log[t] /\ log[t] \in Inode \cup {0} /\ log[t] <= inodes
          BY <2>1, <3>1 DEF FilesInv, Core, Basic, TypeOK
    <3>3. log[t] # 0 => name[log[t]] = t /\ name'[log[t]] = name[log[t]]
          BY <2>1, <3>2 DEF FilesInv
    <3> QED BY <2>1, <2>2, <3>2, <3>3 DEF Inode
  <2>4. \A g \in Inode : g <= inodes' => name'[g] # 0
    <3>1. SUFFICES ASSUME NEW g \in Inode, g <= inodes', g # f
                   PROVE  name'[g] # 0
          BY <2>1, <2>2 DEF Time
    <3>2. inodes' = inodes \/ (inodes' = inodes + 1 /\ name'[inodes'] = now')
          BY <1>1 DEF Open, Core, Basic, TypeOK
    <3>3. CASE g <= inodes
          BY <2>1, <3>3 DEF FilesInv
    <3>4. CASE g = inodes' /\ name'[inodes'] = now'
          BY <2>2, <3>4 DEF Time
    <3> QED BY <2>2, <3>1, <3>2, <3>3, <3>4 DEF Inode
  <2>5. file' <= inodes' /\ newFile' <= inodes'
        BY <2>1, <2>2 DEF FilesInv, Inode, Core, Basic, TypeOK
  <2> QED BY <2>3, <2>4, <2>5 DEF FilesInv
<1>2. CASE /\ UNCHANGED <<inodes, name>> /\ \A t \in Time : log'[t] \in {0, log[t]}
           /\ file' \in {0, file, newFile} /\ newFile' \in {0, newFile}
  <2>1. inodes \in Nat
        BY BoundsAssumption DEF Core, Basic, TypeOK
  <2> QED BY <1>2, <2>1 DEF FilesInv
<1>3. CASE Remove \/ Unlink
  <2>1. /\ UNCHANGED <<inodes, name, file, newFile>>
        /\ \E e \in Entry : log' = log \/ log' = [log EXCEPT ![e.t] = 0]
        BY <1>3 DEF Remove, Unlink, Newest, WriterUnchanged, Core, Basic, TypeOK
  <2>2. \A t \in Time : log'[t] \in {0, log[t]}
        BY <2>1 DEF Core, Basic, TypeOK, Entry
  <2> QED BY <1>2, <2>1, <2>2
<1>4. CASE UNCHANGED <<log, inodes, name>> /\ file' \in {0, file, newFile} /\ newFile' \in {0, newFile}
      BY <1>2, <1>4
<1>5. CASE Assign \/ Close \/ Restart
      BY <1>4, <1>5 DEF Assign, Return, Close, Restart
<1>6. CASE \/ WriteCall \/ RotateCall \/ OpenFails \/ Send \/ Write \/ WriteFails
           \/ Receive \/ List \/ ListFails \/ Scan \/ Decide \/ Create \/ Copy \/ Swept
      BY <1>4, <1>6 DEF WriteCall, RotateCall, OpenFails, Send, Write, WriteFails, Return,
         Receive, List, ListFails, Scan, Decide, Create, Copy, Swept, WriterUnchanged
<1> QED BY <1>1, <1>3, <1>4, <1>5, <1>6
        DEF Next, Calls, WriterStep, TaskStep, Crash, Panic, vars

\* A file put to use is new, or its name is noted; the sweep takes for old only
\* names not in use, or notes them.
LEMMA CleanStep == Core /\ FilesInv /\ CleanInv /\ [Next]_vars => CleanInv'
<1> SUFFICES ASSUME Core, FilesInv, CleanInv, [Next]_vars PROVE CleanInv'
    OBVIOUS
<1> USE DEF Core, Basic
<1>1. \A e \in todo \cup old \cup remove \cup compress : e.t \in Time /\ e.kind \in {"log", "gz"}
      BY DEF TypeOK, Entry
<1>2. CASE /\ UNCHANGED <<log, gz, name, clash, raced>>
           /\ file' \in {0, file, newFile} /\ newFile' \in {0, newFile}
           /\ old' \cup remove' \cup compress' \subseteq old \cup remove \cup compress
      BY <1>2 DEF CleanInv, Clean, InUse
<1>3. CASE Open
  <2>1. PICK f \in Inode :
          /\ newFile' \in {0, f}
          /\ name'[f] = now' /\ \A g \in Inode : g <= inodes => name'[g] = name[g]
          /\ log'[now'] = f /\ \A t \in Time : t # now' => log'[t] = log[t]
        BY <1>3, OpenEffect
  <2>2. /\ now' \in Time /\ UNCHANGED <<gz, file, sweep, raced>> /\ clash \subseteq clash'
        /\ now' \notin clash' => ~ Exists(now')
        BY <1>3, OpenEffect
  <2>3. file # 0 => file \in Inode /\ name'[file] = name[file] /\ name[file] \in Time
        BY <2>1 DEF TypeOK, FilesInv
  <2>4. ASSUME file # 0, Clean(name[file])' PROVE name[file] # now' /\ Clean(name[file])
        BY <2>2, <2>3, <2>4 DEF CleanInv, Clean, Exists
  <2>5. \A g \in {file', newFile'} :
          g # 0 /\ Clean(name[g])' => log'[name'[g]] = g /\ gz'[name'[g]] = "none"
    <3>1. ASSUME file # 0, Clean(name[file])'
          PROVE  log'[name'[file]] = file /\ gz'[name'[file]] = "none"
      <4>1. log[name[file]] = file /\ gz[name[file]] = "none"
            BY <2>4, <3>1 DEF CleanInv
      <4>2. log'[name[file]] = log[name[file]]
            BY <2>1, <2>3, <2>4, <3>1
      <4> QED BY <2>2, <2>3, <3>1, <4>1, <4>2
    <3>2. ASSUME Clean(name[f])'
          PROVE  log'[name'[f]] = f /\ gz'[name'[f]] = "none"
          BY <2>1, <2>2, <3>2 DEF Clean, Exists
    <3> QED BY <2>1, <2>2, <3>1, <3>2
  <2>6. ASSUME NEW e \in old' \cup remove' \cup compress', InUse(e.t)', Clean(e.t)' PROVE FALSE
    <3>1. e \in old \cup remove \cup compress /\ e.t \in Time /\ Listed(e)
          BY <1>1, <2>2, <2>6 DEF SweepInv
    <3>2. e.t # now'
          BY <1>1, <2>2, <2>6, <3>1 DEF Clean, Exists, Listed
    <3>3. file # 0 /\ name[file] = e.t
          BY <2>1, <2>2, <2>3, <2>6, <3>2 DEF InUse
    <3> QED BY <2>2, <2>6, <3>1, <3>3 DEF CleanInv, InUse, Clean
  <2> QED BY <2>5, <2>6 DEF CleanInv, Clean
<1>4. CASE Scan
  <2>1. PICK x \in todo :
          IF x.kind = "log" /\ x.t = name[file]
          THEN UNCHANGED <<old, raced>>
          ELSE /\ old' = old \cup {x}
               /\ raced' = IF newFile # 0 /\ x.t = name[newFile] THEN raced \cup {x.t} ELSE raced
        BY <1>4 DEF Scan, First
  <2>2. UNCHANGED <<log, gz, name, file, newFile, clash, remove, compress>> /\ raced \subseteq raced'
        BY <1>4, <2>1 DEF Scan, WriterUnchanged
  <2>3. \A g \in {file, newFile} :
          g # 0 /\ Clean(name[g])' => log[name[g]] = g /\ gz[name[g]] = "none"
        BY <2>2 DEF CleanInv, Clean
  <2>4. ASSUME NEW e \in old' \cup remove \cup compress, InUse(e.t), Clean(e.t)' PROVE FALSE
    <3>1. Clean(e.t)
          BY <2>2, <2>4 DEF Clean
    <3>2. e = x /\ old' = old \cup {x} /\ ~ (x.kind = "log" /\ x.t = name[file])
          BY <2>1, <2>4, <3>1 DEF CleanInv
    <3>3. CASE x.kind = "gz"
          BY <2>4, <3>1, <3>2, <3>3 DEF CleanInv, InUse, SweepInv, Listed
    <3>4. CASE x.kind = "log"
          BY <1>4, <2>1, <2>4, <3>2, <3>4 DEF Scan, InUse, Clean
    <3> QED BY <1>1, <3>3, <3>4
  <2> QED BY <2>2, <2>3, <2>4 DEF CleanInv, Clean, InUse
<1>5. CASE Remove \/ Create \/ Copy \/ Unlink
  <2>1. PICK x \in remove \cup compress :
          /\ log' = log \/ log' = [log EXCEPT ![x.t] = 0]
          /\ gz' = gz \/ \E s \in {"none", "partial", "done"} : gz' = [gz EXCEPT ![x.t] = s]
        BY <1>5 DEF Remove, Create, Copy, Unlink, Newest, GiveUp, Archive
  <2>2. /\ UNCHANGED <<name, clash, raced, file, newFile, old>>
        /\ remove' \subseteq remove /\ compress' \subseteq compress
        BY <1>5 DEF Remove, Create, Copy, Unlink, GiveUp, WriterUnchanged
  <2>3. \A t \in Time : t # x.t => log'[t] = log[t] /\ gz'[t] = gz[t]
        BY <1>1, <2>1 DEF TypeOK
  <2>4. ASSUME NEW g \in {file, newFile}, g # 0, Clean(name[g])
        PROVE  log'[name[g]] = g /\ gz'[name[g]] = "none"
    <3>1. name[g] \in Time /\ name[g] # x.t
          BY <2>4 DEF CleanInv, InUse, TypeOK, FilesInv
    <3> QED BY <2>3, <2>4, <3>1 DEF CleanInv
  <2> QED BY <2>2, <2>4 DEF CleanInv, Clean, InUse
<1>6. CASE Decide
      BY <1>2, <1>6 DEF Decide
<1>7. CASE Assign \/ Close \/ Restart
      BY <1>2, <1>7 DEF Assign, Return, Close, Restart
<1>8. CASE \/ WriteCall \/ RotateCall \/ OpenFails \/ Send \/ Write \/ WriteFails
           \/ Receive \/ List \/ ListFails \/ Swept \/ UNCHANGED vars
      BY <1>2, <1>8 DEF vars, WriteCall, RotateCall, OpenFails, Send, Write, WriteFails, Return,
         Receive, List, ListFails, Swept, WriterUnchanged
<1> QED BY <1>3, <1>4, <1>5, <1>6, <1>7, <1>8
        DEF Next, Calls, WriterStep, TaskStep, Crash, Panic

------------------------------------------------------------------------------
(* What the policy lets go *)

LEMMA TimesAreFinite ==
  ASSUME NEW S \in SUBSET Time
  PROVE  IsFiniteSet(S) /\ Cardinality(S) \in Nat
<1>1. IsFiniteSet(Time)
      BY BoundsAssumption, FS_Interval DEF Time
<1>2. IsFiniteSet(S)
      BY <1>1, FS_Subset
<1> QED BY <1>2, FS_CardinalityType

LEMMA MoreTimes ==
  ASSUME NEW T \in SUBSET Time, NEW S \in SUBSET T
  PROVE  Cardinality(S) <= Cardinality(T)
BY TimesAreFinite, FS_Subset

LEMMA LaterCutoff ==
  ASSUME NEW n \in Nat, NEW m \in Nat, n <= m, NEW d \in Nat,
         NEW s \in Nat, NEW y \in Nat, s <= y, y < n - d
  PROVE  s < m - d
OBVIOUS

\* Unless a backup goes, what is gone stays so; and if one goes that is gone
\* itself, there were enough newer ones without it.
LEMMA GoneStays ==
  ASSUME Core, now' \in Nat, now <= now',
         NEW x \in Time, Gone(x),
         \A u \in Time : u # x /\ Solid(u) => Solid(u)',
         NEW t \in Time, Gone(t)
  PROVE  Gone(t)'
<1> USE PolicyAssumption
<1>1. now \in Nat /\ t \in Nat /\ x \in Nat
      BY DEF Core, Basic, TypeOK, Time
<1>2. ASSUME NEW y \in Time, y >= t, TooOld(y) PROVE Gone(t)'
  <2>1. y \in Nat /\ MaxAge > 0 /\ y < now - MaxAge
        BY <1>2 DEF TooOld, Time
  <2>2. t < now' - MaxAge
    <3>1. t <= y /\ MaxAge \in Nat
          BY <1>1, <1>2, <2>1
    <3> QED BY <1>1, <2>1, <3>1, LaterCutoff
  <2>3. TooOld(t)'
        BY <2>1, <2>2 DEF TooOld
  <2> QED BY <2>3 DEF Gone
<1>3. ASSUME NEW y \in Time, y >= t, y >= x, MaxBackups > 0,
             Cardinality(Newer(y)) >= MaxBackups
      PROVE  Gone(t)'
  <2>1. Newer(y) \subseteq Newer(t)'
        BY <1>1, <1>3 DEF Newer, Time
  <2>2. Newer(t)' \subseteq Time /\ Newer(y) \subseteq Time
        BY DEF Newer
  <2>3. Cardinality(Newer(y)) <= Cardinality(Newer(t)')
        BY <2>1, <2>2, MoreTimes
  <2>4. Cardinality(Newer(y)) \in Nat /\ Cardinality(Newer(t)') \in Nat
        BY <2>2, TimesAreFinite
  <2>5. Cardinality(Newer(t)') >= MaxBackups
        BY <1>3, <2>3, <2>4
  <2> QED BY <1>3, <2>5 DEF Gone
<1>4. CASE x <= t
      BY <1>1, <1>2, <1>3, <1>4 DEF Gone
<1>5. CASE t <= x
      BY <1>1, <1>2, <1>3, <1>5 DEF Gone
<1> QED BY <1>1, <1>4, <1>5

\* No step of a call, of the listing or of a restart takes a backup away: a
\* name comes into use only when it is new or has been noted.
LEMMA SolidStays ==
  ASSUME Core, FilesInv, [Next]_vars, ~ (Remove \/ Create \/ Copy \/ Unlink),
         NEW t \in Time, Solid(t)
  PROVE  Solid(t)'
<1> USE DEF Core, Basic
<1>1. CASE /\ UNCHANGED <<log, gz, name, clash>> /\ raced \subseteq raced'
           /\ file' \in {0, file, newFile} /\ newFile' \in {0, newFile}
      BY <1>1 DEF Solid, Exists, InUse, Clean
<1>2. CASE Open
  <2>1. PICK f \in Inode :
          /\ f # 0 /\ newFile' \in {0, f}
          /\ name'[f] = now' /\ \A g \in Inode : g <= inodes => name'[g] = name[g]
          /\ log'[now'] = f /\ \A u \in Time : u # now' => log'[u] = log[u]
        BY <1>2, OpenEffect
  <2>2. /\ UNCHANGED <<gz, file, raced>> /\ clash \subseteq clash'
        /\ now' \notin clash' => ~ Exists(now')
        BY <1>2, OpenEffect
  <2>3. Exists(t)'
        BY <2>1, <2>2 DEF Solid, Exists
  <2>4. t = now' => ~ Clean(t)'
        BY <2>2 DEF Solid, Exists, Clean
  <2>5. t # now' /\ InUse(t)' => InUse(t)
        BY <2>1, <2>2 DEF InUse, FilesInv, TypeOK
  <2> QED BY <2>2, <2>3, <2>4, <2>5 DEF Solid, Clean
<1>3. CASE Scan
  <2>1. raced \subseteq raced'
        BY <1>3 DEF Scan
  <2> QED BY <1>1, <1>3, <2>1 DEF Scan, WriterUnchanged
<1>4. CASE Assign \/ Close \/ Restart
      BY <1>1, <1>4 DEF Assign, Return, Close, Restart
<1>5. CASE \/ WriteCall \/ RotateCall \/ OpenFails \/ Send \/ Write \/ WriteFails
           \/ Receive \/ List \/ ListFails \/ Decide \/ Swept \/ UNCHANGED vars
      BY <1>1, <1>5 DEF vars, WriteCall, RotateCall, OpenFails, Send, Write, WriteFails, Return,
         Receive, List, ListFails, Decide, Swept, WriterUnchanged
<1> QED BY <1>2, <1>3, <1>4, <1>5
        DEF Next, Calls, WriterStep, TaskStep, Crash, Panic

\* A step of the sweep on the directory, and what it does to one name
LEMMA SweepEffect ==
  ASSUME Core, FilesInv, CleanInv, RemoveInv, Remove \/ Create \/ Copy \/ Unlink
  PROVE  /\ UNCHANGED <<now, name, clash, raced, file, newFile, todo, old, content, acked, home>>
         /\ remove' \subseteq remove /\ compress' \subseteq compress
         /\ \E x \in Time :
              /\ \A t \in Time : t # x => log'[t] = log[t] /\ gz'[t] = gz[t] /\ gzData'[t] = gzData[t]
              /\ Gone(x) \/ Exists(x)'
<1> USE DEF Core, Basic
<1>1. /\ UNCHANGED <<now, name, clash, raced, file, newFile, todo, old, content, acked, home>>
      /\ remove' \subseteq remove /\ compress' \subseteq compress
      BY DEF Remove, Create, Copy, Unlink, GiveUp, WriterUnchanged
<1>2. PICK x \in remove \cup compress :
        /\ log' = log \/ log' = [log EXCEPT ![x.t] = 0]
        /\ UNCHANGED archive \/ \E s, d : Archive(x.t, s, d)
        /\ \/ Remove /\ x \in remove
           \/ Create /\ log' = log /\ x \in compress
           \/ Copy /\ log' = log /\ x \in compress
           \/ Unlink /\ x \in Newest(compress) /\ (gz' = gz \/ log' = log)
      BY DEF Remove, Create, Copy, Unlink, Newest, GiveUp
<1>3. x \in Entry /\ x.t \in Time
      BY <1>2 DEF TypeOK, Entry
<1>4. \A t \in Time : t # x.t => log'[t] = log[t] /\ gz'[t] = gz[t] /\ gzData'[t] = gzData[t]
      BY <1>2, <1>3 DEF TypeOK, Archive
<1>5. x \in compress => log[x.t] # 0
      BY DEF SweepInv, Listed
<1>6. Gone(x.t) \/ Exists(x.t)'
  <2>1. CASE x \in remove
        BY <2>1 DEF RemoveInv
  <2>2. CASE log' = log /\ x \in compress
        BY <1>5, <2>2 DEF Exists
  <2>3. CASE Unlink /\ x \in Newest(compress) /\ gz' = gz
        BY <2>3 DEF Unlink, RemoveInv, Exists
  <2> QED BY <1>2, <2>1, <2>2, <2>3 DEF Newest
<1> QED BY <1>1, <1>3, <1>4, <1>6

LEMMA GoneStep ==
  ASSUME Core, FilesInv, CleanInv, RemoveInv, [Next]_vars, NEW t \in Time, Gone(t)
  PROVE  Gone(t)'
<1>1. now' \in Nat /\ now <= now'
  <2>1. now \in Nat
        BY DEF Core, Basic, TypeOK, Time
  <2>2. now' = now \/ now' \in now..MaxTime
        BY DEF Next, Calls, WriterStep, TaskStep, Crash, Panic, vars,
           WriteCall, RotateCall, Close, OpenFails, Open, Send, Assign, Write, WriteFails,
           Receive, List, ListFails, Scan, Decide, Remove, Create, Copy, Unlink, Swept,
           Restart, WriterUnchanged, Later
  <2> QED BY <2>1, <2>2, BoundsAssumption
<1>2. CASE Remove \/ Create \/ Copy \/ Unlink
  <2>1. PICK x \in Time :
          /\ \A u \in Time : u # x => log'[u] = log[u] /\ gz'[u] = gz[u]
          /\ Gone(x) \/ Exists(x)'
        BY <1>2, SweepEffect
  <2>2. UNCHANGED <<name, clash, raced, file, newFile>>
        BY <1>2, SweepEffect
  <2>3. \A u \in Time : (u # x \/ Exists(x)') /\ Solid(u) => Solid(u)'
        BY <2>1, <2>2 DEF Solid, Exists, InUse, Clean
  <2>4. CASE Gone(x)
        BY <1>1, <2>3, <2>4, GoneStays
  <2>5. CASE Exists(x)'
        BY <1>1, <2>3, <2>5, GoneStays
  <2> QED BY <2>1, <2>4, <2>5
<1>3. CASE ~ (Remove \/ Create \/ Copy \/ Unlink)
  <2>1. \A u \in Time : Solid(u) => Solid(u)'
        BY <1>3, SolidStays
  <2> QED BY <1>1, <2>1, GoneStays
<1> QED BY <1>2, <1>3

\* Decide lets a name go when it is too old, or when MaxBackups newer ones were
\* listed: none of those is in use as the only file of its name.
LEMMA DecideLetsGo ==
  ASSUME Core, CleanInv, Decide, NEW e \in remove'
  PROVE  Gone(e.t)'
<1> USE DEF Core, Basic
<1>1. e \in old /\ (e.t \notin Preserved \/ TooOld(e.t)')
      BY DEF Decide
<1>2. old \subseteq Entry /\ \A d \in old : d.t \in Time
      BY DEF TypeOK, Entry
<1>3. CASE TooOld(e.t)'
      BY <1>3 DEF Gone
<1>4. CASE e.t \notin Preserved
  <2> DEFINE names == {d.t : d \in old}
             T == {u \in names : u > e.t}
  <2>1. MaxBackups # 0 /\ ~ (Cardinality(T) < MaxBackups)
        BY <1>1, <1>4 DEF Preserved
  <2>2. \A u \in T : u \in Time /\ Solid(u)'
    <3>1. \A d \in old : Exists(d.t) /\ (InUse(d.t) => ~ Clean(d.t))
          BY <1>2 DEF SweepInv, Listed, Exists, CleanInv
    <3>2. UNCHANGED <<log, gz, name, clash, raced, file, newFile>>
          BY DEF Decide
    <3> QED BY <1>2, <3>1, <3>2 DEF Solid, Exists, InUse, Clean
  <2>3. T \subseteq Newer(e.t)' /\ Newer(e.t)' \subseteq Time
        BY <2>2 DEF Newer
  <2>4. Cardinality(T) <= Cardinality(Newer(e.t)')
        BY <2>3, MoreTimes
  <2>5. Cardinality(T) \in Nat /\ Cardinality(Newer(e.t)') \in Nat
        BY <2>3, TimesAreFinite
  <2>6. MaxBackups > 0 /\ Cardinality(Newer(e.t)') >= MaxBackups
        BY <2>1, <2>4, <2>5, PolicyAssumption
  <2> QED BY <2>6 DEF Gone
<1> QED BY <1>1, <1>3, <1>4

------------------------------------------------------------------------------
(* What is kept *)

\* The archive is complete before the file goes: while it is made, nothing is
\* written to a file of that name, unless the name has been noted.
LEMMA RemoveStep ==
  Core /\ FilesInv /\ CleanInv /\ RemoveInv /\ [Next]_vars => RemoveInv'
<1> SUFFICES ASSUME Core, FilesInv, CleanInv, RemoveInv, [Next]_vars PROVE RemoveInv'
    OBVIOUS
<1> USE DEF Core, Basic
<1>1. \A e \in todo \cup old \cup remove \cup compress : e \in Entry /\ e.t \in Time
      BY DEF TypeOK, Entry
<1>2. \A e \in remove' : Gone(e.t)'
  <2>1. CASE Decide
        BY <2>1, DecideLetsGo
  <2>2. CASE remove' \subseteq remove
        BY <1>1, <2>2, GoneStep DEF RemoveInv
  <2>3. CASE Remove \/ Create \/ Copy \/ Unlink
        BY <2>2, <2>3, SweepEffect
  <2>4. CASE Open
        BY <2>2, <2>4, OpenEffect
  <2>5. CASE Restart
        BY <2>5 DEF Restart
  <2>6. CASE \/ Calls \/ OpenFails \/ Send \/ Assign \/ Write \/ WriteFails
             \/ Receive \/ List \/ ListFails \/ Scan \/ Swept \/ UNCHANGED vars
        BY <2>2, <2>6 DEF vars, Calls, WriteCall, RotateCall, Close, OpenFails, Send, Assign,
           Write, WriteFails, Receive, List, ListFails, Scan, Swept
  <2> QED BY <2>1, <2>3, <2>4, <2>5, <2>6
          DEF Next, WriterStep, TaskStep, Crash, Panic
<1>3. bpc' = "unlink" =>
        \A e \in Newest(compress') :
          gz'[e.t] = "done" /\ (Clean(e.t)' => content'[log'[e.t]] \subseteq gzData'[e.t])
  <2>1. CASE Copy
    <3>1. SUFFICES ASSUME bpc' = "unlink", NEW e \in Newest(compress')
                   PROVE  gz'[e.t] = "done" /\ content'[log'[e.t]] \subseteq gzData'[e.t]
          OBVIOUS
    <3>2. PICK x \in Newest(compress) :
            Archive(x.t, "done", content[log[x.t]]) /\ compress' = compress
          BY <2>1, <3>1 DEF Copy, Goto, GiveUp
    <3>3. e \in compress /\ x \in compress /\ e.t \in Time /\ x.t \in Time
          BY <1>1, <3>1, <3>2 DEF Newest
    <3>4. e.t = x.t
          BY <3>1, <3>2, <3>3 DEF Newest, Time
    <3>5. gz'[e.t] = "done" /\ gzData'[e.t] = content[log[e.t]]
          BY <3>2, <3>3, <3>4 DEF Archive, TypeOK
    <3> QED BY <2>1, <3>5 DEF Copy, WriterUnchanged
  <2>2. CASE Open
    <3>1. SUFFICES ASSUME bpc' = "unlink", NEW e \in Newest(compress')
                   PROVE  gz'[e.t] = "done" /\ (Clean(e.t)' => content'[log'[e.t]] \subseteq gzData'[e.t])
          OBVIOUS
    <3>2. UNCHANGED <<gz, gzData, compress, bpc, raced>> /\ clash \subseteq clash'
          BY <2>2, OpenEffect
    <3>3. e \in compress /\ e.t \in Time /\ log[e.t] # 0 /\ log[e.t] \in Inode
          BY <1>1, <3>1, <3>2 DEF Newest, SweepInv, Listed, TypeOK
    <3>4. gz[e.t] = "done" /\ (Clean(e.t) => content[log[e.t]] \subseteq gzData[e.t])
          BY <3>1, <3>2 DEF RemoveInv
    <3>5. log'[e.t] = log[e.t] /\ content'[log[e.t]] \subseteq content[log[e.t]]
          BY <2>2, <3>3, OpenEffect
    <3> QED BY <3>2, <3>4, <3>5 DEF Clean
  <2>3. CASE Write
    <3>1. SUFFICES ASSUME bpc' = "unlink", NEW e \in Newest(compress')
                   PROVE  gz'[e.t] = "done" /\ (Clean(e.t)' => content'[log'[e.t]] \subseteq gzData'[e.t])
          OBVIOUS
    <3>2. UNCHANGED <<log, gz, gzData, compress, bpc, raced, clash, name>>
          BY <2>3 DEF Write
    <3>3. e \in compress /\ e.t \in Time /\ log[e.t] # 0 /\ log[e.t] \in Inode
          BY <1>1, <3>1, <3>2 DEF Newest, SweepInv, Listed, TypeOK
    <3>4. gz[e.t] = "done" /\ (Clean(e.t) => content[log[e.t]] \subseteq gzData[e.t])
          BY <3>1, <3>2 DEF RemoveInv
    <3>5. Clean(e.t) => log[e.t] # file
          BY <3>3 DEF CleanInv, InUse, FilesInv
    <3>6. log[e.t] # file => content'[log[e.t]] = content[log[e.t]]
          BY <2>3, <3>3 DEF Write, TypeOK
    <3> QED BY <3>2, <3>4, <3>5, <3>6 DEF Clean
  <2>4. CASE /\ bpc' = "unlink" => bpc = "unlink"
             /\ UNCHANGED <<log, gz, gzData, content, compress, clash>> /\ raced \subseteq raced'
        BY <2>4 DEF RemoveInv, Clean
  <2>5. CASE Remove \/ Create \/ Unlink
        BY <2>5 DEF Remove, Create, Unlink, Goto, GiveUp
  <2>6. CASE Receive \/ List \/ ListFails \/ Decide \/ Swept \/ Restart
        BY <2>6 DEF Receive, List, ListFails, Decide, Swept, Restart, Goto
  <2>7. CASE Scan
        BY <2>4, <2>7 DEF Scan, WriterUnchanged
  <2>8. CASE Calls \/ OpenFails \/ Send \/ Assign \/ WriteFails \/ UNCHANGED vars
        BY <2>4, <2>8 DEF vars, Calls, WriteCall, RotateCall, Close, OpenFails, Send, Assign, WriteFails
  <2> QED BY <2>1, <2>2, <2>3, <2>5, <2>6, <2>7, <2>8
          DEF Next, WriterStep, TaskStep, Crash, Panic
<1> QED BY <1>2, <1>3 DEF RemoveInv, Newest

\* What the sweep does to a name leaves its records readable, or it is gone.
LEMMA SweepKeeps ==
  ASSUME Core, FilesInv, CleanInv, RemoveInv, Remove \/ Create \/ Copy \/ Unlink,
         NEW t \in Time, Clean(t)
  PROVE  OnDisk(t) \subseteq OnDisk(t)' \/ Gone(t)
<1> USE DEF Core, Basic
<1>1. content' = content
      BY SweepEffect
<1>2. \A e \in compress : e \in Entry /\ e.t \in Time /\ log[e.t] # 0
      BY DEF SweepInv, Listed, TypeOK, Entry
<1>3. CASE Remove
  <2>1. PICK x \in remove :
          /\ log' = log \/ log' = [log EXCEPT ![x.t] = 0]
          /\ UNCHANGED archive \/ Archive(x.t, "none", {})
        BY <1>3 DEF Remove, Newest
  <2>2. x.t \in Time /\ Gone(x.t)
        BY <2>1 DEF RemoveInv, TypeOK, Entry
  <2>3. t # x.t => log'[t] = log[t] /\ gz'[t] = gz[t] /\ gzData'[t] = gzData[t]
        BY <2>1, <2>2 DEF Archive, TypeOK
  <2> QED BY <1>1, <2>2, <2>3 DEF OnDisk
<1>4. CASE log' = log /\ \E x \in compress : UNCHANGED archive \/ \E s, d : Archive(x.t, s, d)
  <2>1. PICK x \in compress : UNCHANGED archive \/ \E s, d : Archive(x.t, s, d)
        BY <1>4
  <2>2. t # x.t => gz'[t] = gz[t] /\ gzData'[t] = gzData[t]
        BY <1>2, <2>1 DEF Archive, TypeOK
  <2> QED BY <1>1, <1>2, <1>4, <2>2 DEF OnDisk
<1>5. CASE Unlink /\ UNCHANGED archive
  <2>1. PICK x \in Newest(compress) : log' = [log EXCEPT ![x.t] = 0] \/ log' = log
        BY <1>5 DEF Unlink
  <2>2. x \in compress /\ x.t \in Time /\ log[x.t] # 0
        BY <1>2, <2>1 DEF Newest
  <2>3. gz[x.t] = "done" /\ (Clean(x.t) => content[log[x.t]] \subseteq gzData[x.t])
        BY <1>5, <2>1 DEF Unlink, RemoveInv
  <2>4. CASE t = x.t
        BY <1>1, <1>5, <2>1, <2>2, <2>3, <2>4 DEF OnDisk, TypeOK
  <2>5. CASE t # x.t
        BY <1>1, <1>5, <2>1, <2>2, <2>5 DEF OnDisk, TypeOK
  <2> QED BY <2>4, <2>5
<1>6. CASE Create \/ Copy
      BY <1>4, <1>6 DEF Create, Copy, Newest, GiveUp
<1>7. CASE Unlink
      BY <1>4, <1>5, <1>7 DEF Unlink, Newest, GiveUp
<1> QED BY <1>3, <1>6, <1>7

LEMMA KeptStep ==
  Core /\ FilesInv /\ CleanInv /\ RemoveInv /\ KeptInv /\ [Next]_vars => KeptInv'
<1> SUFFICES ASSUME Core, FilesInv, CleanInv, RemoveInv, KeptInv, [Next]_vars,
                    NEW r \in acked', NEW h, h = home'[r]
             PROVE  /\ h # 0
                    /\ Clean(h)' => r \in OnDisk(h)' \/ Gone(h)'
    BY DEF KeptInv
<1> USE DEF Core, Basic
<1>1. r \in acked => home[r] \in Time /\ (Clean(home[r]) => r \in OnDisk(home[r]) \/ Gone(home[r]))
      BY DEF KeptInv, TypeOK
<1>2. ASSUME r \in acked, h = home[r],
             Clean(h)' => Clean(h),
             Clean(h)' /\ r \in OnDisk(h) => r \in OnDisk(h)' \/ Gone(h)
      PROVE  /\ h # 0
             /\ Clean(h)' => r \in OnDisk(h)' \/ Gone(h)'
  <2>1. h \in Time /\ (Clean(h) => r \in OnDisk(h) \/ Gone(h))
        BY <1>1, <1>2
  <2>2. Gone(h) => Gone(h)'
        BY <2>1, GoneStep
  <2> QED BY <1>2, <2>1, <2>2 DEF Time
<1>3. CASE Open
  <2>1. UNCHANGED <<acked, home, gz, gzData, raced>> /\ clash \subseteq clash'
        BY <1>3, OpenEffect
  <2>2. h = now' /\ Clean(h)' => OnDisk(h) = {}
        BY <1>3, <2>1, OpenEffect DEF Clean, OnDisk, Exists
  <2>3. h # now' => OnDisk(h)' = OnDisk(h)
    <3>1. SUFFICES ASSUME h # now'
                   PROVE  OnDisk(h)' = OnDisk(h)
          OBVIOUS
    <3>2. h \in Time
          BY <1>1, <2>1
    <3>3. log'[h] = log[h]
          BY <1>3, <3>1, <3>2, OpenEffect
    <3>4. log[h] # 0 => content'[log[h]] = content[log[h]]
          BY <1>3, <3>1, <3>2, OpenEffect DEF TypeOK
    <3> QED BY <2>1, <3>3, <3>4 DEF OnDisk
  <2> QED BY <1>2, <2>1, <2>2, <2>3 DEF Clean
<1>4. CASE Write
  <2>1. /\ file \in Inode /\ file # 0 /\ name[file] \in Time /\ nextRecord \in Record
        /\ UNCHANGED <<log, gz, gzData, clash, raced, file>>
        /\ content' = [content EXCEPT ![file] = @ \cup {nextRecord}]
        /\ home' = [home EXCEPT ![nextRecord] = name[file]]
        /\ acked' = acked \cup {nextRecord}
        BY <1>4 DEF Write, ControlInv, TypeOK, FilesInv
  <2>2. CASE r = nextRecord
    <3>1. h = name[file]
          BY <2>1, <2>2 DEF TypeOK
    <3>2. Clean(name[file]) => log[name[file]] = file
          BY <2>1 DEF CleanInv
    <3>3. r \in content'[file]
          BY <2>1, <2>2 DEF TypeOK
    <3>4. h # 0
          BY <2>1, <3>1 DEF Time
    <3>5. Clean(h)' => Clean(h)
          BY <2>1, <3>1 DEF Clean
    <3> QED BY <2>1, <3>1, <3>2, <3>3, <3>4, <3>5 DEF OnDisk
  <2>3. CASE r # nextRecord
    <3>1. r \in acked /\ h = home[r]
          BY <2>1, <2>3 DEF TypeOK
    <3>2. \A f \in Inode : content[f] \subseteq content'[f]
          BY <2>1 DEF TypeOK
    <3>3. log[h] \in Inode \cup {0}
          BY <1>1, <3>1 DEF TypeOK
    <3>4. OnDisk(h) \subseteq OnDisk(h)'
          BY <2>1, <3>2, <3>3 DEF OnDisk
    <3> QED BY <1>2, <2>1, <3>1, <3>4 DEF Clean
  <2> QED BY <2>2, <2>3
<1>5. CASE Remove \/ Create \/ Copy \/ Unlink
  <2>1. UNCHANGED <<acked, home, clash, raced>>
        BY <1>5, SweepEffect
  <2>2. Clean(h)' => OnDisk(h) \subseteq OnDisk(h)' \/ Gone(h)
        BY <1>1, <1>5, <2>1, SweepKeeps DEF Clean
  <2> QED BY <1>2, <2>1, <2>2 DEF Clean
<1>6. CASE UNCHANGED <<log, gz, gzData, content, acked, home, clash>> /\ raced \subseteq raced'
      BY <1>2, <1>6 DEF OnDisk, Clean
<1>7. CASE Scan
      BY <1>6, <1>7 DEF Scan, WriterUnchanged
<1>8. CASE \/ Calls \/ OpenFails \/ Send \/ Assign \/ WriteFails \/ Restart
           \/ Receive \/ List \/ ListFails \/ Decide \/ Swept \/ UNCHANGED vars
      BY <1>6, <1>8 DEF vars, Calls, WriteCall, RotateCall, Close, OpenFails, Send, Assign,
         WriteFails, Restart, Receive, List, ListFails, Decide, Swept, WriterUnchanged
<1> QED BY <1>3, <1>4, <1>5, <1>7, <1>8
        DEF Next, WriterStep, TaskStep, Crash, Panic

\* LogInv holds in every state of every behaviour (rotate.go): a file in use
\* stays in the directory under its name, and what a sweep has set out to
\* remove has the policy's leave or a complete archive.
THEOREM LogInvariant == Spec => []LogInv
<1>1. Init => LogInv
  <2>1. Init => Core
        BY CoreInit
  <2>2. Init => FilesInv /\ CleanInv /\ RemoveInv /\ KeptInv
        BY BoundsAssumption
        DEF Init, FilesInv, CleanInv, RemoveInv, KeptInv, InUse, Inode
  <2> QED BY <2>1, <2>2 DEF LogInv, Core, Basic
<1>2. LogInv /\ [Next]_vars => LogInv'
  <2> SUFFICES ASSUME LogInv, [Next]_vars PROVE LogInv'
      OBVIOUS
  <2>1. Core /\ FilesInv /\ CleanInv /\ RemoveInv /\ KeptInv
        BY DEF LogInv, Core, Basic
  <2>2. Core' /\ FilesInv' /\ CleanInv' /\ RemoveInv' /\ KeptInv'
        BY <2>1, CoreStep, FilesStep, CleanStep, RemoveStep, KeptStep
  <2> QED BY <2>2 DEF LogInv, Core, Basic
<1> QED BY <1>1, <1>2, PTL DEF Spec

\* What is gone for good has expired: the backups that count here do there.
LEMMA GoneIsExpired ==
  ASSUME LogInv, NEW t \in Time, Gone(t)
  PROVE  Expired(t)
<1> DEFINE B == {u \in Backups : u > t}
<1>1. Newer(t) \subseteq B
  <2>1. ASSUME NEW u \in Time, Solid(u), gz[u] = "none" PROVE u \in Backups
    <3>1. log[u] # 0 /\ (InUse(u) => u \in clash \cup raced)
          BY <2>1 DEF Solid, Exists, Clean
    <3>2. u = Current => InUse(u)
          BY DEF Current, InUse, Time
    <3> QED BY <3>1, <3>2 DEF Backups
  <2>2. ASSUME NEW u \in Time, gz[u] # "none" PROVE u \in Backups
        BY <2>2 DEF Backups
  <2> QED BY <2>1, <2>2 DEF Newer
<1>2. B \subseteq Time
      BY DEF Backups
<1>3. Cardinality(Newer(t)) <= Cardinality(B)
      BY <1>1, <1>2, MoreTimes
<1>4. Cardinality(Newer(t)) \in Nat /\ Cardinality(B) \in Nat
      BY <1>1, <1>2, TimesAreFinite
<1>5. MaxBackups > 0 /\ Cardinality(Newer(t)) >= MaxBackups => Cardinality(B) >= MaxBackups
      BY <1>3, <1>4, PolicyAssumption
<1> QED BY <1>5 DEF Gone, Expired

\* A record that Write has reported written can be read back from the file or
\* the complete archive of its name until the policy lets the name go, through
\* any interleaving of calls and sweep, any failure and any crash; but for
\* names given to two files and those the sweep took for old while Write was
\* switching to them (rotate.go, all of Logger).
THEOREM AckedIsKept == Spec => []NothingLost
<1>1. LogInv => NothingLost
  <2> SUFFICES ASSUME LogInv, NEW r \in acked, Clean(home[r])
               PROVE  r \in Kept(home[r]) \/ Expired(home[r])
      BY DEF NothingLost, Clean
  <2>1. home[r] \in Time /\ (r \in OnDisk(home[r]) \/ Gone(home[r]))
        BY DEF LogInv, KeptInv, TypeOK
  <2>2. OnDisk(home[r]) \subseteq Kept(home[r])
        BY DEF OnDisk, Kept
  <2>3. Gone(home[r]) => Expired(home[r])
        BY <2>1, GoneIsExpired
  <2> QED BY <2>1, <2>2, <2>3
<1> QED BY <1>1, LogInvariant, PTL

------------------------------------------------------------------------------
(* What a step does to the directory *)

LEMMA EntryAtSweep ==
  ASSUME LogInv, NEW e \in remove \cup compress
  PROVE  e.t \in Time /\ (e \in compress => log[e.t] # 0) /\ (e \in remove => Expired(e.t))
<1>1. e.t \in Time
      BY DEF LogInv, TypeOK, Entry
<1>2. e \in compress => log[e.t] # 0
      BY DEF LogInv, SweepInv, Listed
<1>3. e \in remove => Expired(e.t)
      BY <1>1, GoneIsExpired DEF LogInv, RemoveInv
<1> QED BY <1>1, <1>2, <1>3

LEMMA RemovedForCause ==
  ASSUME LogInv, Remove \/ Create \/ Copy \/ Unlink
  PROVE  FileStep /\ ArchiveStep /\ ContentStep
<1>1. content' = content
      BY DEF Remove, Create, Copy, Unlink, WriterUnchanged
<1>2. PICK x \in remove \cup compress :
        /\ log' = log \/ log' = [log EXCEPT ![x.t] = 0]
        /\ UNCHANGED archive \/ \E s, d : Archive(x.t, s, d)
        /\ \/ x \in remove
           \/ log' = log /\ x \in compress
           \/ Unlink /\ x \in Newest(compress) /\ (UNCHANGED archive \/ log' = log)
      BY DEF Remove, Create, Copy, Unlink, Newest, GiveUp
<1>3. x.t \in Time /\ (x \in compress => log[x.t] # 0) /\ (x \in remove => Expired(x.t))
      BY EntryAtSweep
<1>4. \A t \in Time : t # x.t => log'[t] = log[t] /\ gz'[t] = gz[t]
      BY <1>2, <1>3 DEF Archive, LogInv, TypeOK
<1>5. \/ Expired(x.t)
      \/ log' = log /\ log[x.t] # 0
      \/ /\ gz' = gz /\ gz[x.t] = "done"
         /\ content[log[x.t]] \subseteq gzData[x.t] \/ x.t \in clash \cup raced
  <2>1. CASE Unlink /\ x \in Newest(compress) /\ (UNCHANGED archive \/ log' = log)
    <3>1. gz[x.t] = "done" /\ (Clean(x.t) => content[log[x.t]] \subseteq gzData[x.t])
          BY <2>1 DEF LogInv, RemoveInv, Unlink
    <3>2. x \in compress
          BY <2>1 DEF Newest
    <3> QED BY <1>3, <2>1, <3>1, <3>2 DEF Clean
  <2> QED BY <1>2, <1>3, <2>1
<1>6. FileStep
      BY <1>4, <1>5 DEF FileStep
<1>7. ArchiveStep
      BY <1>4, <1>5 DEF ArchiveStep
<1> QED BY <1>1, <1>6, <1>7 DEF ContentStep

LEMMA DirectoryStep == LogInv /\ [Next]_vars => FileStep /\ ArchiveStep /\ ContentStep
<1> SUFFICES ASSUME LogInv, [Next]_vars PROVE FileStep /\ ArchiveStep /\ ContentStep
    OBVIOUS
<1>1. CASE Open
  <2>1. Core /\ FilesInv
        BY DEF LogInv, Core, Basic
  <2>2. PICK f \in Inode :
          /\ f # 0 /\ log'[now'] = f /\ log[now'] \in {0, f}
          /\ \A t \in Time : t # now' => log'[t] = log[t] /\ log[t] # f
          /\ \A g \in Inode \ {f} : content'[g] = content[g]
        BY <1>1, <2>1, OpenEffect
  <2>3. gz' = gz /\ (now' \notin clash' => ~ Exists(now'))
        BY <1>1, <2>1, OpenEffect
  <2>4. \A t \in Time : log[t] # 0 => log'[t] # 0
        BY <2>2
  <2>5. ContentStep
    <3> SUFFICES ASSUME NEW t \in Time, log[t] # 0, content'[log[t]] # content[log[t]]
                 PROVE  t \in clash'
        BY DEF ContentStep
    <3>1. log[t] \in Inode
          BY DEF LogInv, TypeOK
    <3>2. t = now'
          BY <2>2, <3>1
    <3> QED BY <2>3, <3>2 DEF Exists
  <2> QED BY <2>3, <2>4, <2>5 DEF FileStep, ArchiveStep
<1>2. CASE Write
  <2>1. /\ UNCHANGED <<log, gz>> /\ file \in Inode
        /\ content' = [content EXCEPT ![file] = @ \cup {nextRecord}]
        BY <1>2 DEF Write, LogInv, TypeOK, ControlInv
  <2>2. \A f \in Inode : content'[f] # content[f] => f = file /\ content[file] \subseteq content'[file]
        BY <2>1 DEF LogInv, TypeOK
  <2>3. \A t \in Time : log[t] # 0 => log[t] \in Inode
        BY DEF LogInv, TypeOK
  <2> QED BY <2>1, <2>2, <2>3 DEF FileStep, ArchiveStep, ContentStep
<1>3. CASE UNCHANGED <<log, gz, content>>
      BY <1>3 DEF FileStep, ArchiveStep, ContentStep
<1>4. CASE \/ Calls \/ OpenFails \/ Send \/ Assign \/ WriteFails \/ Restart
           \/ Receive \/ List \/ ListFails \/ Scan \/ Decide \/ Swept \/ UNCHANGED vars
      BY <1>3, <1>4 DEF vars, Calls, WriteCall, RotateCall, Close, OpenFails, Send, Assign,
         WriteFails, Restart, Receive, List, ListFails, Scan, Decide, Swept, WriterUnchanged
<1> QED BY <1>1, <1>2, <1>4, RemovedForCause
        DEF Next, WriterStep, TaskStep, Crash, Panic

\* A step takes a file out of the directory only when the policy lets it go or a
\* complete archive has its records, an archive only while the file is there, and
\* changes no file but the present one (CompressOnce and Write of rotate.go).
THEOREM FilesAreReplaced == Spec => ReplacedBeforeRemoved
<1>1. LogInv /\ [Next]_vars => [FileStep /\ ArchiveStep /\ ContentStep]_vars
      BY DirectoryStep
<1> QED BY <1>1, LogInvariant, PTL DEF Spec, ReplacedBeforeRemoved

==============================================================================
