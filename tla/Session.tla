------------------------------ MODULE Session ------------------------------
(***************************************************************************)
(* Sessions in files: ext/session/session.c over ext/session/mod_files.c,    *)
(* in processes that serve requests with the same session ids. A session is *)
(* a file, whose lock a request holds from session_start to the end of the  *)
(* session; session_destroy, session_regenerate_id and the collection of    *)
(* old files remove names, and a process that has or waits for the file     *)
(* behind a name does not see it go.                                        *)
(*                                                                         *)
(* A file is what its writes leave: whole, or torn when a write ends before *)
(* an older and longer one did. open, flock, stat, unlink, ftruncate and    *)
(* pwrite are steps of their own, and a process can be killed before each.  *)
(* Nobody asks what flock returned: a request goes on without the lock.     *)
(***************************************************************************)
EXTENDS Integers, FiniteSets

CONSTANTS
  Proc, Sid,     \* processes and session ids
  Inode,         \* files
  Val, Size,     \* encoded session data and its length
  Empty, Torn,   \* a file of length 0, and one with the end of an older write
  None,
  Interrupted,   \* processes whose flock may fail: an alarm's EINTR, ENOLCK
  MaxStarts      \* bound: sessions started

VARIABLES
  dir,       \* the file each session id names
  file,      \* contents, length and history of files
  lock,      \* who has the lock on a file
  era,       \* history: how often the name of a session was unlinked
  pc, op,    \* where a process is, and for whom ps_files_open works
  id,        \* PS(id)
  fd, lastkey, st_size,  \* ps_files
  read,      \* history: whether the open file is locked and was read, and the session, in
             \* which era of its name, that the request's variables were read from
  new,       \* what it ends with, encoded
  target,    \* the name a collection is about to unlink
  starts

disk == <<dir, file, lock, era>>
data == <<fd, lastkey, st_size>>
vars == <<disk, pc, op, id, data, read, new, target, starts>>

ASSUME SessionAssumption ==
  /\ IsFiniteSet(Proc) /\ IsFiniteSet(Sid) /\ IsFiniteSet(Inode)
  /\ Size \in [Val -> Nat \ {0}] /\ {Empty, Torn} \cap Val = {} /\ Empty # Torn
  /\ None \notin Proc \cup Sid \cup Inode
  /\ Interrupted \subseteq Proc
  /\ MaxStarts \in Nat

Data == Val \cup {Empty, Torn}
Length(v) == IF v \in Val THEN Size[v] ELSE 0
Blank == [data |-> Empty, size |-> 0, locked |-> TRUE, sid |-> None, era |-> 0]
Unread == [done |-> FALSE, locked |-> FALSE, sid |-> None, era |-> 0]
Content == [data : Data, size : Nat, locked : BOOLEAN, sid : Sid \cup {None}, era : Nat]
Reading == [done : BOOLEAN, locked : BOOLEAN, sid : Sid \cup {None}, era : Nat]

TypeOK ==
  /\ dir \in [Sid -> Inode \cup {None}]
  /\ file \in [Inode -> Content]
  /\ lock \in [Inode -> Proc \cup {None}]
  /\ era \in [Sid -> Nat]
  /\ pc \in [Proc -> {"idle", "open", "flock", "read", "gc", "collect", "script",
                      "truncate", "pwrite", "close", "destroy", "regenerate"}]
  /\ op \in [Proc -> {"read", "write"}]
  /\ id \in [Proc -> Sid \cup {None}] /\ lastkey \in [Proc -> Sid \cup {None}]
  /\ fd \in [Proc -> Inode \cup {None}] /\ st_size \in [Proc -> Nat]
  /\ read \in [Proc -> Reading]
  /\ new \in [Proc -> Val \cup {Empty}] /\ target \in [Proc -> Sid \cup {None}]
  /\ starts \in 0..MaxStarts

Init ==
  /\ dir = [s \in Sid |-> None] /\ file = [i \in Inode |-> Blank]
  /\ lock = [i \in Inode |-> None] /\ era = [s \in Sid |-> 0]
  /\ pc = [p \in Proc |-> "idle"] /\ op = [p \in Proc |-> "read"]
  /\ id = [p \in Proc |-> None] /\ lastkey = [p \in Proc |-> None]
  /\ fd = [p \in Proc |-> None] /\ st_size = [p \in Proc |-> 0]
  /\ read = [p \in Proc |-> Unread] /\ new = [p \in Proc |-> Empty]
  /\ target = [p \in Proc |-> None]
  /\ starts = 0

-----------------------------------------------------------------------------
Goto(p, label) == pc' = [pc EXCEPT ![p] = label]

\* A file no name and no process refers to is gone.
Used == {i \in Inode : \E s \in Sid : dir[s] = i} \cup {fd[p] : p \in Proc}
          \cup {i \in Inode : lock[i] # None}
NewInode == CHOOSE i \in Inode \ Used : TRUE

\* What s_create_sid returns: nobody has had this id.
Fresh == {s \in Sid : dir[s] = None /\ era[s] = 0 /\ \A p \in Proc : s # id[p]}

\* ps_files_close, which gives the lock back. (Mutant: the descriptor is forgotten.)
ForgetFile(p) == fd' = [fd EXCEPT ![p] = None] /\ UNCHANGED lock
CloseFile(p) ==
  /\ fd' = [fd EXCEPT ![p] = None]
  /\ lock' = [i \in Inode |-> IF i = fd[p] /\ lock[i] = p THEN None ELSE lock[i]]

\* The session is over; what the request had of it is freed.
Forget(p) ==
  /\ lastkey' = [lastkey EXCEPT ![p] = None] /\ st_size' = [st_size EXCEPT ![p] = 0]
  /\ read' = [read EXCEPT ![p] = Unread] /\ new' = [new EXCEPT ![p] = Empty]
  /\ op' = [op EXCEPT ![p] = "read"]

Unlink(s) ==
  /\ dir' = [dir EXCEPT ![s] = None]
  /\ era' = [era EXCEPT ![s] = IF dir[s] = None THEN @ ELSE @ + 1]

-----------------------------------------------------------------------------
(* ps_files.                                                                *)

\* ps_files_open keeps the file it has only while the id is the one it was opened for.
\* (Mutant: it opens again for every write.)
AlwaysReopens(p) == TRUE
Reopens(p) == fd[p] = None \/ lastkey[p] # id[p]

\* open with O_CREAT, which needs an inode for a new file.
Open(p) ==
  /\ pc[p] = "open"
  /\ dir[id[p]] # None \/ Inode \ Used # {}
  /\ LET s == id[p]
         i == IF dir[s] = None THEN NewInode ELSE dir[s] IN
     /\ file' = IF dir[s] = None THEN [file EXCEPT ![i] = Blank] ELSE file
     /\ dir' = [dir EXCEPT ![s] = i]
     /\ fd' = [fd EXCEPT ![p] = i] /\ lastkey' = [lastkey EXCEPT ![p] = s]
     /\ read' = [read EXCEPT ![p] = IF op[p] = "read"
                   THEN [done |-> FALSE, locked |-> FALSE, sid |-> s, era |-> era[s]]
                   ELSE [@ EXCEPT !.done = FALSE, !.locked = FALSE]]
  /\ Goto(p, "flock")
  /\ UNCHANGED <<lock, era, op, id, st_size, new, target, starts>>

\* open fails, for want of descriptors for instance: a session that could not be read is
\* active all the same, and the write opens again.
OpenFails(p) ==
  /\ pc[p] = "open"
  /\ lastkey' = [lastkey EXCEPT ![p] = id[p]]
  /\ Goto(p, IF op[p] = "read" THEN "gc" ELSE "close")
  /\ UNCHANGED <<disk, op, id, fd, st_size, read, new, target, starts>>

\* Mutant: LOCK_SH.
SharesLock(i) == TRUE
\* LOCK_EX.
MayLock(i) == lock[i] = None

Flock(p) ==
  /\ pc[p] = "flock" /\ MayLock(fd[p])
  /\ lock' = [lock EXCEPT ![fd[p]] = p]
  /\ read' = [read EXCEPT ![p].locked = TRUE]
  /\ Goto(p, IF op[p] = "read" THEN "read" ELSE "truncate")
  /\ UNCHANGED <<dir, file, era, op, id, data, new, target, starts>>

\* flock returns an error, and ps_files_open goes on with the descriptor.
FlockFails(p) ==
  /\ pc[p] = "flock" /\ p \in Interrupted
  /\ Goto(p, IF op[p] = "read" THEN "read" ELSE "truncate")
  /\ UNCHANGED <<disk, op, id, data, read, new, target, starts>>

\* Mutant: the end of the file is not counted.
FileLengthLess(i) == file[i].size - 1
FileLength(i) == file[i].size

\* PS_READ_FUNC: fstat and pread. A torn file is decoded as far as that goes.
Read(p) ==
  /\ pc[p] = "read"
  /\ st_size' = [st_size EXCEPT ![p] = FileLength(fd[p])]
  /\ read' = [read EXCEPT ![p].done = TRUE]
  /\ Goto(p, "gc")
  /\ UNCHANGED <<disk, op, id, fd, lastkey, new, target, starts>>

\* ps_files_cleanup_dir looks whether a file is older than session.gc_maxlifetime, which can
\* be no time at all ...
Stat(p) ==
  /\ pc[p] = "gc"
  /\ \E s \in Sid : dir[s] # None /\ target' = [target EXCEPT ![p] = s]
  /\ Goto(p, "collect")
  /\ UNCHANGED <<disk, op, id, data, read, new, starts>>

\* ... and unlinks its name.
Collect(p) ==
  /\ pc[p] = "collect"
  /\ Unlink(target[p])
  /\ target' = [target EXCEPT ![p] = None]
  /\ Goto(p, "gc")
  /\ UNCHANGED <<file, lock, op, id, data, read, new, starts>>

\* Mutant: the test is the other way round.
TooLongGrown(p) == Length(new[p]) > st_size[p]
\* "the amount of new data is smaller than the existing data set".
TooLong(p) == Length(new[p]) < st_size[p]

\* PS_WRITE_FUNC: ftruncate ...
Truncate(p) ==
  /\ pc[p] = "truncate"
  /\ file' = IF TooLong(p) THEN [file EXCEPT ![fd[p]].data = Empty, ![fd[p]].size = 0] ELSE file
  /\ Goto(p, "pwrite")
  /\ UNCHANGED <<dir, lock, era, op, id, data, read, new, target, starts>>

\* ... and pwrite from the start of the file.
Pwrite(p) ==
  LET i == fd[p]
      n == Length(new[p]) IN
  /\ pc[p] = "pwrite"
  /\ file' = IF n = 0 THEN file
             ELSE [file EXCEPT ![i] =
                    [data |-> IF n < @.size THEN Torn ELSE new[p],
                     size |-> IF n < @.size THEN @.size ELSE n,
                     locked |-> read[p].locked, sid |-> read[p].sid, era |-> read[p].era]]
  /\ Goto(p, "close")
  /\ UNCHANGED <<dir, lock, era, op, id, data, read, new, target, starts>>

\* PS_CLOSE_FUNC. PS(id) stays.
Close(p) ==
  /\ pc[p] = "close"
  /\ CloseFile(p) /\ Forget(p)
  /\ Goto(p, "idle")
  /\ UNCHANGED <<dir, file, era, id, target, starts>>

-----------------------------------------------------------------------------
(* Sessions.                                                                *)

\* php_session_start: the id of this request's last session, of a cookie or new, also an id
\* another request has just made, whose client has the headers; s_open makes new data of
\* the handler. (session_id(s) while no session is active is a Start of a new request.)
Start(p) ==
  /\ pc[p] = "idle" /\ starts < MaxStarts
  /\ \E s \in (IF id[p] # None THEN {id[p]} ELSE Sid) : id' = [id EXCEPT ![p] = s]
  /\ starts' = starts + 1
  /\ fd' = [fd EXCEPT ![p] = None] /\ Forget(p)
  /\ Goto(p, "open")
  /\ UNCHANGED <<disk, target>>

\* By chance old files are collected when a session starts, or none.
Started(p) ==
  /\ pc[p] = "gc" /\ Goto(p, "script")
  /\ UNCHANGED <<disk, op, id, data, read, new, target, starts>>

\* php_session_flush: the session is over, and what it has become is written. A file
\* for another id is closed first.
Flush(p) ==
  /\ pc[p] = "script"
  /\ \E v \in Val \cup {Empty} : new' = [new EXCEPT ![p] = v]
  /\ op' = [op EXCEPT ![p] = "write"]
  /\ IF Reopens(p) THEN Goto(p, "open") /\ CloseFile(p)
                   ELSE Goto(p, "truncate") /\ UNCHANGED <<fd, lock>>
  /\ UNCHANGED <<dir, file, era, id, lastkey, st_size, read, target, starts>>

\* Nothing is written when the script has unset its session variables.
FlushNothing(p) ==
  /\ pc[p] = "script"
  /\ Goto(p, "close")
  /\ UNCHANGED <<disk, op, id, data, read, new, target, starts>>

\* session_destroy, which gives the lock back; with no file it is over at once ...
Destroy(p) ==
  /\ pc[p] = "script"
  /\ CloseFile(p)
  /\ IF fd[p] = None
     THEN id' = [id EXCEPT ![p] = None] /\ Forget(p) /\ Goto(p, "idle")
     ELSE Goto(p, "destroy") /\ UNCHANGED <<op, id, lastkey, st_size, read, new>>
  /\ UNCHANGED <<dir, file, era, target, starts>>

\* ... before it unlinks the file.
Destroyed(p) ==
  /\ pc[p] = "destroy"
  /\ Unlink(id[p])
  /\ id' = [id EXCEPT ![p] = None] /\ Forget(p)
  /\ Goto(p, "idle")
  /\ UNCHANGED <<file, lock, fd, target, starts>>

\* session_regenerate_id: a new id for what the session holds, which Flush will open.
RegenerateId(p) ==
  /\ pc[p] = "script"
  /\ \E s \in Fresh : id' = [id EXCEPT ![p] = s]
  /\ UNCHANGED <<disk, pc, op, data, read, new, target, starts>>

\* The same with delete_old_session. What the request read is its own from here on, to be
\* written under any id it takes, the old one included.
Regenerate(p) ==
  /\ pc[p] = "script" /\ fd[p] # None /\ Fresh # {}
  /\ CloseFile(p) /\ read' = [read EXCEPT ![p] = Unread]
  /\ Goto(p, "regenerate")
  /\ UNCHANGED <<dir, file, era, op, id, lastkey, st_size, new, target, starts>>

Regenerated(p) ==
  /\ pc[p] = "regenerate"
  /\ Unlink(id[p])
  /\ \E s \in Fresh : id' = [id EXCEPT ![p] = s]
  /\ Goto(p, "script")
  /\ UNCHANGED <<file, lock, op, data, read, new, target, starts>>

\* session_id(s) while the session is active.
SetId(p) ==
  /\ pc[p] = "script"
  /\ \E s \in Sid : id' = [id EXCEPT ![p] = s]
  /\ UNCHANGED <<disk, pc, op, data, read, new, target, starts>>

\* The end of a request.
Rshutdown(p) ==
  /\ pc[p] = "idle" /\ id[p] # None
  /\ CloseFile(p) /\ Forget(p)
  /\ id' = [id EXCEPT ![p] = None]
  /\ UNCHANGED <<dir, file, era, pc, target, starts>>

\* The process is killed: its descriptors are closed.
Kill(p) ==
  /\ pc[p] # "idle"
  /\ lock' = [i \in Inode |-> IF lock[i] = p THEN None ELSE lock[i]]
  /\ fd' = [fd EXCEPT ![p] = None] /\ Forget(p)
  /\ id' = [id EXCEPT ![p] = None] /\ target' = [target EXCEPT ![p] = None]
  /\ Goto(p, "idle")
  /\ UNCHANGED <<dir, file, era, starts>>

Step(p) == \/ Open(p) \/ OpenFails(p) \/ Flock(p) \/ Read(p) \/ Stat(p) \/ Collect(p)
           \/ Started(p) \/ Truncate(p) \/ Pwrite(p) \/ Close(p) \/ Destroyed(p) \/ Regenerated(p)

Next ==
  \/ \E p \in Proc : \/ Step(p) \/ Start(p) \/ Flush(p) \/ FlushNothing(p) \/ Destroy(p)
                     \/ RegenerateId(p) \/ Regenerate(p) \/ SetId(p) \/ Rshutdown(p) \/ Kill(p)
                     \/ FlockFails(p)

\* Calls return, a process that waits for a lock gets its turn, and scripts end. Nothing
\* says that a flock fails.
Spec == Init /\ [][Next]_vars
          /\ \A p \in Proc : WF_vars(Step(p) \/ Flush(p)) /\ SF_vars(Flock(p))

-----------------------------------------------------------------------------
(* Properties.                                                              *)

\* A file is what one write left or empty, never the start of one write and the end of an
\* older one: "Truncate file if the amount of new data is smaller than the existing data
\* set".
WholeFiles == \A i \in Inode : file[i].data # Torn

\* The test before ftruncate compares with the length st_size that this request read, under
\* this lock. Who has read the file it writes tears it only if its flock failed, or that of
\* the request which wrote the file last.
TearsOnlyUnread ==
  [][\A i \in Inode : file[i].data # Torn /\ file'[i].data = Torn
       => \E p \in Proc :
            fd[p] = i /\ pc[p] = "pwrite" /\ (~read[p].done \/ ~read[p].locked \/ ~file[i].locked)]_vars

\* What a request with the lock writes over is what it has read: until the session ends,
\* others who start, destroy, regenerate or collect it change nothing in the file, but for
\* a request whose own flock failed.
WritesOverWhatItRead ==
  [][\A p \in Proc :
       fd[p] # None /\ read[p].done /\ read[p].locked /\ pc'[p] = pc[p] /\ file'[fd[p]] # file[fd[p]]
         => \E q \in Proc : fd[q] = fd[p] /\ pc'[q] # pc[q] /\ ~read[q].locked]_vars

\* A destroyed or collected session does not come back: data that a request has read from
\* a session are not under its name once the name was unlinked, although others had the old
\* file open, or wait for it, and with or without the lock. (A request whose first open
\* failed has read nothing, and one that gave its session up with session_regenerate_id(true)
\* holds what it read as its own; both write what they like.)
DestroyedIsGone ==
  \A s \in Sid : dir[s] # None /\ file[dir[s]].sid = s => file[dir[s]].era = era[s]

\* Who waits for a session's file has no lock on another: requests that change ids,
\* each into the other's, do not wait for each other.
WaitsForOne == \A p \in Proc : pc[p] \in {"open", "flock"} => \A i \in Inode : lock[i] # p

\* session_start gets its file.
StartsReturn == \A p \in Proc : pc[p] = "flock" ~> pc[p] # "flock"
=============================================================================
