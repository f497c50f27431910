---------------------------- MODULE SessionProof ----------------------------
(***************************************************************************)
(* Safety of sessions in files, proved for every number of processes, ids   *)
(* and files.                                                               *)
(***************************************************************************)
EXTENDS Session, TLAPS

USE SessionAssumption DEF disk, data, Goto

\* In the steps between open and close a process has a file, or nothing when open failed,
\* and the other steps have what they are about.
HasFile == {"read", "gc", "collect", "script", "truncate", "pwrite", "close"}
Placed ==
  \A p \in Proc :
    /\ pc[p] # "idle" => id[p] \in Sid
    /\ pc[p] = "collect" => target[p] \in Sid
    /\ pc[p] \in {"flock", "read", "truncate", "pwrite"} => fd[p] \in Inode
    /\ pc[p] \in {"idle", "open", "destroy", "regenerate"} => fd[p] = None

\* The lock on a file belongs to the process that has it open and whose flock succeeded.
Locked ==
  /\ \A i \in Inode : lock[i] # None => fd[lock[i]] = i /\ pc[lock[i]] \in HasFile
  /\ \A p \in Proc : fd[p] # None /\ pc[p] \in HasFile /\ read[p].locked => lock[fd[p]] = p
  /\ \A p \in Proc : pc[p] = "flock" => ~read[p].locked

\* Two ids name two files.
Names == \A s, t \in Sid : dir[s] = dir[t] => s = t \/ dir[s] = None

\* A file that was read stays open until the session ends. While it has the lock its request
\* knows a length that the file does not exceed, unless one without the lock has written.
ReadRight ==
  \A p \in Proc : read[p].done =>
    /\ pc[p] \in {"gc", "collect", "script", "truncate", "pwrite", "close", "open", "destroy"}
    /\ pc[p] \in {"gc", "collect", "script"} => fd[p] \in Inode
    /\ pc[p] = "open" => op[p] = "write"
    /\ read[p].locked /\ fd[p] # None /\ file[fd[p]].locked =>
         /\ pc[p] \in {"gc", "collect", "script", "truncate"} => file[fd[p]].size <= st_size[p]
         /\ pc[p] = "pwrite" => file[fd[p]].size <= Length(new[p])

\* Who has read a session has its file until the script is over, and opens another only for
\* another id.
Origins ==
  \A p \in Proc : read[p].sid # None =>
    /\ pc[p] \in {"gc", "collect", "script", "read"} \/ (pc[p] = "flock" /\ op[p] = "read") =>
         fd[p] # None /\ lastkey[p] = read[p].sid
    /\ pc[p] = "open" => op[p] = "write" /\ read[p].sid # id[p]
    /\ pc[p] # "regenerate"

\* Who has read a session, and has the file behind its name, opened it in the present era of
\* the name.
Eras ==
  \A p \in Proc, s \in Sid : fd[p] # None /\ fd[p] = dir[s] /\ read[p].sid = s => read[p].era = era[s]

Inv == TypeOK /\ Placed /\ Locked /\ Names /\ ReadRight /\ Origins /\ Eras /\ DestroyedIsGone

\* What ends a session keeps the types of what it clears.
LEMMA CloseFileTypes ==
  ASSUME TypeOK, NEW p \in Proc, CloseFile(p)
  PROVE  lock' \in [Inode -> Proc \cup {None}] /\ fd' \in [Proc -> Inode \cup {None}]
  BY DEF CloseFile, TypeOK

LEMMA ForgetTypes ==
  ASSUME TypeOK, NEW p \in Proc, Forget(p)
  PROVE  /\ lastkey' \in [Proc -> Sid \cup {None}] /\ st_size' \in [Proc -> Nat]
         /\ read' \in [Proc -> Reading] /\ new' \in [Proc -> Val \cup {Empty}]
         /\ op' \in [Proc -> {"read", "write"}]
  BY DEF Forget, TypeOK, Unread, Reading

\* ps_files_open takes the file the name leads to, or one that nobody has.
LEMMA OpenOpens ==
  ASSUME TypeOK, Placed, NEW p \in Proc, Open(p)
  PROVE  /\ id[p] \in Sid /\ fd'[p] \in Inode
         /\ fd' = [fd EXCEPT ![p] = fd'[p]]
         /\ dir' = [dir EXCEPT ![id[p]] = fd'[p]]
         /\ \/ dir[id[p]] = fd'[p] /\ file' = file
            \/ /\ \A s \in Sid : dir[s] # fd'[p]
               /\ \A q \in Proc : fd[q] # fd'[p]
               /\ file' = [file EXCEPT ![fd'[p]] = Blank]
<1>1. id[p] \in Sid
  BY DEF Open, Placed
<1>2. dir[id[p]] = None =>
        /\ NewInode \in Inode
        /\ \A s \in Sid : dir[s] # NewInode
        /\ \A q \in Proc : fd[q] # NewInode
  BY <1>1 DEF Open, NewInode, Used
<1>. QED  BY <1>1, <1>2 DEF Open, TypeOK

\* Every step keeps the variables in their sets.
LEMMA KeepsTypeOK ==
  ASSUME TypeOK, Placed, [Next]_vars
  PROVE  TypeOK'
<1>1. ASSUME NEW p \in Proc PROVE
      /\ Open(p) => TypeOK'
      /\ OpenFails(p) => TypeOK'
      /\ Flock(p) => TypeOK'
      /\ Read(p) => TypeOK'
      /\ Stat(p) => TypeOK'
      /\ Collect(p) => TypeOK'
      /\ Started(p) => TypeOK'
      /\ Truncate(p) => TypeOK'
      /\ Pwrite(p) => TypeOK'
      /\ Close(p) => TypeOK'
      /\ Destroyed(p) => TypeOK'
      /\ Regenerated(p) => TypeOK'
      /\ Start(p) => TypeOK'
      /\ Flush(p) => TypeOK'
      /\ FlushNothing(p) => TypeOK'
      /\ Destroy(p) => TypeOK'
      /\ RegenerateId(p) => TypeOK'
      /\ Regenerate(p) => TypeOK'
      /\ SetId(p) => TypeOK'
      /\ Rshutdown(p) => TypeOK'
      /\ Kill(p) => TypeOK'
      /\ FlockFails(p) => TypeOK'
  <2>1. ASSUME Open(p) PROVE TypeOK'
    <3>1. Blank \in Content
      BY DEF Blank, Content, Data
    <3>2. id[p] \in Sid /\ read' \in [Proc -> Reading]
      <4>1. id[p] \in Sid /\ read[p] \in Reading /\ era[id[p]] \in Nat
        BY <2>1, OpenOpens DEF TypeOK
      <4>2. /\ [done |-> FALSE, locked |-> FALSE, sid |-> id[p], era |-> era[id[p]]] \in Reading
            /\ [read[p] EXCEPT !.done = FALSE, !.locked = FALSE] \in Reading
        BY <4>1 DEF Reading
      <4>. QED  BY <2>1, <4>1, <4>2 DEF Open, TypeOK
    <3>3. file' \in [Inode -> Content] /\ fd' \in [Proc -> Inode \cup {None}]
      BY <2>1, <3>1, OpenOpens DEF TypeOK
    <3>4. dir' \in [Sid -> Inode \cup {None}]
      BY <2>1, OpenOpens DEF TypeOK
    <3>. QED  BY <2>1, <3>2, <3>3, <3>4 DEF Open, TypeOK
  <2>2. ASSUME OpenFails(p) PROVE TypeOK'
    BY <2>2 DEF OpenFails, TypeOK, Placed, Data
  <2>3. ASSUME Flock(p) PROVE TypeOK'
    <3>1. fd[p] \in Inode /\ read[p] \in Reading
      BY <2>3 DEF Flock, TypeOK, Placed
    <3>2. [read[p] EXCEPT !.locked = TRUE] \in Reading
      BY <3>1 DEF Reading
    <3>3. read' \in [Proc -> Reading] /\ lock' \in [Inode -> Proc \cup {None}]
      BY <2>3, <3>1, <3>2 DEF Flock, TypeOK
    <3>. QED  BY <2>3, <3>3 DEF Flock, TypeOK
  <2>4. ASSUME Read(p) PROVE TypeOK'
    <3>1. fd[p] \in Inode /\ read[p] \in Reading
      BY <2>4 DEF Read, TypeOK, Placed
    <3>2. [read[p] EXCEPT !.done = TRUE] \in Reading
      BY <3>1 DEF Reading
    <3>3. read' \in [Proc -> Reading]
      BY <2>4, <3>2 DEF Read, TypeOK
    <3>4. st_size' \in [Proc -> Nat]
      BY <2>4, <3>1 DEF Read, TypeOK, Content, FileLength
    <3>. QED  BY <2>4, <3>3, <3>4 DEF Read, TypeOK
  <2>5. ASSUME Stat(p) PROVE TypeOK'
    BY <2>5 DEF Stat, TypeOK, Placed, Data
  <2>6. ASSUME Collect(p) PROVE TypeOK'
    BY <2>6 DEF Collect, TypeOK, Placed, Data, Unlink
  <2>7. ASSUME Started(p) PROVE TypeOK'
    BY <2>7 DEF Started, TypeOK, Placed, Data
  <2>8. ASSUME Truncate(p) PROVE TypeOK'
    BY <2>8 DEF Truncate, TypeOK, Placed, Data, Content
  <2>9. ASSUME Pwrite(p) PROVE TypeOK'
    BY <2>9 DEF Pwrite, TypeOK, Placed, Data, Content, Reading, Length
  <2>10. ASSUME Close(p) PROVE TypeOK'
    BY <2>10 DEF Close, TypeOK, Placed, Data, Content, Reading, CloseFile, Forget, Unread
  <2>11. ASSUME Destroyed(p) PROVE TypeOK'
    BY <2>11 DEF Destroyed, TypeOK, Placed, Data, Content, Reading, Unlink, Forget, Unread
  <2>12. ASSUME Regenerated(p) PROVE TypeOK'
    BY <2>12 DEF Regenerated, TypeOK, Placed, Data, Unlink, Fresh
  <2>13. ASSUME Start(p) PROVE TypeOK'
    BY <2>13 DEF Start, TypeOK, Placed, Data, Content, Reading, Forget, Unread
  <2>14. ASSUME Flush(p) PROVE TypeOK'
    <3>1. CASE Reopens(p)
      BY <2>14, <3>1, CloseFileTypes DEF Flush, TypeOK
    <3>2. CASE ~(Reopens(p))
      BY <2>14, <3>2 DEF Flush, TypeOK
    <3>. QED  BY <3>1, <3>2
  <2>15. ASSUME FlushNothing(p) PROVE TypeOK'
    BY <2>15 DEF FlushNothing, TypeOK, Placed, Data
  <2>16. ASSUME Destroy(p) PROVE TypeOK'
    <3>1. CASE fd[p] = None
      BY <2>16, <3>1, CloseFileTypes, ForgetTypes DEF Destroy, TypeOK
    <3>2. CASE ~(fd[p] = None)
      BY <2>16, <3>2, CloseFileTypes DEF Destroy, TypeOK
    <3>. QED  BY <3>1, <3>2
  <2>17. ASSUME RegenerateId(p) PROVE TypeOK'
    BY <2>17 DEF RegenerateId, TypeOK, Placed, Data, Fresh
  <2>18. ASSUME Regenerate(p) PROVE TypeOK'
    BY <2>18 DEF Regenerate, TypeOK, Placed, Data, Content, Reading, CloseFile, Unread
  <2>19. ASSUME SetId(p) PROVE TypeOK'
    BY <2>19 DEF SetId, TypeOK, Placed, Data
  <2>20. ASSUME Rshutdown(p) PROVE TypeOK'
    BY <2>20 DEF Rshutdown, TypeOK, Placed, Data, Content, Reading, CloseFile, Forget, Unread
  <2>21. ASSUME Kill(p) PROVE TypeOK'
    BY <2>21 DEF Kill, TypeOK, Placed, Data, Content, Reading, Forget, Unread
  <2>22. ASSUME FlockFails(p) PROVE TypeOK'
    BY <2>22 DEF FlockFails, TypeOK, Placed, Data
  <2>23. QED  BY <2>1, <2>2, <2>3, <2>4, <2>5, <2>6, <2>7, <2>8, <2>9, <2>10, <2>11, <2>12, <2>13, <2>14, <2>15, <2>16, <2>17, <2>18, <2>19, <2>20, <2>21, <2>22
<1>2. UNCHANGED vars => TypeOK'
  BY DEF vars, TypeOK, Placed, Data
<1>3. QED  BY <1>1, <1>2 DEF Next, Step

\* Every step leaves a process with what its next one needs.
LEMMA KeepsPlaced ==
  ASSUME TypeOK, Placed, [Next]_vars
  PROVE  Placed'
<1>1. ASSUME NEW p \in Proc PROVE
      /\ Open(p) => Placed'
      /\ OpenFails(p) => Placed'
      /\ Flock(p) => Placed'
      /\ Read(p) => Placed'
      /\ Stat(p) => Placed'
      /\ Collect(p) => Placed'
      /\ Started(p) => Placed'
      /\ Truncate(p) => Placed'
      /\ Pwrite(p) => Placed'
      /\ Close(p) => Placed'
      /\ Destroyed(p) => Placed'
      /\ Regenerated(p) => Placed'
      /\ Start(p) => Placed'
      /\ Flush(p) => Placed'
      /\ FlushNothing(p) => Placed'
      /\ Destroy(p) => Placed'
      /\ RegenerateId(p) => Placed'
      /\ Regenerate(p) => Placed'
      /\ SetId(p) => Placed'
      /\ Rshutdown(p) => Placed'
      /\ Kill(p) => Placed'
      /\ FlockFails(p) => Placed'
  <2>1. ASSUME Open(p) PROVE Placed'
    BY <2>1 DEF Open, TypeOK, Placed, NewInode, Used, Blank
  <2>2. ASSUME OpenFails(p) PROVE Placed'
    BY <2>2 DEF OpenFails, TypeOK, Placed
  <2>3. ASSUME Flock(p) PROVE Placed'
    BY <2>3 DEF Flock, TypeOK, Placed, MayLock
  <2>4. ASSUME Read(p) PROVE Placed'
    BY <2>4 DEF Read, TypeOK, Placed, FileLength
  <2>5. ASSUME Stat(p) PROVE Placed'
    BY <2>5 DEF Stat, TypeOK, Placed
  <2>6. ASSUME Collect(p) PROVE Placed'
    BY <2>6 DEF Collect, TypeOK, Placed, Unlink
  <2>7. ASSUME Started(p) PROVE Placed'
    BY <2>7 DEF Started, TypeOK, Placed
  <2>8. ASSUME Truncate(p) PROVE Placed'
    BY <2>8 DEF Truncate, TypeOK, Placed, TooLong, Length
  <2>9. ASSUME Pwrite(p) PROVE Placed'
    BY <2>9 DEF Pwrite, TypeOK, Placed, Length
  <2>10. ASSUME Close(p) PROVE Placed'
    BY <2>10 DEF Close, TypeOK, Placed, CloseFile, Forget, Unread
  <2>11. ASSUME Destroyed(p) PROVE Placed'
    BY <2>11 DEF Destroyed, TypeOK, Placed, Unlink, Forget, Unread
  <2>12. ASSUME Regenerated(p) PROVE Placed'
    BY <2>12 DEF Regenerated, TypeOK, Placed, Unlink, Fresh
  <2>13. ASSUME Start(p) PROVE Placed'
    BY <2>13 DEF Start, TypeOK, Placed, Forget, Unread
  <2>14. ASSUME Flush(p) PROVE Placed'
    BY <2>14 DEF Flush, TypeOK, Placed, CloseFile, Reopens
  <2>15. ASSUME FlushNothing(p) PROVE Placed'
    BY <2>15 DEF FlushNothing, TypeOK, Placed
  <2>16. ASSUME Destroy(p) PROVE Placed'
    BY <2>16 DEF Destroy, TypeOK, Placed, CloseFile, Forget, Unread
  <2>17. ASSUME RegenerateId(p) PROVE Placed'
    BY <2>17 DEF RegenerateId, TypeOK, Placed, Fresh
  <2>18. ASSUME Regenerate(p) PROVE Placed'
    BY <2>18 DEF Regenerate, TypeOK, Placed, CloseFile, Unread
  <2>19. ASSUME SetId(p) PROVE Placed'
    BY <2>19 DEF SetId, TypeOK, Placed
  <2>20. ASSUME Rshutdown(p) PROVE Placed'
    BY <2>20 DEF Rshutdown, TypeOK, Placed, CloseFile, Forget, Unread
  <2>21. ASSUME Kill(p) PROVE Placed'
    BY <2>21 DEF Kill, TypeOK, Placed, Forget, Unread
  <2>22. ASSUME FlockFails(p) PROVE Placed'
    BY <2>22 DEF FlockFails, TypeOK, Placed
  <2>23. QED  BY <2>1, <2>2, <2>3, <2>4, <2>5, <2>6, <2>7, <2>8, <2>9, <2>10, <2>11, <2>12, <2>13, <2>14, <2>15, <2>16, <2>17, <2>18, <2>19, <2>20, <2>21, <2>22
<1>2. UNCHANGED vars => Placed'
  BY DEF vars, TypeOK, Placed
<1>3. QED  BY <1>1, <1>2 DEF Next, Step

\* Locks are taken by flock and given back with the file.
LEMMA KeepsLocked ==
  ASSUME TypeOK, Placed, Locked, [Next]_vars
  PROVE  Locked'
<1>1. ASSUME NEW p \in Proc PROVE
      /\ Open(p) => Locked'
      /\ OpenFails(p) => Locked'
      /\ Flock(p) => Locked'
      /\ Read(p) => Locked'
      /\ Stat(p) => Locked'
      /\ Collect(p) => Locked'
      /\ Started(p) => Locked'
      /\ Truncate(p) => Locked'
      /\ Pwrite(p) => Locked'
      /\ Close(p) => Locked'
      /\ Destroyed(p) => Locked'
      /\ Regenerated(p) => Locked'
      /\ Start(p) => Locked'
      /\ Flush(p) => Locked'
      /\ FlushNothing(p) => Locked'
      /\ Destroy(p) => Locked'
      /\ RegenerateId(p) => Locked'
      /\ Regenerate(p) => Locked'
      /\ SetId(p) => Locked'
      /\ Rshutdown(p) => Locked'
      /\ Kill(p) => Locked'
      /\ FlockFails(p) => Locked'
  <2>1. ASSUME Open(p) PROVE Locked'
    BY <2>1 DEF Open, TypeOK, Reading, Placed, Locked, HasFile, NewInode, Used, Blank
  <2>2. ASSUME OpenFails(p) PROVE Locked'
    BY <2>2 DEF OpenFails, TypeOK, Placed, Locked, HasFile
  <2>3. ASSUME Flock(p) PROVE Locked'
    BY <2>3 DEF Flock, TypeOK, Reading, Placed, Locked, HasFile, MayLock
  <2>4. ASSUME Read(p) PROVE Locked'
    BY <2>4 DEF Read, TypeOK, Placed, Locked, HasFile, FileLength
  <2>5. ASSUME Stat(p) PROVE Locked'
    BY <2>5 DEF Stat, TypeOK, Placed, Locked, HasFile
  <2>6. ASSUME Collect(p) PROVE Locked'
    BY <2>6 DEF Collect, TypeOK, Placed, Locked, HasFile, Unlink
  <2>7. ASSUME Started(p) PROVE Locked'
    BY <2>7 DEF Started, TypeOK, Placed, Locked, HasFile
  <2>8. ASSUME Truncate(p) PROVE Locked'
    BY <2>8 DEF Truncate, TypeOK, Placed, Locked, HasFile, TooLong, Length
  <2>9. ASSUME Pwrite(p) PROVE Locked'
    BY <2>9 DEF Pwrite, TypeOK, Placed, Locked, HasFile, Length
  <2>10. ASSUME Close(p) PROVE Locked'
    BY <2>10 DEF Close, TypeOK, Placed, Locked, HasFile, CloseFile, Forget, Unread
  <2>11. ASSUME Destroyed(p) PROVE Locked'
    BY <2>11 DEF Destroyed, TypeOK, Placed, Locked, HasFile, Unlink, Forget, Unread
  <2>12. ASSUME Regenerated(p) PROVE Locked'
    BY <2>12 DEF Regenerated, TypeOK, Placed, Locked, HasFile, Unlink, Fresh
  <2>13. ASSUME Start(p) PROVE Locked'
    BY <2>13 DEF Start, TypeOK, Placed, Locked, HasFile, Forget, Unread
  <2>14. ASSUME Flush(p) PROVE Locked'
    <3>1. CASE Reopens(p)
      <4>1. pc' = [pc EXCEPT ![p] = "open"] /\ CloseFile(p)
        BY <2>14, <3>1 DEF Flush
      <4>. QED  BY <2>14, <4>1 DEF Flush, TypeOK, Locked, HasFile, CloseFile
    <3>2. CASE ~(Reopens(p))
      BY <2>14, <3>2 DEF Flush, TypeOK, Placed, Locked, HasFile, CloseFile, Reopens
    <3>. QED  BY <3>1, <3>2
  <2>15. ASSUME FlushNothing(p) PROVE Locked'
    BY <2>15 DEF FlushNothing, TypeOK, Placed, Locked, HasFile
  <2>16. ASSUME Destroy(p) PROVE Locked'
    BY <2>16 DEF Destroy, TypeOK, Placed, Locked, HasFile, CloseFile, Forget, Unread
  <2>17. ASSUME RegenerateId(p) PROVE Locked'
    BY <2>17 DEF RegenerateId, TypeOK, Placed, Locked, HasFile, Fresh
  <2>18. ASSUME Regenerate(p) PROVE Locked'
    BY <2>18 DEF Regenerate, TypeOK, Placed, Locked, HasFile, CloseFile, Unread
  <2>19. ASSUME SetId(p) PROVE Locked'
    BY <2>19 DEF SetId, TypeOK, Placed, Locked, HasFile
  <2>20. ASSUME Rshutdown(p) PROVE Locked'
    BY <2>20 DEF Rshutdown, TypeOK, Placed, Locked, HasFile, CloseFile, Forget, Unread
  <2>21. ASSUME Kill(p) PROVE Locked'
    BY <2>21 DEF Kill, TypeOK, Placed, Locked, HasFile, Forget, Unread
  <2>22. ASSUME FlockFails(p) PROVE Locked'
    BY <2>22 DEF FlockFails, TypeOK, Placed, Locked, HasFile
  <2>23. QED  BY <2>1, <2>2, <2>3, <2>4, <2>5, <2>6, <2>7, <2>8, <2>9, <2>10, <2>11, <2>12, <2>13, <2>14, <2>15, <2>16, <2>17, <2>18, <2>19, <2>20, <2>21, <2>22
<1>2. UNCHANGED vars => Locked'
  BY DEF vars, TypeOK, Placed, Locked, HasFile
<1>3. QED  BY <1>1, <1>2 DEF Next, Step

\* open makes a file that no name and no process has.
LEMMA KeepsNames ==
  ASSUME TypeOK, Placed, Names, [Next]_vars
  PROVE  Names'
<1>1. ASSUME NEW p \in Proc PROVE
      /\ Open(p) => Names'
      /\ OpenFails(p) => Names'
      /\ Flock(p) => Names'
      /\ Read(p) => Names'
      /\ Stat(p) => Names'
      /\ Collect(p) => Names'
      /\ Started(p) => Names'
      /\ Truncate(p) => Names'
      /\ Pwrite(p) => Names'
      /\ Close(p) => Names'
      /\ Destroyed(p) => Names'
      /\ Regenerated(p) => Names'
      /\ Start(p) => Names'
      /\ Flush(p) => Names'
      /\ FlushNothing(p) => Names'
      /\ Destroy(p) => Names'
      /\ RegenerateId(p) => Names'
      /\ Regenerate(p) => Names'
      /\ SetId(p) => Names'
      /\ Rshutdown(p) => Names'
      /\ Kill(p) => Names'
      /\ FlockFails(p) => Names'
  <2>1. ASSUME Open(p) PROVE Names'
    BY <2>1 DEF Open, TypeOK, Placed, Names, NewInode, Used, Blank
  <2>2. ASSUME OpenFails(p) PROVE Names'
    BY <2>2 DEF OpenFails, TypeOK, Placed, Names
  <2>3. ASSUME Flock(p) PROVE Names'
    BY <2>3 DEF Flock, TypeOK, Placed, Names, MayLock
  <2>4. ASSUME Read(p) PROVE Names'
    BY <2>4 DEF Read, TypeOK, Placed, Names, FileLength
  <2>5. ASSUME Stat(p) PROVE Names'
    BY <2>5 DEF Stat, TypeOK, Placed, Names
  <2>6. ASSUME Collect(p) PROVE Names'
    BY <2>6 DEF Collect, TypeOK, Placed, Names, Unlink
  <2>7. ASSUME Started(p) PROVE Names'
    BY <2>7 DEF Started, TypeOK, Placed, Names
  <2>8. ASSUME Truncate(p) PROVE Names'
    BY <2>8 DEF Truncate, TypeOK, Placed, Names, TooLong, Length
  <2>9. ASSUME Pwrite(p) PROVE Names'
    BY <2>9 DEF Pwrite, TypeOK, Placed, Names, Length
  <2>10. ASSUME Close(p) PROVE Names'
    BY <2>10 DEF Close, TypeOK, Placed, Names, CloseFile, Forget, Unread
  <2>11. ASSUME Destroyed(p) PROVE Names'
    BY <2>11 DEF Destroyed, TypeOK, Placed, Names, Unlink, Forget, Unread
  <2>12. ASSUME Regenerated(p) PROVE Names'
    BY <2>12 DEF Regenerated, TypeOK, Placed, Names, Unlink, Fresh
  <2>13. ASSUME Start(p) PROVE Names'
    BY <2>13 DEF Start, TypeOK, Placed, Names, Forget, Unread
  <2>14. ASSUME Flush(p) PROVE Names'
    BY <2>14 DEF Flush, TypeOK, Placed, Names, CloseFile, Reopens
  <2>15. ASSUME FlushNothing(p) PROVE Names'
    BY <2>15 DEF FlushNothing, TypeOK, Placed, Names
  <2>16. ASSUME Destroy(p) PROVE Names'
    BY <2>16 DEF Destroy, TypeOK, Placed, Names, CloseFile, Forget, Unread
  <2>17. ASSUME RegenerateId(p) PROVE Names'
    BY <2>17 DEF RegenerateId, TypeOK, Placed, Names, Fresh
  <2>18. ASSUME Regenerate(p) PROVE Names'
    BY <2>18 DEF Regenerate, TypeOK, Placed, Names, CloseFile, Unread
  <2>19. ASSUME SetId(p) PROVE Names'
    BY <2>19 DEF SetId, TypeOK, Placed, Names
  <2>20. ASSUME Rshutdown(p) PROVE Names'
    BY <2>20 DEF Rshutdown, TypeOK, Placed, Names, CloseFile, Forget, Unread
  <2>21. ASSUME Kill(p) PROVE Names'
    BY <2>21 DEF Kill, TypeOK, Placed, Names, Forget, Unread
  <2>22. ASSUME FlockFails(p) PROVE Names'
    BY <2>22 DEF FlockFails, TypeOK, Placed, Names
  <2>23. QED  BY <2>1, <2>2, <2>3, <2>4, <2>5, <2>6, <2>7, <2>8, <2>9, <2>10, <2>11, <2>12, <2>13, <2>14, <2>15, <2>16, <2>17, <2>18, <2>19, <2>20, <2>21, <2>22
<1>2. UNCHANGED vars => Names'
  BY DEF vars, TypeOK, Placed, Names
<1>3. QED  BY <1>1, <1>2 DEF Next, Step

\* The length of a file is changed by the process that has the lock, or one that has not and
\* leaves a mark in its history.
LEMMA KeepsReadRight ==
  ASSUME TypeOK, Placed, Locked, ReadRight, [Next]_vars
  PROVE  ReadRight'
<1>1. ASSUME NEW p \in Proc PROVE
      /\ Open(p) => ReadRight'
      /\ OpenFails(p) => ReadRight'
      /\ Flock(p) => ReadRight'
      /\ Read(p) => ReadRight'
      /\ Stat(p) => ReadRight'
      /\ Collect(p) => ReadRight'
      /\ Started(p) => ReadRight'
      /\ Truncate(p) => ReadRight'
      /\ Pwrite(p) => ReadRight'
      /\ Close(p) => ReadRight'
      /\ Destroyed(p) => ReadRight'
      /\ Regenerated(p) => ReadRight'
      /\ Start(p) => ReadRight'
      /\ Flush(p) => ReadRight'
      /\ FlushNothing(p) => ReadRight'
      /\ Destroy(p) => ReadRight'
      /\ RegenerateId(p) => ReadRight'
      /\ Regenerate(p) => ReadRight'
      /\ SetId(p) => ReadRight'
      /\ Rshutdown(p) => ReadRight'
      /\ Kill(p) => ReadRight'
      /\ FlockFails(p) => ReadRight'
  <2>1. ASSUME Open(p) PROVE ReadRight'
    <3>1. \A q \in Proc \ {p} : fd[q] \in Inode => file'[fd[q]] = file[fd[q]]
      BY <2>1, OpenOpens DEF TypeOK
    <3>2. \A q \in Proc \ {p} : read[q].done =>
            /\ pc[q] \in {"gc", "collect", "script", "truncate", "pwrite", "close", "open", "destroy"}
            /\ pc[q] \in {"gc", "collect", "script", "truncate", "pwrite"} => fd[q] \in Inode
      BY DEF ReadRight, Placed
    <3>3. ASSUME NEW q \in Proc \ {p} PROVE
            /\ pc'[q] = pc[q] /\ read'[q] = read[q]
            /\ fd'[q] = fd[q] /\ new' = new /\ st_size' = st_size /\ op'[q] = op[q]
      BY <2>1, OpenOpens DEF Open, TypeOK
    <3>4. ~read'[p].done
      BY <2>1 DEF Open, TypeOK, Reading
    <3>5. \A q \in Proc : fd[q] # None => fd[q] \in Inode
      BY DEF TypeOK
    <3>. QED  BY <3>1, <3>2, <3>3, <3>4, <3>5 DEF ReadRight
  <2>2. ASSUME OpenFails(p) PROVE ReadRight'
    <3>1. read[p].done => pc'[p] = "close"
      BY <2>2 DEF OpenFails, TypeOK, ReadRight
    <3>2. \A q \in Proc \ {p} : pc'[q] = pc[q]
      BY <2>2 DEF OpenFails, TypeOK
    <3>. QED  BY <2>2, <3>1, <3>2 DEF OpenFails, ReadRight
  <2>3. ASSUME Flock(p) PROVE ReadRight'
    BY <2>3 DEF Flock, TypeOK, Placed, Locked, ReadRight, HasFile, Data, Content, Reading, MayLock
  <2>4. ASSUME Read(p) PROVE ReadRight'
    BY <2>4 DEF Read, TypeOK, Placed, Locked, ReadRight, HasFile, Data, Content, Reading, FileLength
  <2>5. ASSUME Stat(p) PROVE ReadRight'
    BY <2>5 DEF Stat, TypeOK, Placed, Locked, ReadRight, HasFile, Data, Content, Reading
  <2>6. ASSUME Collect(p) PROVE ReadRight'
    BY <2>6 DEF Collect, TypeOK, Placed, Locked, ReadRight, HasFile, Data, Content, Reading, Unlink
  <2>7. ASSUME Started(p) PROVE ReadRight'
    BY <2>7 DEF Started, TypeOK, Placed, Locked, ReadRight, HasFile, Data, Content, Reading
  <2>8. ASSUME Truncate(p) PROVE ReadRight'
    BY <2>8 DEF Truncate, TypeOK, Placed, Locked, ReadRight, HasFile, Data, Content, Reading, TooLong, Length
  <2>9. ASSUME Pwrite(p) PROVE ReadRight'
    BY <2>9 DEF Pwrite, TypeOK, Placed, Locked, ReadRight, HasFile, Data, Content, Reading, Length
  <2>10. ASSUME Close(p) PROVE ReadRight'
    BY <2>10 DEF Close, TypeOK, Placed, Locked, ReadRight, HasFile, Data, Content, Reading, CloseFile, Forget, Unread
  <2>11. ASSUME Destroyed(p) PROVE ReadRight'
    BY <2>11 DEF Destroyed, TypeOK, Placed, Locked, ReadRight, HasFile, Data, Content, Reading, Unlink, Forget, Unread
  <2>12. ASSUME Regenerated(p) PROVE ReadRight'
    BY <2>12 DEF Regenerated, TypeOK, Placed, Locked, ReadRight, HasFile, Data, Content, Reading, Unlink, Fresh
  <2>13. ASSUME Start(p) PROVE ReadRight'
    BY <2>13 DEF Start, TypeOK, Placed, Locked, ReadRight, HasFile, Data, Content, Reading, Forget, Unread
  <2>14. ASSUME Flush(p) PROVE ReadRight'
    BY <2>14 DEF Flush, TypeOK, Placed, Locked, ReadRight, HasFile, Data, Content, Reading, CloseFile, Reopens
  <2>15. ASSUME FlushNothing(p) PROVE ReadRight'
    BY <2>15 DEF FlushNothing, TypeOK, Placed, Locked, ReadRight, HasFile, Data, Content, Reading
  <2>16. ASSUME Destroy(p) PROVE ReadRight'
    BY <2>16 DEF Destroy, TypeOK, Placed, Locked, ReadRight, HasFile, Data, Content, Reading, CloseFile, Forget, Unread
  <2>17. ASSUME RegenerateId(p) PROVE ReadRight'
    BY <2>17 DEF RegenerateId, TypeOK, Placed, Locked, ReadRight, HasFile, Data, Content, Reading, Fresh
  <2>18. ASSUME Regenerate(p) PROVE ReadRight'
    BY <2>18 DEF Regenerate, TypeOK, Placed, Locked, ReadRight, HasFile, Data, Content, Reading, CloseFile, Unread
  <2>19. ASSUME SetId(p) PROVE ReadRight'
    BY <2>19 DEF SetId, TypeOK, Placed, Locked, ReadRight, HasFile, Data, Content, Reading
  <2>20. ASSUME Rshutdown(p) PROVE ReadRight'
    BY <2>20 DEF Rshutdown, TypeOK, Placed, Locked, ReadRight, HasFile, Data, Content, Reading, CloseFile, Forget, Unread
  <2>21. ASSUME Kill(p) PROVE ReadRight'
    BY <2>21 DEF Kill, TypeOK, Placed, Locked, ReadRight, HasFile, Data, Content, Reading, Forget, Unread
  <2>22. ASSUME FlockFails(p) PROVE ReadRight'
    BY <2>22 DEF FlockFails, TypeOK, Placed, Locked, ReadRight, HasFile, Data, Content, Reading
  <2>23. QED  BY <2>1, <2>2, <2>3, <2>4, <2>5, <2>6, <2>7, <2>8, <2>9, <2>10, <2>11, <2>12, <2>13, <2>14, <2>15, <2>16, <2>17, <2>18, <2>19, <2>20, <2>21, <2>22
<1>2. UNCHANGED vars => ReadRight'
  BY DEF vars, TypeOK, Placed, Locked, ReadRight, HasFile, Data, Content, Reading
<1>3. QED  BY <1>1, <1>2 DEF Next, Step

\* What a request has read stays with the file it was read from.
LEMMA KeepsOrigins ==
  ASSUME TypeOK, Placed, Origins, [Next]_vars
  PROVE  Origins'
<1>1. ASSUME NEW p \in Proc PROVE
      /\ Open(p) => Origins'
      /\ OpenFails(p) => Origins'
      /\ Flock(p) => Origins'
      /\ Read(p) => Origins'
      /\ Stat(p) => Origins'
      /\ Collect(p) => Origins'
      /\ Started(p) => Origins'
      /\ Truncate(p) => Origins'
      /\ Pwrite(p) => Origins'
      /\ Close(p) => Origins'
      /\ Destroyed(p) => Origins'
      /\ Regenerated(p) => Origins'
      /\ Start(p) => Origins'
      /\ Flush(p) => Origins'
      /\ FlushNothing(p) => Origins'
      /\ Destroy(p) => Origins'
      /\ RegenerateId(p) => Origins'
      /\ Regenerate(p) => Origins'
      /\ SetId(p) => Origins'
      /\ Rshutdown(p) => Origins'
      /\ Kill(p) => Origins'
      /\ FlockFails(p) => Origins'
  <2>1. ASSUME Open(p) PROVE Origins'
    <3>1. \A q \in Proc \ {p} : /\ pc'[q] = pc[q] /\ op'[q] = op[q] /\ id'[q] = id[q]
                               /\ fd'[q] = fd[q] /\ lastkey'[q] = lastkey[q] /\ read'[q] = read[q]
      BY <2>1, OpenOpens DEF Open, TypeOK
    <3>2. pc'[p] = "flock" /\ op' = op /\ fd'[p] # None /\ lastkey'[p] = id[p]
      <4>1. fd'[p] # None
        BY <2>1, OpenOpens
      <4>. QED  BY <2>1, <4>1 DEF Open, TypeOK
    <3>3. op[p] = "read" => read'[p].sid = id[p]
      BY <2>1 DEF Open, TypeOK
    <3>. QED  BY <3>1, <3>2, <3>3 DEF Origins
  <2>2. ASSUME OpenFails(p) PROVE Origins'
    BY <2>2 DEF OpenFails, TypeOK, Reading, Placed, Origins
  <2>3. ASSUME Flock(p) PROVE Origins'
    BY <2>3 DEF Flock, TypeOK, Reading, Placed, Origins, MayLock
  <2>4. ASSUME Read(p) PROVE Origins'
    BY <2>4 DEF Read, TypeOK, Reading, Placed, Origins, FileLength
  <2>5. ASSUME Stat(p) PROVE Origins'
    BY <2>5 DEF Stat, TypeOK, Reading, Placed, Origins
  <2>6. ASSUME Collect(p) PROVE Origins'
    BY <2>6 DEF Collect, TypeOK, Reading, Placed, Origins, Unlink
  <2>7. ASSUME Started(p) PROVE Origins'
    BY <2>7 DEF Started, TypeOK, Reading, Placed, Origins
  <2>8. ASSUME Truncate(p) PROVE Origins'
    BY <2>8 DEF Truncate, TypeOK, Reading, Placed, Origins, TooLong, Length
  <2>9. ASSUME Pwrite(p) PROVE Origins'
    BY <2>9 DEF Pwrite, TypeOK, Reading, Placed, Origins, Length
  <2>10. ASSUME Close(p) PROVE Origins'
    BY <2>10 DEF Close, TypeOK, Reading, Placed, Origins, CloseFile, Forget, Unread
  <2>11. ASSUME Destroyed(p) PROVE Origins'
    BY <2>11 DEF Destroyed, TypeOK, Reading, Placed, Origins, Unlink, Forget, Unread
  <2>12. ASSUME Regenerated(p) PROVE Origins'
    BY <2>12 DEF Regenerated, TypeOK, Reading, Placed, Origins, Unlink, Fresh
  <2>13. ASSUME Start(p) PROVE Origins'
    BY <2>13 DEF Start, TypeOK, Reading, Placed, Origins, Forget, Unread
  <2>14. ASSUME Flush(p) PROVE Origins'
    BY <2>14 DEF Flush, TypeOK, Reading, Placed, Origins, CloseFile, Reopens
  <2>15. ASSUME FlushNothing(p) PROVE Origins'
    BY <2>15 DEF FlushNothing, TypeOK, Reading, Placed, Origins
  <2>16. ASSUME Destroy(p) PROVE Origins'
    BY <2>16 DEF Destroy, TypeOK, Reading, Placed, Origins, CloseFile, Forget, Unread
  <2>17. ASSUME RegenerateId(p) PROVE Origins'
    BY <2>17 DEF RegenerateId, TypeOK, Reading, Placed, Origins, Fresh
  <2>18. ASSUME Regenerate(p) PROVE Origins'
    BY <2>18 DEF Regenerate, TypeOK, Reading, Placed, Origins, CloseFile, Unread
  <2>19. ASSUME SetId(p) PROVE Origins'
    BY <2>19 DEF SetId, TypeOK, Reading, Placed, Origins
  <2>20. ASSUME Rshutdown(p) PROVE Origins'
    BY <2>20 DEF Rshutdown, TypeOK, Reading, Placed, Origins, CloseFile, Forget, Unread
  <2>21. ASSUME Kill(p) PROVE Origins'
    BY <2>21 DEF Kill, TypeOK, Reading, Placed, Origins, Forget, Unread
  <2>22. ASSUME FlockFails(p) PROVE Origins'
    BY <2>22 DEF FlockFails, TypeOK, Reading, Placed, Origins
  <2>23. QED  BY <2>1, <2>2, <2>3, <2>4, <2>5, <2>6, <2>7, <2>8, <2>9, <2>10, <2>11, <2>12, <2>13, <2>14, <2>15, <2>16, <2>17, <2>18, <2>19, <2>20, <2>21, <2>22
<1>2. UNCHANGED vars => Origins'
  BY DEF vars, TypeOK, Reading, Placed, Origins
<1>3. QED  BY <1>1, <1>2 DEF Next, Step

\* A name that is unlinked and made again leads to another file.
LEMMA KeepsEras ==
  ASSUME TypeOK, Placed, Names, Origins, Eras, [Next]_vars
  PROVE  Eras'
<1>1. ASSUME NEW p \in Proc PROVE
      /\ Open(p) => Eras'
      /\ OpenFails(p) => Eras'
      /\ Flock(p) => Eras'
      /\ Read(p) => Eras'
      /\ Stat(p) => Eras'
      /\ Collect(p) => Eras'
      /\ Started(p) => Eras'
      /\ Truncate(p) => Eras'
      /\ Pwrite(p) => Eras'
      /\ Close(p) => Eras'
      /\ Destroyed(p) => Eras'
      /\ Regenerated(p) => Eras'
      /\ Start(p) => Eras'
      /\ Flush(p) => Eras'
      /\ FlushNothing(p) => Eras'
      /\ Destroy(p) => Eras'
      /\ RegenerateId(p) => Eras'
      /\ Regenerate(p) => Eras'
      /\ SetId(p) => Eras'
      /\ Rshutdown(p) => Eras'
      /\ Kill(p) => Eras'
      /\ FlockFails(p) => Eras'
  <2>1. ASSUME Open(p) PROVE Eras'
    <3>1. \A q \in Proc \ {p} : read'[q] = read[q] /\ fd'[q] = fd[q]
      BY <2>1, OpenOpens DEF Open, TypeOK
    <3>2. \A s \in Sid \ {id[p]} : dir'[s] = dir[s] /\ (dir[s] # None => dir[s] # fd'[p])
      BY <2>1, OpenOpens DEF TypeOK, Names
    <3>3. \A q \in Proc \ {p} : fd[q] = fd'[p] => dir[id[p]] = fd[q]
      BY <2>1, OpenOpens DEF TypeOK
    <3>4. dir'[id[p]] = fd'[p] /\ fd'[p] \in Inode /\ id[p] \in Sid
      BY <2>1, OpenOpens DEF TypeOK
    <3>5. era' = era
      BY <2>1 DEF Open
    <3>6. read'[p].sid = id[p] => read'[p].era = era[id[p]]
      BY <2>1, <3>4 DEF Open, TypeOK, Origins, Reading
    <3>. QED  BY <3>1, <3>2, <3>3, <3>4, <3>5, <3>6 DEF Eras
  <2>2. ASSUME OpenFails(p) PROVE Eras'
    BY <2>2 DEF OpenFails, TypeOK, Reading, Placed, Names, Origins, Eras
  <2>3. ASSUME Flock(p) PROVE Eras'
    BY <2>3 DEF Flock, TypeOK, Reading, Placed, Names, Origins, Eras, MayLock
  <2>4. ASSUME Read(p) PROVE Eras'
    BY <2>4 DEF Read, TypeOK, Reading, Placed, Names, Origins, Eras, FileLength
  <2>5. ASSUME Stat(p) PROVE Eras'
    BY <2>5 DEF Stat, Eras
  <2>6. ASSUME Collect(p) PROVE Eras'
    BY <2>6 DEF Collect, TypeOK, Eras, Unlink
  <2>7. ASSUME Started(p) PROVE Eras'
    BY <2>7 DEF Started, Eras
  <2>8. ASSUME Truncate(p) PROVE Eras'
    BY <2>8 DEF Truncate, Eras
  <2>9. ASSUME Pwrite(p) PROVE Eras'
    BY <2>9 DEF Pwrite, Eras
  <2>10. ASSUME Close(p) PROVE Eras'
    BY <2>10 DEF Close, TypeOK, Eras, CloseFile, Forget, Unread
  <2>11. ASSUME Destroyed(p) PROVE Eras'
    BY <2>11 DEF Destroyed, TypeOK, Eras, Unlink, Forget, Unread
  <2>12. ASSUME Regenerated(p) PROVE Eras'
    BY <2>12 DEF Regenerated, TypeOK, Eras, Unlink, Fresh
  <2>13. ASSUME Start(p) PROVE Eras'
    BY <2>13 DEF Start, TypeOK, Eras, Forget, Unread
  <2>14. ASSUME Flush(p) PROVE Eras'
    BY <2>14 DEF Flush, TypeOK, Eras, CloseFile
  <2>15. ASSUME FlushNothing(p) PROVE Eras'
    BY <2>15 DEF FlushNothing, Eras
  <2>16. ASSUME Destroy(p) PROVE Eras'
    BY <2>16 DEF Destroy, TypeOK, Eras, CloseFile, Forget, Unread
  <2>17. ASSUME RegenerateId(p) PROVE Eras'
    BY <2>17 DEF RegenerateId, Eras, Fresh
  <2>18. ASSUME Regenerate(p) PROVE Eras'
    BY <2>18 DEF Regenerate, TypeOK, Eras, CloseFile, Unread
  <2>19. ASSUME SetId(p) PROVE Eras'
    BY <2>19 DEF SetId, Eras
  <2>20. ASSUME Rshutdown(p) PROVE Eras'
    BY <2>20 DEF Rshutdown, TypeOK, Eras, CloseFile, Forget, Unread
  <2>21. ASSUME Kill(p) PROVE Eras'
    BY <2>21 DEF Kill, TypeOK, Eras, Forget, Unread
  <2>22. ASSUME FlockFails(p) PROVE Eras'
    BY <2>22 DEF FlockFails, TypeOK, Reading, Placed, Names, Origins, Eras
  <2>23. QED  BY <2>1, <2>2, <2>3, <2>4, <2>5, <2>6, <2>7, <2>8, <2>9, <2>10, <2>11, <2>12, <2>13, <2>14, <2>15, <2>16, <2>17, <2>18, <2>19, <2>20, <2>21, <2>22
<1>2. UNCHANGED vars => Eras'
  BY DEF vars, Eras
<1>3. QED  BY <1>1, <1>2 DEF Next, Step

\* What was read from a session and is written under its name was opened in its era.
LEMMA KeepsDestroyedIsGone ==
  ASSUME TypeOK, Placed, Names, Eras, DestroyedIsGone, [Next]_vars
  PROVE  DestroyedIsGone'
<1>1. ASSUME NEW p \in Proc PROVE
      /\ Open(p) => DestroyedIsGone'
      /\ OpenFails(p) => DestroyedIsGone'
      /\ Flock(p) => DestroyedIsGone'
      /\ Read(p) => DestroyedIsGone'
      /\ Stat(p) => DestroyedIsGone'
      /\ Collect(p) => DestroyedIsGone'
      /\ Started(p) => DestroyedIsGone'
      /\ Truncate(p) => DestroyedIsGone'
      /\ Pwrite(p) => DestroyedIsGone'
      /\ Close(p) => DestroyedIsGone'
      /\ Destroyed(p) => DestroyedIsGone'
      /\ Regenerated(p) => DestroyedIsGone'
      /\ Start(p) => DestroyedIsGone'
      /\ Flush(p) => DestroyedIsGone'
      /\ FlushNothing(p) => DestroyedIsGone'
      /\ Destroy(p) => DestroyedIsGone'
      /\ RegenerateId(p) => DestroyedIsGone'
      /\ Regenerate(p) => DestroyedIsGone'
      /\ SetId(p) => DestroyedIsGone'
      /\ Rshutdown(p) => DestroyedIsGone'
      /\ Kill(p) => DestroyedIsGone'
      /\ FlockFails(p) => DestroyedIsGone'
  <2>1. ASSUME Open(p) PROVE DestroyedIsGone'
    BY <2>1 DEF Open, TypeOK, Content, Placed, Names, Eras, DestroyedIsGone, NewInode, Used, Blank
  <2>2. ASSUME OpenFails(p) PROVE DestroyedIsGone'
    BY <2>2 DEF OpenFails, TypeOK, Placed, Names, Eras, DestroyedIsGone
  <2>3. ASSUME Flock(p) PROVE DestroyedIsGone'
    BY <2>3 DEF Flock, TypeOK, Placed, Names, Eras, DestroyedIsGone, MayLock
  <2>4. ASSUME Read(p) PROVE DestroyedIsGone'
    BY <2>4 DEF Read, TypeOK, Placed, Names, Eras, DestroyedIsGone, FileLength
  <2>5. ASSUME Stat(p) PROVE DestroyedIsGone'
    BY <2>5 DEF Stat, TypeOK, Placed, Names, Eras, DestroyedIsGone
  <2>6. ASSUME Collect(p) PROVE DestroyedIsGone'
    BY <2>6 DEF Collect, TypeOK, Placed, Names, Eras, DestroyedIsGone, Unlink
  <2>7. ASSUME Started(p) PROVE DestroyedIsGone'
    BY <2>7 DEF Started, TypeOK, Placed, Names, Eras, DestroyedIsGone
  <2>8. ASSUME Truncate(p) PROVE DestroyedIsGone'
    BY <2>8 DEF Truncate, TypeOK, Content, Placed, Names, Eras, DestroyedIsGone, TooLong, Length
  <2>9. ASSUME Pwrite(p) PROVE DestroyedIsGone'
    BY <2>9 DEF Pwrite, TypeOK, Content, Reading, Placed, Names, Eras, DestroyedIsGone, Length
  <2>10. ASSUME Close(p) PROVE DestroyedIsGone'
    BY <2>10 DEF Close, TypeOK, Placed, Names, Eras, DestroyedIsGone, CloseFile, Forget, Unread
  <2>11. ASSUME Destroyed(p) PROVE DestroyedIsGone'
    BY <2>11 DEF Destroyed, TypeOK, Placed, Names, Eras, DestroyedIsGone, Unlink, Forget, Unread
  <2>12. ASSUME Regenerated(p) PROVE DestroyedIsGone'
    BY <2>12 DEF Regenerated, TypeOK, Placed, Names, Eras, DestroyedIsGone, Unlink, Fresh
  <2>13. ASSUME Start(p) PROVE DestroyedIsGone'
    BY <2>13 DEF Start, TypeOK, Placed, Names, Eras, DestroyedIsGone, Forget, Unread
  <2>14. ASSUME Flush(p) PROVE DestroyedIsGone'
    BY <2>14 DEF Flush, TypeOK, Placed, Names, Eras, DestroyedIsGone, CloseFile, Reopens
  <2>15. ASSUME FlushNothing(p) PROVE DestroyedIsGone'
    BY <2>15 DEF FlushNothing, TypeOK, Placed, Names, Eras, DestroyedIsGone
  <2>16. ASSUME Destroy(p) PROVE DestroyedIsGone'
    BY <2>16 DEF Destroy, TypeOK, Placed, Names, Eras, DestroyedIsGone, CloseFile, Forget, Unread
  <2>17. ASSUME RegenerateId(p) PROVE DestroyedIsGone'
    BY <2>17 DEF RegenerateId, TypeOK, Placed, Names, Eras, DestroyedIsGone, Fresh
  <2>18. ASSUME Regenerate(p) PROVE DestroyedIsGone'
    BY <2>18 DEF Regenerate, TypeOK, Placed, Names, Eras, DestroyedIsGone, CloseFile, Unread
  <2>19. ASSUME SetId(p) PROVE DestroyedIsGone'
    BY <2>19 DEF SetId, TypeOK, Placed, Names, Eras, DestroyedIsGone
  <2>20. ASSUME Rshutdown(p) PROVE DestroyedIsGone'
    BY <2>20 DEF Rshutdown, TypeOK, Placed, Names, Eras, DestroyedIsGone, CloseFile, Forget, Unread
  <2>21. ASSUME Kill(p) PROVE DestroyedIsGone'
    BY <2>21 DEF Kill, TypeOK, Placed, Names, Eras, DestroyedIsGone, Forget, Unread
  <2>22. ASSUME FlockFails(p) PROVE DestroyedIsGone'
    BY <2>22 DEF FlockFails, TypeOK, Placed, Names, Eras, DestroyedIsGone
  <2>23. QED  BY <2>1, <2>2, <2>3, <2>4, <2>5, <2>6, <2>7, <2>8, <2>9, <2>10, <2>11, <2>12, <2>13, <2>14, <2>15, <2>16, <2>17, <2>18, <2>19, <2>20, <2>21, <2>22
<1>2. UNCHANGED vars => DestroyedIsGone'
  BY DEF vars, TypeOK, Placed, Names, Eras, DestroyedIsGone
<1>3. QED  BY <1>1, <1>2 DEF Next, Step

\* The invariant is inductive.
LEMMA InvInit == Init => Inv
  BY DEF Init, Inv, TypeOK, Placed, Locked, Names, ReadRight, Origins, Eras, DestroyedIsGone,
         HasFile, Unread, Blank, Data, Content, Reading

LEMMA InvNext == Inv /\ [Next]_vars => Inv'
  BY KeepsTypeOK, KeepsPlaced, KeepsLocked, KeepsNames, KeepsReadRight, KeepsOrigins, KeepsEras,
     KeepsDestroyedIsGone DEF Inv

LEMMA Invariant == Spec => []Inv
  BY InvInit, InvNext, PTL DEF Spec

-----------------------------------------------------------------------------
\* ps_files and the sessions over it keep every variable in its set.
THEOREM Typed == Spec => []TypeOK
<1>1. Inv => TypeOK
  BY DEF Inv
<1>. QED  BY <1>1, Invariant, PTL

\* A process that opens or waits for a file (ps_files_open) has the lock on none: the lock
\* on a file belongs to a process that is past its flock.
THEOREM NoTwoFiles == Spec => []WaitsForOne
<1>1. Inv => WaitsForOne
  BY DEF Inv, Locked, WaitsForOne, HasFile, TypeOK
<1>. QED  BY <1>1, Invariant, PTL

\* What session_destroy, session_regenerate_id(true) or the collection of old files removed
\* is not written back under its name by a request that has read it, with or without the lock
\* (ps_files_open keeps the file for the id it was opened for).
THEOREM DestroyedStaysGone == Spec => []DestroyedIsGone
<1>1. Inv => DestroyedIsGone
  BY DEF Inv
<1>. QED  BY <1>1, Invariant, PTL

\* Between PS_READ and PS_WRITE nobody else changes the file of a session that is locked, but
\* a request whose flock failed (ps_files_open asks for no result).
THEOREM ReadIsCurrent == Spec => WritesOverWhatItRead
<1>1. ASSUME Inv, Next PROVE
        \A p \in Proc :
          fd[p] # None /\ read[p].done /\ read[p].locked /\ pc'[p] = pc[p] /\ file'[fd[p]] # file[fd[p]]
            => \E q \in Proc : fd[q] = fd[p] /\ pc'[q] # pc[q] /\ ~read[q].locked
  <2>. SUFFICES ASSUME NEW p \in Proc, fd[p] # None, read[p].done, read[p].locked, pc'[p] = pc[p],
                       file'[fd[p]] # file[fd[p]]
                PROVE  \E q \in Proc : fd[q] = fd[p] /\ pc'[q] # pc[q] /\ ~read[q].locked
    OBVIOUS
  <2>1. lock[fd[p]] = p \/ pc[p] \in {"open", "destroy"}
    BY <1>1 DEF Inv, ReadRight, Locked, HasFile
  <2>2. lock[fd[p]] = p /\ fd[p] \in Inode
    BY <1>1, <2>1 DEF Inv, Placed, TypeOK
  <2>3. ASSUME NEW q \in Proc, Open(q) PROVE FALSE
    <3>1. fd'[q] # fd[p] \/ file' = file
      BY <1>1, <2>3, OpenOpens DEF Inv
    <3>. QED  BY <1>1, <2>2, <2>3, <3>1, OpenOpens DEF Inv, TypeOK
  <2>4. ASSUME NEW q \in Proc, Truncate(q) \/ Pwrite(q)
        PROVE  fd[q] = fd[p] /\ pc'[q] # pc[q] /\ ~read[q].locked
    <3>1. pc[q] \in {"truncate", "pwrite"} /\ pc'[q] # pc[q] /\ fd[q] \in Inode
      BY <1>1, <2>4 DEF Truncate, Pwrite, Inv, Placed, TypeOK
    <3>2. fd[q] = fd[p]
      <4>1. CASE Truncate(q)
        BY <1>1, <2>2, <3>1, <4>1 DEF Truncate, Inv, TypeOK
      <4>2. CASE Pwrite(q)
        BY <1>1, <2>2, <3>1, <4>2 DEF Pwrite, Inv, TypeOK
      <4>. QED  BY <2>4, <4>1, <4>2
    <3>3. read[q].locked => lock[fd[q]] = q
      BY <1>1, <3>1 DEF Inv, Locked, HasFile, SessionAssumption
    <3>. QED  BY <2>2, <3>1, <3>2, <3>3
  <2>5. (\E q \in Proc : Open(q) \/ Truncate(q) \/ Pwrite(q)) \/ file' = file
    BY <1>1 DEF Next, Step, OpenFails, Flock, Read, Stat, Collect, Started, Close,
                Destroyed, Regenerated, Start, Flush, FlushNothing, Destroy, RegenerateId,
                Regenerate, SetId, Rshutdown, Kill, FlockFails
  <2>. QED  BY <2>3, <2>4, <2>5
<1>2. Inv /\ [Next]_vars =>
        [\A p \in Proc :
          fd[p] # None /\ read[p].done /\ read[p].locked /\ pc'[p] = pc[p] /\ file'[fd[p]] # file[fd[p]]
            => \E q \in Proc : fd[q] = fd[p] /\ pc'[q] # pc[q] /\ ~read[q].locked]_vars
  BY <1>1
<1>. QED  BY <1>2, Invariant, PTL DEF Spec, WritesOverWhatItRead

\* PS_WRITE, which truncates by the length PS_READ found, leaves a file with the end of an
\* older write only when the request has not read it, or has no lock, or the last write was
\* by a request without one.
THEOREM ReadersDoNotTear == Spec => TearsOnlyUnread
<1>1. ASSUME Inv, Next, NEW i \in Inode, file[i].data # Torn, file'[i].data = Torn
      PROVE  \E p \in Proc : fd[p] = i /\ pc[p] = "pwrite" /\ (~read[p].done \/ ~read[p].locked \/ ~file[i].locked)
  <2>1. ASSUME NEW q \in Proc, Open(q) PROVE FALSE
    <3>1. file \in [Inode -> Content] /\ Blank.data # Torn
      BY <1>1 DEF Inv, TypeOK, Blank, SessionAssumption
    <3>2. file' = file \/ file' = [file EXCEPT ![fd'[q]] = Blank]
      BY <1>1, <2>1, OpenOpens DEF Inv
    <3>. QED  BY <1>1, <3>1, <3>2
  <2>2. ASSUME NEW q \in Proc, Truncate(q) PROVE FALSE
    BY <1>1, <2>2 DEF Truncate, Inv, TypeOK, Placed, Content, SessionAssumption
  <2>3. ASSUME NEW q \in Proc, Pwrite(q)
        PROVE  /\ fd[q] = i /\ pc[q] = "pwrite"
               /\ ~read[q].done \/ ~read[q].locked \/ ~file[i].locked
    <3>1. fd[q] \in Inode /\ pc[q] = "pwrite"
      BY <1>1, <2>3 DEF Pwrite, Inv, Placed
    <3>2. Length(new[q]) \in Nat /\ new[q] # Torn
      BY <1>1 DEF Inv, TypeOK, Length, SessionAssumption
    <3>3. fd[q] = i /\ Length(new[q]) < file[i].size
      BY <1>1, <2>3, <3>1, <3>2 DEF Pwrite, Inv, TypeOK, Content
    <3>4. read[q].done /\ read[q].locked /\ file[i].locked => file[i].size <= Length(new[q])
      BY <1>1, <3>1, <3>3 DEF Inv, ReadRight
    <3>. QED  BY <1>1, <3>1, <3>2, <3>3, <3>4 DEF Inv, TypeOK, Content
  <2>4. (\E q \in Proc : Open(q) \/ Truncate(q) \/ Pwrite(q)) \/ file' = file
    BY <1>1 DEF Next, Step, OpenFails, Flock, Read, Stat, Collect, Started, Close,
                Destroyed, Regenerated, Start, Flush, FlushNothing, Destroy, RegenerateId,
                Regenerate, SetId, Rshutdown, Kill, FlockFails
  <2>. QED  BY <1>1, <2>1, <2>2, <2>3, <2>4
<1>2. Inv /\ [Next]_vars =>
        [\A i \in Inode : file[i].data # Torn /\ file'[i].data = Torn
           => \E p \in Proc : fd[p] = i /\ pc[p] = "pwrite" /\ (~read[p].done \/ ~read[p].locked \/ ~file[i].locked)]_vars
  BY <1>1
<1>. QED  BY <1>2, Invariant, PTL DEF Spec, TearsOnlyUnread
=============================================================================
