--------------------------- MODULE BanFileProofs ---------------------------
(***************************************************************************)
(* What shield-ban's lock, temporary file and move guarantee, for any      *)
(* number of addresses, runs and sessions and any bound on the clock.      *)
(*                                                                         *)
(* The type invariant carries the fact the rest hangs on: a run that is    *)
(* past flock holds the lock.  So at most one run is between its read of   *)
(* the list and its move, nothing else replaces the file in between, and   *)
(* what the run has in its temporary file stays a pruned copy of the list  *)
(* in place (TmpFromCurrent).  The move is then one step of the registry.  *)
(***************************************************************************)
EXTENDS BanFile, TLAPS

(* The empty list, a pruned list and a list with one line replaced are     *)
(* lists.                                                                  *)
LEMMA ListFacts ==
    /\ Empty \in Lists
    /\ \A l \in Lists, t \in Int : active_entries(l, t) \in Lists
    /\ \A l \in Lists, ip \in Ips, u \in Int : [l EXCEPT ![ip] = u] \in Lists
BY DEF Empty, Lists, active_entries, NoBan

(* With a list on the log, the file in place is a list. *)
LEMMA FileIsList ==
    ASSUME log \in Seq(Lists), Len(log) > 0
    PROVE  Last(log) \in Lists /\ file \in Lists
BY ListFacts DEF Last, file
-----------------------------------------------------------------------------
(* FileTypeOK holds at the start. *)
LEMMA FileTypeInit == FileInit => FileTypeOK
<1> SUFFICES ASSUME FileInit PROVE FileTypeOK
  OBVIOUS
<1>1. log \in Seq(Lists) /\ Len(log) > 0
  BY ListFacts DEF FileInit
<1>2. tmp \in [Procs -> Lists] /\ map \in [Sessions -> Lists]
  BY ListFacts DEF FileInit
<1>3. answer \in [Sessions -> BOOLEAN] /\ exists \in BOOLEAN
  BY Zenon DEF FileInit
<1>4. until \in [Procs -> Int]
  BY DEF FileInit, NoBan
<1> QED
  BY <1>1, <1>2, <1>3, <1>4 DEF FileInit, FileTypeOK

(* Every step keeps FileTypeOK: above all, flock lets one run in. *)
LEMMA FileTypeStep == FileTypeOK /\ [FileNext]_allVars => FileTypeOK'
<1> SUFFICES ASSUME FileTypeOK, [FileNext]_allVars PROVE FileTypeOK'
  OBVIOUS
<1> USE BanFileAssumption
<1>0. file \in Lists /\ Last(log) \in Lists
  BY FileIsList DEF FileTypeOK
<1>00. Empty \in Lists
  BY ListFacts
<1>1. ASSUME NEW p \in Procs, StartBan(p) PROVE FileTypeOK'
  <2>1. PICK ip \in Ips, ttl \in Ttls :
          /\ addr' = [addr EXCEPT ![p] = ip]
          /\ until' = [until EXCEPT ![p] = IF ttl = 0 THEN Permanent ELSE now + ttl]
    BY <1>1 DEF StartBan
  <2>2. (IF ttl = 0 THEN Permanent ELSE now + ttl) \in Int
    BY DEF FileTypeOK, Permanent
  <2> QED
    BY <1>1, <2>1, <2>2 DEF StartBan, FileTypeOK, fileVars, sessVars
<1>2. ASSUME NEW p \in Procs, StartUnban(p) PROVE FileTypeOK'
  BY <1>2 DEF StartUnban, FileTypeOK, fileVars, sessVars, NoBan
<1>3. ASSUME NEW p \in Procs, Flock(p) PROVE FileTypeOK'
  BY <1>3 DEF Flock, FileTypeOK, fileVars, sessVars
<1>4. ASSUME NEW p \in Procs, WriteTmp(p) PROVE FileTypeOK'
  <2>1. [active_entries(file, now) EXCEPT ![addr[p]] = until[p]] \in Lists
    <3>1. now \in Int /\ addr[p] \in Ips /\ until[p] \in Int
      BY DEF FileTypeOK
    <3>2. active_entries(file, now) \in Lists
      BY <1>0, <3>1, ListFacts
    <3> QED
      BY <3>1, <3>2, ListFacts
  <2> QED
    BY <1>4, <2>1 DEF WriteTmp, FileTypeOK, fileVars, sessVars
<1>5. ASSUME NEW p \in Procs, WriteTmpTruncated(p) PROVE FileTypeOK'
  <2>1. PICK part \in SUBSET Ips :
          tmp' = [tmp EXCEPT ![p] =
                    [j \in Ips |-> IF j \in part \ {addr[p]}
                                   THEN active_entries(file, now)[j] ELSE NoBan]]
    BY <1>5 DEF WriteTmpTruncated
  <2>2. active_entries(file, now) \in Lists
    BY <1>0, ListFacts DEF FileTypeOK
  <2>3. [j \in Ips |-> IF j \in part \ {addr[p]}
                       THEN active_entries(file, now)[j] ELSE NoBan] \in Lists
    BY <2>2 DEF Lists, NoBan
  <2> QED
    BY <1>5, <2>1, <2>3 DEF WriteTmpTruncated, FileTypeOK, fileVars, sessVars
<1>6. ASSUME NEW p \in Procs, Move(p) PROVE FileTypeOK'
  <2>1. log' \in Seq(Lists) /\ Len(log') > 0
    BY <1>6 DEF Move, Exit, FileTypeOK
  <2> QED
    BY <1>00, <1>6, <2>1 DEF Move, Exit, FileTypeOK, sessVars, NoBan
<1>7. ASSUME NEW p \in Procs, Crash(p) PROVE FileTypeOK'
  BY <1>00, <1>7 DEF Crash, Exit, FileTypeOK, fileVars, sessVars, NoBan
<1>8. CASE LoseVolume
  <2>1. log' \in Seq(Lists) /\ Len(log') > 0
    BY <1>8, ListFacts DEF LoseVolume, FileTypeOK
  <2> QED
    BY <1>8, <2>1 DEF LoseVolume, FileTypeOK, procVars, sessVars
<1>9. ASSUME NEW s \in Sessions, Stat(s) PROVE FileTypeOK'
  <2>1. Len(log) \in Nat
    BY DEF FileTypeOK
  <2>2. CASE exists
    BY <1>9, <2>1, <2>2 DEF Stat, FileTypeOK, fileVars, procVars
  <2>3. CASE ~exists
    <3>1. /\ stamp' = [stamp EXCEPT ![s] = 0]
          /\ map' = [map EXCEPT ![s] = Empty]
          /\ sess' = [sess EXCEPT ![s] = "decide"]
          /\ UNCHANGED seen
      BY <1>9, <2>3 DEF Stat
    <3>2. map' \in [Sessions -> Lists]
      BY <1>00, <3>1 DEF FileTypeOK
    <3> QED
      BY <1>9, <2>1, <3>1, <3>2 DEF Stat, FileTypeOK, fileVars, procVars
  <2> QED
    BY <2>2, <2>3
<1>10. ASSUME NEW s \in Sessions, Load(s) PROVE FileTypeOK'
  <2>1. CASE stamp[s] = seen[s]
    BY <1>10, <2>1 DEF Load, FileTypeOK, fileVars, procVars
  <2>2. CASE stamp[s] # seen[s]
    <3>1. /\ map' = [map EXCEPT ![s] = Last(log)]
          /\ stamp' = [stamp EXCEPT ![s] = seen[s]]
      BY <1>10, <2>2 DEF Load
    <3>2. map' \in [Sessions -> Lists] /\ stamp' \in [Sessions -> Nat]
      BY <1>0, <3>1 DEF FileTypeOK
    <3> QED
      BY <1>10, <3>2 DEF Load, FileTypeOK, fileVars, procVars
  <2> QED
    BY <2>1, <2>2
<1>11. ASSUME NEW s \in Sessions, LoadFails(s) PROVE FileTypeOK'
  BY <1>11 DEF LoadFails, FileTypeOK, fileVars, procVars
<1>12. ASSUME NEW s \in Sessions, Decide(s) PROVE FileTypeOK'
  <2>1. isBanned(map[s], client[s], now) \in BOOLEAN
    BY DEF isBanned, Active
  <2> QED
    BY <1>12, <2>1 DEF Decide, FileTypeOK, fileVars, procVars
<1>13. ASSUME NEW s \in Sessions, Close(s) PROVE FileTypeOK'
  BY <1>00, <1>13 DEF Close, FileTypeOK, fileVars, procVars
<1>14. CASE FileTick
  BY <1>14 DEF FileTick, FileTypeOK, fileVars, procVars, sessVars
<1>15. CASE UNCHANGED allVars
  BY <1>15 DEF FileTypeOK, allVars, fileVars, procVars, sessVars
<1> QED
  BY <1>1, <1>2, <1>3, <1>4, <1>5, <1>6, <1>7, <1>8, <1>9, <1>10, <1>11,
     <1>12, <1>13, <1>14, <1>15 DEF FileNext, Write

(* Every list that shield-ban ever puts in place is a list, and a run that *)
(* reads or replaces it holds the lock (core/actions/shield-ban:74-77).    *)
THEOREM FileTypeCorrect == FileSpec => []FileTypeOK
BY FileTypeInit, FileTypeStep, PTL DEF FileSpec
-----------------------------------------------------------------------------
(* A temporary file that is a pruned copy of the list stays one while the  *)
(* list stays in place: entries only expire.                               *)
LEMMA PrunedLater ==
    ASSUME NEW old \in Lists, NEW new \in Lists, NEW ip \in Ips,
           NEW t \in Nat, Pruned(old, new, ip, t)
    PROVE  Pruned(old, new, ip, t + 1)
<1>1. \A u \in Int : ~Active(u, t) => ~Active(u, t + 1)
  BY DEF Active
<1>2. \A j \in Ips : old[j] \in Int
  BY DEF Lists
<1> QED
  BY <1>1, <1>2, Zenon DEF Pruned

(* What WriteTmp writes is a pruned copy of the list. *)
LEMMA FilterPrunes ==
    ASSUME NEW old \in Lists, NEW ip \in Ips, NEW u \in Int, NEW t \in Nat
    PROVE  LET new == [active_entries(old, t) EXCEPT ![ip] = u]
           IN  new[ip] = u /\ Pruned(old, new, ip, t)
<1> DEFINE new == [active_entries(old, t) EXCEPT ![ip] = u]
<1>1. new[ip] = u /\ \A j \in Ips \ {ip} : new[j] = active_entries(old, t)[j]
  BY DEF active_entries
<1>2. \A j \in Ips : active_entries(old, t)[j] =
                       IF Active(old[j], t) THEN old[j] ELSE NoBan
  BY DEF active_entries
<1>3. Pruned(old, new, ip, t)
  <2> HIDE DEF new
  <2> QED BY <1>1, <1>2 DEF Pruned
<1> QED
  BY <1>1, <1>3

(* Every step keeps TmpFromCurrent: the lock keeps other runs from         *)
(* replacing the list in between.                                          *)
LEMMA TmpStep ==
    ASSUME FileTypeOK, TmpFromCurrent, [FileNext]_allVars
    PROVE  TmpFromCurrent'
<1> USE BanFileAssumption
<1>0. file \in Lists
  BY FileIsList DEF FileTypeOK
<1>1. ASSUME NEW p \in Procs, StartBan(p) \/ StartUnban(p) \/ Flock(p) \/ Crash(p)
      PROVE  TmpFromCurrent'
  <2>1. UNCHANGED <<file, now>>
    BY <1>1 DEF StartBan, StartUnban, Flock, Crash, Exit, fileVars, file
  <2>2. ASSUME NEW q \in Procs, pc'[q] \in {"mv", "torn"}
        PROVE  /\ pc[q] = pc'[q] /\ tmp'[q] = tmp[q]
               /\ addr'[q] = addr[q] /\ until'[q] = until[q]
    BY <1>1, <2>2 DEF StartBan, StartUnban, Flock, Crash, Exit, FileTypeOK
  <2> QED
    BY <2>1, <2>2 DEF TmpFromCurrent
<1>2. ASSUME NEW p \in Procs, WriteTmp(p) PROVE TmpFromCurrent'
  <2>1. UNCHANGED <<file, now, addr, until>>
    BY <1>2 DEF WriteTmp, fileVars, file
  <2>2. pc'[p] = "mv" /\ \A q \in Procs : pc'[q] \in {"mv", "torn"} => q = p
    BY <1>2 DEF WriteTmp, FileTypeOK
  <2>3. tmp'[p] = [active_entries(file, now) EXCEPT ![addr[p]] = until[p]]
    BY <1>2 DEF WriteTmp, FileTypeOK
  <2>4. addr[p] \in Ips /\ until[p] \in Int /\ now \in Nat
    BY DEF FileTypeOK
  <2>5. tmp'[p][addr[p]] = until[p] /\ Pruned(file, tmp'[p], addr[p], now)
    BY <1>0, <2>3, <2>4, FilterPrunes
  <2> QED
    BY <2>1, <2>2, <2>5 DEF TmpFromCurrent
<1>3. ASSUME NEW p \in Procs, WriteTmpTruncated(p) PROVE TmpFromCurrent'
  <2>1. UNCHANGED <<file, now, addr, until>>
    BY <1>3 DEF WriteTmpTruncated, fileVars, file
  <2>2. pc'[p] = "torn" /\ \A q \in Procs : pc'[q] \in {"mv", "torn"} => q = p
    BY <1>3 DEF WriteTmpTruncated, FileTypeOK
  <2>3. PICK part \in SUBSET Ips :
          tmp' = [tmp EXCEPT ![p] =
                    [j \in Ips |-> IF j \in part \ {addr[p]}
                                   THEN active_entries(file, now)[j] ELSE NoBan]]
    BY <1>3 DEF WriteTmpTruncated
  <2>4. tmp'[p] = [j \in Ips |-> IF j \in part \ {addr[p]}
                                 THEN active_entries(file, now)[j] ELSE NoBan]
    BY <2>3 DEF FileTypeOK
  <2>5. \A j \in Ips : active_entries(file, now)[j] \in {file[j], NoBan}
    BY DEF active_entries
  <2>6. addr[p] \in Ips
    BY DEF FileTypeOK
  <2>7. tmp'[p][addr[p]] = NoBan /\ \A j \in Ips : tmp'[p][j] \in {file[j], NoBan}
    BY <2>4, <2>5, <2>6
  <2> QED
    BY <2>1, <2>2, <2>7 DEF TmpFromCurrent
<1>4. ASSUME NEW p \in Procs, Move(p) PROVE TmpFromCurrent'
  <2>1. ASSUME NEW q \in Procs PROVE pc'[q] \notin {"mv", "torn"}
    BY <1>4 DEF Move, Exit, FileTypeOK
  <2> QED
    BY <2>1 DEF TmpFromCurrent
<1>5. CASE LoseVolume
  <2>1. ASSUME NEW q \in Procs PROVE pc'[q] \notin {"mv", "torn"}
    BY <1>5 DEF LoseVolume, procVars, FileTypeOK
  <2> QED
    BY <2>1 DEF TmpFromCurrent
<1>6. ASSUME NEW s \in Sessions,
             Stat(s) \/ Load(s) \/ LoadFails(s) \/ Decide(s) \/ Close(s)
      PROVE  TmpFromCurrent'
  BY <1>6 DEF Stat, Load, LoadFails, Decide, Close, fileVars, procVars, file,
     TmpFromCurrent
<1>7. CASE FileTick
  <2>1. now' = now + 1 /\ now \in Nat /\ UNCHANGED <<file, tmp, addr, until, pc>>
    BY <1>7 DEF FileTick, fileVars, procVars, file, FileTypeOK
  <2>2. ASSUME NEW q \in Procs, pc[q] = "mv"
        PROVE  Pruned(file, tmp[q], addr[q], now + 1)
    <3>1. tmp[q] \in Lists /\ addr[q] \in Ips
      BY DEF FileTypeOK
    <3> QED
      BY <1>0, <2>1, <2>2, <3>1, PrunedLater DEF TmpFromCurrent
  <2> QED
    BY <2>1, <2>2 DEF TmpFromCurrent
<1>8. CASE UNCHANGED allVars
  BY <1>8 DEF allVars, fileVars, procVars, file, TmpFromCurrent
<1> QED
  BY <1>1, <1>2, <1>3, <1>4, <1>5, <1>6, <1>7, <1>8 DEF FileNext, Write

(* No update is lost: what a run of shield-ban moves into place was made   *)
(* from the list it replaces, however many runs there are and wherever     *)
(* they are killed (shield-ban:74-77).                                     *)
THEOREM NoLostUpdate == FileSpec => []TmpFromCurrent
<1>1. FileInit => TmpFromCurrent
  BY DEF FileInit, TmpFromCurrent
<1>2. FileTypeOK /\ TmpFromCurrent /\ [FileNext]_allVars => TmpFromCurrent'
  BY TmpStep
<1> QED
  BY <1>1, <1>2, FileTypeCorrect, PTL DEF FileSpec
-----------------------------------------------------------------------------
(* A run that is not idle has something to do, and a torn file is the work *)
(* of a filter that may fail.                                              *)
Busy ==
    \A p \in Procs : /\ pc[p] # "idle" => cmd[p] \in {"ban", "unban"}
                     /\ pc[p] = "torn" => ReadFaults

(* Only the start of a run changes what it is to do. *)
LEMMA BusyStep ==
    ASSUME FileTypeOK, Busy, [FileNext]_allVars PROVE Busy'
<1>1. ASSUME NEW p \in Procs, StartBan(p) \/ StartUnban(p) PROVE Busy'
  BY <1>1 DEF StartBan, StartUnban, FileTypeOK, Busy
<1>2. ASSUME NEW p \in Procs, Write(p) \/ Crash(p) PROVE Busy'
  BY <1>2 DEF Write, Flock, WriteTmp, WriteTmpTruncated, Move, Crash, Exit,
     FileTypeOK, Busy
<1>3. CASE UNCHANGED <<pc, cmd>>
  BY <1>3 DEF Busy
<1>4. CASE LoseVolume \/ FileTick \/ UNCHANGED allVars
  BY <1>3, <1>4 DEF LoseVolume, FileTick, allVars, procVars
<1>5. ASSUME NEW s \in Sessions,
             Stat(s) \/ Load(s) \/ LoadFails(s) \/ Decide(s) \/ Close(s)
      PROVE  Busy'
  BY <1>3, <1>5 DEF Stat, Load, LoadFails, Decide, Close, procVars
<1> QED
  BY <1>1, <1>2, <1>4, <1>5 DEF FileNext

(* How the registry's view of the requests follows the runs: a step that   *)
(* touches run p alone changes the request of p alone.                     *)
Todo == [p \in Procs |-> Asked(p)]

(* A step of one run changes what the registry has to do for that run      *)
(* only.                                                                   *)
LEMMA TodoOne ==
    ASSUME NEW p \in Procs,
           \A q \in Procs \ {p} : /\ pc'[q] = pc[q] /\ cmd'[q] = cmd[q]
                                  /\ addr'[q] = addr[q] /\ until'[q] = until[q]
    PROVE  Todo' = [Todo EXCEPT ![p] = Asked(p)']
<1>1. \A q \in Procs \ {p} : Asked(q)' = Asked(q)
  BY DEF Asked
<1> QED
  BY <1>1 DEF Todo

(* Every step of the file backend is a step of the registry, or none. *)
LEMMA RegistryStep ==
    ASSUME FileTypeOK, TmpFromCurrent, Busy, [FileNext]_allVars
    PROVE  [Registry!Next]_(Registry!vars)
<1> USE BanFileAssumption
<1> DEFINE Stutters == UNCHANGED <<file, Todo, now>>
<1>0. Stutters => UNCHANGED Registry!vars
  BY DEF Registry!vars, Todo
<1>00. ASSUME UNCHANGED <<file, pc, cmd, addr, until, now>> PROVE Stutters
  BY <1>00 DEF Todo, Asked
<1>1. ASSUME NEW p \in Procs, StartBan(p) PROVE Registry!Next
  <2>1. PICK ip \in Ips, ttl \in Ttls :
          /\ addr' = [addr EXCEPT ![p] = ip]
          /\ until' = [until EXCEPT ![p] = IF ttl = 0 THEN Permanent ELSE now + ttl]
    BY <1>1 DEF StartBan
  <2>2. Todo[p] = Registry!Nothing
    BY <1>1 DEF StartBan, Todo, Asked, Registry!Nothing
  <2>3. Asked(p)' = [op |-> "ban", ip |-> ip,
                     until |-> IF ttl = 0 THEN Permanent ELSE now + ttl]
    BY <1>1, <2>1 DEF StartBan, Asked, FileTypeOK
  <2>4. Todo' = [Todo EXCEPT ![p] = Asked(p)']
    BY <1>1, <2>1, TodoOne DEF StartBan, FileTypeOK
  <2>5. UNCHANGED <<file, now>>
    BY <1>1 DEF StartBan, fileVars, file
  <2>6. Registry!AskBan(p, ip, ttl)
    BY <2>2, <2>3, <2>4, <2>5 DEF Registry!AskBan, Todo, Registry!Permanent, Permanent
  <2> QED
    BY <2>6 DEF Registry!Next
<1>2. ASSUME NEW p \in Procs, StartUnban(p) PROVE Registry!Next
  <2>1. PICK ip \in Ips : addr' = [addr EXCEPT ![p] = ip]
    BY <1>2 DEF StartUnban
  <2>2. Todo[p] = Registry!Nothing
    BY <1>2 DEF StartUnban, Todo, Asked, Registry!Nothing
  <2>3. Asked(p)' = [op |-> "unban", ip |-> ip, until |-> NoBan]
    BY <1>2, <2>1 DEF StartUnban, Asked, FileTypeOK
  <2>4. Todo' = [Todo EXCEPT ![p] = Asked(p)']
    BY <1>2, <2>1, TodoOne DEF StartUnban, FileTypeOK
  <2>5. UNCHANGED <<file, now>>
    BY <1>2 DEF StartUnban, fileVars, file
  <2>6. Registry!AskUnban(p, ip)
    BY <2>2, <2>3, <2>4, <2>5 DEF Registry!AskUnban, Todo, Registry!NoBan, NoBan
  <2> QED
    BY <2>6 DEF Registry!Next
<1>3. ASSUME NEW p \in Procs, Flock(p) \/ WriteTmp(p) \/ WriteTmpTruncated(p)
      PROVE  Stutters
  <2>1. UNCHANGED <<file, cmd, addr, until, now>>
    BY <1>3 DEF Flock, WriteTmp, WriteTmpTruncated, fileVars, file
  <2>2. \A q \in Procs : (pc'[q] = "idle") <=> (pc[q] = "idle")
    BY <1>3 DEF Flock, WriteTmp, WriteTmpTruncated, FileTypeOK
  <2> QED
    BY <2>1, <2>2 DEF Todo, Asked
<1>5. ASSUME NEW p \in Procs, pc[p] # "idle"
      PROVE  Todo[p] = [op |-> cmd[p], ip |-> addr[p], until |-> until[p]]
             /\ Todo[p] # Registry!Nothing
  <2>1. Todo[p] = [op |-> cmd[p], ip |-> addr[p], until |-> until[p]]
    BY <1>5 DEF Todo, Asked
  <2>2. Todo[p].op # "none"
    BY <1>5, <2>1 DEF Busy
  <2> QED
    BY <2>1, <2>2 DEF Registry!Nothing
<1>6. ASSUME NEW p \in Procs, Move(p) PROVE Registry!Next
  <2>1. Todo[p] = [op |-> cmd[p], ip |-> addr[p], until |-> until[p]]
        /\ Todo[p] # Registry!Nothing
    BY <1>5, <1>6 DEF Move
  <2>2. Todo' = [Todo EXCEPT ![p] = Registry!Nothing]
    <3>1. Asked(p)' = Registry!Nothing
      BY <1>6 DEF Move, Exit, Asked, FileTypeOK, Registry!Nothing
    <3> QED
      BY <1>6, <3>1, TodoOne DEF Move, Exit, FileTypeOK
  <2>3. file' = tmp[p]
    BY <1>6 DEF Move, Exit, file, Last, FileTypeOK
  <2>4. tmp[p] \in Lists
    BY DEF FileTypeOK
  <2>5. CASE pc[p] = "mv"
    <3>1. tmp[p][addr[p]] = until[p] /\ Pruned(file, tmp[p], addr[p], now)
      BY <2>5 DEF TmpFromCurrent
    <3>2. Registry!Apply(p)
      BY <1>6, <2>1, <2>2, <2>3, <2>4, <3>1
         DEF Registry!Apply, Todo, Move, Exit, Registry!Lists, Lists, Registry!Pruned,
             Pruned, Registry!Active, Active, Registry!NoBan, NoBan,
             Registry!Permanent, Permanent
    <3> QED
      BY <3>2 DEF Registry!Next
  <2>6. CASE pc[p] = "torn"
    <3>1. tmp[p][addr[p]] = NoBan /\ \A j \in Ips : tmp[p][j] \in {file[j], NoBan}
      BY <2>6 DEF TmpFromCurrent
    <3>2. Registry!Tear(p)
      BY <1>6, <2>1, <2>2, <2>3, <2>4, <2>6, <3>1
         DEF Registry!Tear, Todo, Move, Exit, Busy, Registry!Lists, Lists, Registry!NoBan, NoBan
    <3> QED
      BY <3>2 DEF Registry!Next
  <2> QED
    BY <1>6, <2>5, <2>6 DEF Move
<1>7. ASSUME NEW p \in Procs, Crash(p) PROVE Registry!Next
  <2>1. Todo[p] # Registry!Nothing
    BY <1>5, <1>7 DEF Crash
  <2>2. Todo' = [Todo EXCEPT ![p] = Registry!Nothing]
    <3>1. Asked(p)' = Registry!Nothing
      BY <1>7 DEF Crash, Exit, Asked, FileTypeOK, Registry!Nothing
    <3> QED
      BY <1>7, <3>1, TodoOne DEF Crash, Exit, FileTypeOK
  <2>3. UNCHANGED <<file, now>>
    BY <1>7 DEF Crash, Exit, fileVars, file
  <2>4. Registry!Fail(p)
    BY <2>1, <2>2, <2>3 DEF Registry!Fail, Todo
  <2> QED
    BY <2>4 DEF Registry!Next
<1>8. CASE LoseVolume
  <2>1. VolumeLoss /\ file' = Empty /\ UNCHANGED <<Todo, now>>
    BY <1>8 DEF LoseVolume, file, procVars, Todo, Asked
  <2>2. Registry!Lose
    BY <2>1 DEF Registry!Lose, Todo, Registry!Empty, Empty, Registry!NoBan, NoBan
  <2> QED
    BY <2>2 DEF Registry!Next
<1>9. ASSUME NEW s \in Sessions,
             Stat(s) \/ Load(s) \/ LoadFails(s) \/ Decide(s) \/ Close(s)
      PROVE  Stutters
  <2>1. UNCHANGED <<fileVars, procVars, now>>
    BY <1>9 DEF Stat, Load, LoadFails, Decide, Close
  <2> QED
    BY <1>00, <2>1 DEF fileVars, procVars, file
<1>10. CASE FileTick
  <2>1. UNCHANGED <<file, Todo>>
    BY <1>10 DEF FileTick, fileVars, procVars, file, Todo, Asked
  <2>2. Registry!Tick
    BY <1>10, <2>1 DEF FileTick, Registry!Tick, Todo
  <2> QED
    BY <2>2 DEF Registry!Next
<1>11. CASE UNCHANGED allVars
  BY <1>0, <1>00, <1>11 DEF allVars, fileVars, procVars, file
<1> QED
  BY <1>0, <1>1, <1>2, <1>3, <1>6, <1>7, <1>8, <1>9, <1>10, <1>11
     DEF FileNext, Write

(* The file backend keeps the registry's promise for any number of runs:   *)
(* each ban or unban takes effect once, at the move of its run, or not at  *)
(* all, and drops no other entry in force.                                 *)
THEOREM FileKeepsRegistry == FileSpec => KeepsRegistry
<1>1. FileInit => Busy /\ TmpFromCurrent
  BY DEF FileInit, Busy, TmpFromCurrent
<1>2. FileInit => Registry!Init
  <2> SUFFICES ASSUME FileInit PROVE Registry!Init
    OBVIOUS
  <2>1. file = Empty /\ now = 1
    BY DEF FileInit, file
  <2>2. \A p \in Procs : Asked(p) = Registry!Nothing
    BY DEF FileInit, Asked, Registry!Nothing
  <2> QED
    BY <2>1, <2>2 DEF Registry!Init, Registry!Empty, Empty, Registry!NoBan, NoBan
<1>3. FileTypeOK /\ Busy /\ [FileNext]_allVars => Busy'
  BY BusyStep
<1>4. FileTypeOK /\ TmpFromCurrent /\ Busy /\ [FileNext]_allVars
         => [Registry!Next]_(Registry!vars)
  BY RegistryStep
<1> QED
  BY <1>1, <1>2, <1>3, <1>4, FileTypeCorrect, NoLostUpdate, PTL
     DEF FileSpec, KeepsRegistry, Registry!Spec

-----------------------------------------------------------------------------
(* The sessions' copies.  A copy is a list that was in place no earlier    *)
(* than the stamp it is filed under; with no stamp it is the empty list,   *)
(* which was the first in place.                                           *)
From(s, n) == \E v \in n .. Len(log) : map[s] = log[v]

Cached(s) ==
    /\ stamp[s] = 0 => map[s] = Empty
    /\ stamp[s] # 0 => From(s, stamp[s])
    /\ sess[s] = "stat" => seen[s] = since[s] /\ since[s] \in 1 .. Len(log)
    /\ sess[s] = "decide" => since[s] >= 1 /\ From(s, since[s])

(* While there is no file, the list last in place is the empty one. *)
LogOK == log[1] = Empty /\ (~exists => log[Len(log)] = Empty)

CacheInv == FileTypeOK /\ LogOK /\ \A s \in Sessions : Cached(s)

(* A list once in place stays on record. *)
LEMMA LogGrows ==
    ASSUME FileTypeOK, NEW l \in Lists, log' \in {log, Append(log, l)}
    PROVE  /\ Len(log) \in Nat \ {0} /\ Len(log') \in Nat /\ Len(log) <= Len(log')
           /\ \A v \in 1 .. Len(log) : log'[v] = log[v]
           /\ log' = Append(log, l) => log'[Len(log')] = l
<1>1. log \in Seq(Lists) /\ Len(log) > 0
  BY DEF FileTypeOK
<1> QED
  BY <1>1

(* So a copy is not made older by a change of the file. *)
LEMMA CachedGrows ==
    ASSUME FileTypeOK, NEW l \in Lists, log' \in {log, Append(log, l)}, NEW s \in Sessions,
           Cached(s), UNCHANGED <<sess, stamp, map, seen, since>>
    PROVE  Cached(s)'
<1>1. /\ Len(log) \in Nat \ {0} /\ Len(log') \in Nat /\ Len(log) <= Len(log')
      /\ \A v \in 1 .. Len(log) : log'[v] = log[v]
  BY LogGrows
<1>2. stamp[s] \in Nat /\ since[s] \in Nat
  BY DEF FileTypeOK
<1>3. ASSUME NEW n \in Nat \ {0}, From(s, n) PROVE \E v \in n .. Len(log') : map'[s] = log'[v]
  <2>1. PICK v \in n .. Len(log) : map[s] = log[v]
    BY <1>3 DEF From
  <2>2. v \in 1 .. Len(log) /\ v \in n .. Len(log')
    BY <1>1, <2>1
  <2>3. map'[s] = log'[v]
    BY <1>1, <2>1, <2>2
  <2> QED
    BY <2>2, <2>3
<1>4. stamp[s] # 0 /\ From(s, stamp[s])
        => \E v \in stamp'[s] .. Len(log') : map'[s] = log'[v]
  BY <1>2, <1>3
<1>5. since[s] >= 1 /\ From(s, since[s])
        => \E v \in since'[s] .. Len(log') : map'[s] = log'[v]
  BY <1>2, <1>3
<1>6. since[s] \in 1 .. Len(log) => since[s] \in 1 .. Len(log')
  BY <1>1, <1>2
<1>7. (stamp[s] = 0 => map[s] = Empty)'
  BY DEF Cached
<1>8. (stamp[s] # 0 => From(s, stamp[s]))'
  BY <1>4 DEF Cached, From
<1>9. (sess[s] = "stat" => seen[s] = since[s] /\ since[s] \in 1 .. Len(log))'
  BY <1>6 DEF Cached
<1>10. (sess[s] = "decide" => since[s] >= 1 /\ From(s, since[s]))'
  BY <1>5 DEF Cached, From
<1> QED
  BY <1>7, <1>8, <1>9, <1>10 DEF Cached

(* Every step of a run, a session or the volume keeps the copies so. *)
LEMMA CacheStep == CacheInv /\ [FileNext]_allVars => CacheInv'
<1> SUFFICES ASSUME CacheInv, [FileNext]_allVars PROVE CacheInv'
  OBVIOUS
<1>0. FileTypeOK /\ FileTypeOK' /\ LogOK /\ \A s \in Sessions : Cached(s)
  BY FileTypeStep DEF CacheInv
<1>00. /\ log \in Seq(Lists) /\ Len(log) \in Nat \ {0} /\ sess \in
          [Sessions -> {"closed", "stat", "decide", "live", "denied"}]
       /\ stamp \in [Sessions -> Nat] /\ map \in [Sessions -> Lists]
       /\ seen \in [Sessions -> Nat] /\ since \in [Sessions -> Nat] /\ exists \in BOOLEAN
  BY <1>0 DEF FileTypeOK
<1>1. ASSUME NEW l \in Lists, log' \in {log, Append(log, l)}, LogOK', UNCHANGED sessVars
      PROVE  CacheInv'
  <2>1. UNCHANGED <<sess, stamp, map, seen, since>>
    BY <1>1 DEF sessVars
  <2>2. \A s \in Sessions : Cached(s)'
    BY <1>0, <1>1, <2>1, CachedGrows
  <2> QED
    BY <1>0, <1>1, <2>2 DEF CacheInv
<1>2. ASSUME UNCHANGED <<log, exists>> PROVE LogOK'
  BY <1>0, <1>2 DEF LogOK
<1>3. ASSUME UNCHANGED <<log, exists>>, UNCHANGED sessVars PROVE CacheInv'
  BY <1>1, <1>2, <1>3, ListFacts
<1>4. ASSUME NEW p \in Procs, StartBan(p) \/ StartUnban(p) \/ Flock(p) \/ WriteTmp(p)
                \/ WriteTmpTruncated(p) \/ Crash(p)
      PROVE  CacheInv'
  <2>1. UNCHANGED <<log, exists>> /\ UNCHANGED sessVars
    BY <1>4 DEF StartBan, StartUnban, Flock, WriteTmp, WriteTmpTruncated, Crash, Exit, fileVars
  <2> QED
    BY <1>3, <2>1
<1>5. ASSUME NEW p \in Procs, Move(p) PROVE CacheInv'
  <2>1. log' = Append(log, tmp[p]) /\ exists' = TRUE /\ UNCHANGED sessVars
    BY <1>5 DEF Move, Exit
  <2>2. tmp[p] \in Lists
    BY <1>0 DEF FileTypeOK
  <2>3. log'[1] = log[1]
    BY <1>0, <1>00, <2>1, <2>2, LogGrows
  <2>4. LogOK'
    BY <1>0, <2>1, <2>3 DEF LogOK
  <2> QED
    BY <1>1, <2>1, <2>2, <2>4
<1>6. CASE LoseVolume
  <2>1. log' = Append(log, Empty) /\ UNCHANGED sessVars /\ Empty \in Lists
    BY <1>6, ListFacts DEF LoseVolume
  <2>2. log'[1] = log[1] /\ log'[Len(log')] = Empty
    BY <1>0, <1>00, <2>1, LogGrows
  <2>3. LogOK'
    BY <1>0, <2>2 DEF LogOK
  <2> QED
    BY <1>1, <2>1, <2>3
<1>7. CASE FileTick \/ UNCHANGED allVars
  BY <1>3, <1>7 DEF FileTick, allVars, fileVars
<1>8. ASSUME NEW s \in Sessions, UNCHANGED <<log, exists>>, Cached(s)',
             \A u \in Sessions \ {s} : /\ sess'[u] = sess[u] /\ stamp'[u] = stamp[u]
                                       /\ map'[u] = map[u] /\ seen'[u] = seen[u]
                                       /\ since'[u] = since[u]
      PROVE  CacheInv'
  <2>1. ASSUME NEW u \in Sessions, u # s PROVE Cached(u)'
    BY <1>0, <1>8, <2>1 DEF Cached, From
  <2> QED
    BY <1>0, <1>2, <1>8, <2>1 DEF CacheInv
<1>9. ASSUME NEW s \in Sessions, Stat(s) PROVE CacheInv'
  <2>1. /\ since' = [since EXCEPT ![s] = Len(log)] /\ UNCHANGED <<log, exists>>
        /\ IF exists
           THEN /\ seen' = [seen EXCEPT ![s] = Len(log)]
                /\ sess' = [sess EXCEPT ![s] = "stat"]
                /\ UNCHANGED <<stamp, map>>
           ELSE /\ stamp' = [stamp EXCEPT ![s] = 0]
                /\ map' = [map EXCEPT ![s] = Empty]
                /\ sess' = [sess EXCEPT ![s] = "decide"]
                /\ UNCHANGED seen
    BY <1>9 DEF Stat, fileVars
  <2>2. since'[s] = Len(log) /\ Len(log) \in 1 .. Len(log)
    BY <1>00, <2>1
  <2>3. Cached(s)'
    <3>1. CASE exists
      <4>1. seen'[s] = Len(log) /\ sess'[s] = "stat" /\ stamp'[s] = stamp[s] /\ map'[s] = map[s]
            /\ log' = log
        BY <1>00, <2>1, <3>1
      <4>2. Cached(s)
        BY <1>0
      <4> QED
        BY <2>2, <4>1, <4>2 DEF Cached, From
    <3>2. CASE ~exists
      <4>1. stamp'[s] = 0 /\ sess'[s] = "decide" /\ map'[s] = Empty /\ log' = log
        BY <1>00, <2>1, <3>2
      <4>2. map'[s] = log'[Len(log)] /\ Len(log) \in since'[s] .. Len(log') /\ since'[s] >= 1
        BY <1>0, <1>00, <2>2, <3>2, <4>1 DEF LogOK
      <4> QED
        BY <4>1, <4>2 DEF Cached, From
    <3> QED
      BY <3>1, <3>2
  <2> QED
    BY <1>8, <1>00, <2>1, <2>3
<1>10. ASSUME NEW s \in Sessions, Load(s) PROVE CacheInv'
  <2>1. /\ sess[s] = "stat" /\ UNCHANGED <<log, exists, seen, since>>
        /\ sess' = [sess EXCEPT ![s] = "decide"]
        /\ \/ stamp[s] = seen[s] /\ UNCHANGED <<stamp, map>>
           \/ /\ map' = [map EXCEPT ![s] = Last(log)]
              /\ stamp' = [stamp EXCEPT ![s] = seen[s]]
    BY <1>10 DEF Load, fileVars
  <2>2. seen[s] = since[s] /\ since[s] \in 1 .. Len(log) /\ Cached(s)
    BY <1>0, <2>1 DEF Cached
  <2>3. sess'[s] = "decide" /\ since'[s] = since[s] /\ since'[s] >= 1
    BY <1>00, <2>1, <2>2
  <2>4. stamp'[s] = since'[s] /\ stamp'[s] # 0 /\ From(s, stamp[s])'
    <3>1. CASE stamp[s] = seen[s] /\ UNCHANGED <<stamp, map>>
      BY <1>00, <2>1, <2>2, <2>3, <3>1 DEF Cached, From
    <3>2. CASE /\ map' = [map EXCEPT ![s] = Last(log)]
               /\ stamp' = [stamp EXCEPT ![s] = seen[s]]
      <4>1. map'[s] = log[Len(log)] /\ stamp'[s] = since[s]
        BY <1>00, <2>2, <3>2 DEF Last
      <4>2. Len(log) \in stamp'[s] .. Len(log')
        BY <1>00, <2>1, <2>2, <4>1
      <4> QED
        BY <1>00, <2>1, <2>2, <2>3, <4>1, <4>2 DEF From
    <3> QED
      BY <2>1, <3>1, <3>2
  <2>5. Cached(s)'
    BY <2>3, <2>4 DEF Cached, From
  <2> QED
    BY <1>8, <1>00, <2>1, <2>5
<1>11. ASSUME NEW s \in Sessions, LoadFails(s) PROVE CacheInv'
  <2>1. /\ UNCHANGED <<log, exists, seen, stamp, map>> /\ sess' = [sess EXCEPT ![s] = "decide"]
        /\ since' = [since EXCEPT ![s] = IF stamp[s] = 0 THEN 1 ELSE stamp[s]]
    BY <1>11 DEF LoadFails, fileVars
  <2>2. sess'[s] = "decide" /\ since'[s] = IF stamp[s] = 0 THEN 1 ELSE stamp[s]
    BY <1>00, <2>1
  <2>3. Cached(s) /\ stamp[s] \in Nat
    BY <1>0, <1>00
  <2>4. since'[s] >= 1 /\ From(s, since[s])'
    <3>1. CASE stamp[s] = 0
      <4>1. map'[s] = log'[1] /\ since'[s] = 1 /\ 1 \in 1 .. Len(log')
        BY <1>0, <1>00, <2>1, <2>2, <2>3, <3>1 DEF Cached, LogOK
      <4> QED
        BY <4>1 DEF From
    <3>2. CASE stamp[s] # 0
      BY <2>1, <2>2, <2>3, <3>2 DEF Cached, From
    <3> QED
      BY <3>1, <3>2
  <2>5. Cached(s)'
    BY <2>1, <2>2, <2>3, <2>4 DEF Cached, From
  <2> QED
    BY <1>8, <1>00, <2>1, <2>5
<1>12. ASSUME NEW s \in Sessions, Decide(s) PROVE CacheInv'
  <2>1. UNCHANGED <<log, exists, seen, stamp, map, since>>
        /\ sess' = [sess EXCEPT ![s] = IF answer'[s] THEN "denied" ELSE "live"]
    BY <1>12 DEF Decide, fileVars
  <2>2. sess'[s] \in {"denied", "live"}
    BY <1>00, <2>1
  <2>3. Cached(s)'
    BY <1>0, <2>1, <2>2 DEF Cached, From
  <2> QED
    BY <1>8, <1>00, <2>1, <2>3
<1>13. ASSUME NEW s \in Sessions, Close(s) PROVE CacheInv'
  <2>1. UNCHANGED <<log, exists, seen, since>> /\ sess' = [sess EXCEPT ![s] = "closed"]
        /\ stamp' = [stamp EXCEPT ![s] = 0] /\ map' = [map EXCEPT ![s] = Empty]
    BY <1>13 DEF Close, fileVars
  <2>2. sess'[s] = "closed" /\ stamp'[s] = 0 /\ map'[s] = Empty
    BY <1>00, <2>1
  <2>3. Cached(s)'
    BY <2>2 DEF Cached
  <2> QED
    BY <1>8, <1>00, <2>1, <2>3
<1> QED
  BY <1>4, <1>5, <1>6, <1>7, <1>9, <1>10, <1>11, <1>12, <1>13 DEF FileNext, Write

(* isBanned() goes by a list that was in place at some moment between its  *)
(* stat and its answer, however runs replace the file in between: the copy *)
(* is filed under the stamp of the stat, not of the read                   *)
(* (shield_core.js:92-130).                                                *)
THEOREM AnswersAreFresh == FileSpec => ChecksAreFresh
<1>1. FileInit => CacheInv
  <2> SUFFICES ASSUME FileInit PROVE CacheInv
    OBVIOUS
  <2>1. log = <<Empty>> /\ log[1] = Empty /\ Len(log) = 1
    BY DEF FileInit
  <2>2. \A s \in Sessions : stamp[s] = 0 /\ map[s] = Empty /\ sess[s] = "closed"
    BY DEF FileInit
  <2> QED
    BY <2>1, <2>2, FileTypeInit DEF CacheInv, LogOK, Cached
<1>2. CacheInv /\ [FileNext]_allVars
        => [\A s \in Sessions : Decide(s) =>
              \E v \in since[s] .. Len(log) :
                  answer'[s] = isBanned(log[v], client[s], now)]_allVars
  <2> SUFFICES ASSUME CacheInv, NEW s \in Sessions, Decide(s)
               PROVE  \E v \in since[s] .. Len(log) :
                        answer'[s] = isBanned(log[v], client[s], now)
    OBVIOUS
  <2>1. sess[s] = "decide" /\ answer' = [answer EXCEPT ![s] = isBanned(map[s], client[s], now)]
    BY DEF Decide
  <2>2. PICK v \in since[s] .. Len(log) : map[s] = log[v]
    BY <2>1 DEF CacheInv, Cached, From
  <2>3. answer'[s] = isBanned(map[s], client[s], now)
    BY <2>1 DEF CacheInv, FileTypeOK
  <2> QED
    BY <2>2, <2>3
<1> QED
  BY <1>1, <1>2, CacheStep, PTL DEF FileSpec, ChecksAreFresh
=============================================================================
