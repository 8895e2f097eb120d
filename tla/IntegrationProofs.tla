------------------------- MODULE IntegrationProofs -------------------------
(***************************************************************************)
(* Proofs about the agent commands: the lock they take (IntegrationLock)   *)
(* and what they do under it (AgentIntegration).                           *)
(*                                                                         *)
(* The lock: a process that owns a lock file is behind the name of the     *)
(* lock, or was moved aside (OwnersHaveTheName).                           *)
(*                                                                         *)
(* Agent operations: two inductive invariants, one on top of the other.    *)
(* Credited is about credentials: what a manifest, the manifests an        *)
(* undoing gives back and the tables of the running operation name is live *)
(* and made for them, and what a recovery or a rollback revokes is none of *)
(* it (Books); and which writes the running operation has made, by its     *)
(* phase (OpBooks).  Agreed adds, for every product, that its files agree  *)
(* (Whole) or go back to files that agree (Restorable), and, for the       *)
(* operation that works, how far files and links agree with the table it   *)
(* is filling (AtWorkAgrees).                                              *)
(***************************************************************************)
EXTENDS AgentIntegration, IntegrationLock, TLAPS

-----------------------------------------------------------------------------
(* The lock file of the agent commands                                     *)

\* A process that is to write its lock has created one.
LockTypes == LockTypeOK /\ \A p \in Procs : pc[p] = "write" => made[p] # 0

LEMMA InitLockTypes == LockInit => LockTypes
<1> SUFFICES ASSUME LockInit PROVE LockTypes
  OBVIOUS
<1>1. 0 \in 0 .. MaxLocks /\ "idle" \in LockSteps /\ "idle" # "write"
  BY Bounds DEF LockSteps
<1>2. /\ file \in Locks \cup {NoLock} /\ written \subseteq Locks /\ old \subseteq Locks
      /\ alive \subseteq Procs /\ displaced \in BOOLEAN
  BY DEF LockInit
<1>3. pc \in [Procs -> LockSteps] /\ attempt \in [Procs -> {0, 1}] /\ made \in [Procs -> 0 .. MaxLocks]
  BY <1>1 DEF LockInit
<1>4. holder \in [Procs -> Locks \cup {Unreadable}] /\ aside \in [Procs -> Locks \cup {NoLock}]
  BY DEF LockInit
<1>5. \A p \in Procs : pc[p] # "write"
  BY <1>1 DEF LockInit
<1>6. QED
  BY <1>2, <1>3, <1>4, <1>5 DEF LockTypes, LockTypeOK

LEMMA NextLockTypes == LockTypes /\ [LockNext]_lockVars => LockTypes'
<1> SUFFICES ASSUME LockTypes, [LockNext]_lockVars PROVE LockTypes'
  OBVIOUS
<1> USE DEF LockTypes, LockTypeOK
<1>1. ASSUME NEW p \in Procs, NEW step \in LockSteps, step # "write", GoOn(p, step),
             UNCHANGED <<file, written, old, alive, made, holder, displaced>>,
             attempt' \in [Procs -> {0, 1}], aside' \in [Procs -> Locks \cup {NoLock}]
      PROVE  LockTypes'
  BY <1>1 DEF GoOn
<1>2. CASE Age \/ \E p \in Procs : Die(p)
  BY <1>2 DEF Age, Die
<1>3. ASSUME NEW p \in Procs, Call(p) \/ Exists(p) \/ Judge(p) \/ Compare(p) \/ DropAside(p) \/ Release(p)
      PROVE  LockTypes'
  <2>1. \E step \in LockSteps \ {"write"} : GoOn(p, step)
    BY <1>3 DEF Call, Exists, Judge, Compare, DropAside, Release, LockSteps
  <2>2. /\ UNCHANGED <<file, written, old, alive, made, holder, displaced>>
        /\ attempt' \in [Procs -> {0, 1}] /\ aside' \in [Procs -> Locks \cup {NoLock}]
    BY <1>3 DEF Call, Exists, Judge, Compare, DropAside, Release
  <2>3. QED
    BY <1>1, <2>1, <2>2
<1>4. ASSUME NEW p \in Procs, Open(p) PROVE LockTypes'
  <2>1. CASE made[p] < MaxLocks
    <3>1. /\ file' = <<p, made[p] + 1>> /\ made' = [made EXCEPT ![p] = @ + 1]
          /\ pc' = [pc EXCEPT ![p] = "write"]
          /\ UNCHANGED <<written, old, alive, attempt, holder, aside, displaced>>
      BY <1>4, <2>1 DEF Open, GoOn
    <3>2. made[p] + 1 \in 1 .. MaxLocks
      BY <2>1, Bounds
    <3>3. made' \in [Procs -> 0 .. MaxLocks] /\ made'[p] # 0 /\ file' \in Locks
      BY <3>1, <3>2, Bounds DEF Locks
    <3>4. pc' \in [Procs -> LockSteps]
      BY <3>1 DEF LockSteps
    <3>5. QED
      BY <3>1, <3>3, <3>4
  <2>2. CASE ~(made[p] < MaxLocks)
    BY <1>1, <1>4, <2>2 DEF Open, LockSteps
  <2>3. QED
    BY <2>1, <2>2
<1>5. ASSUME NEW p \in Procs, WriteHolder(p) PROVE LockTypes'
  <2>1. made[p] \in 1 .. MaxLocks
    BY <1>5, Bounds DEF WriteHolder, At
  <2>2. Mine(p) \in Locks
    BY <2>1 DEF Mine, Locks
  <2>3. pc' \in [Procs -> LockSteps] /\ \A q \in Procs : pc'[q] = "write" => pc[q] = "write"
    BY <1>5 DEF WriteHolder, GoOn, LockSteps
  <2>4. QED
    BY <1>5, <2>2, <2>3 DEF WriteHolder
<1>6. ASSUME NEW p \in Procs, ReadHolder(p) PROVE LockTypes'
  <2>1. pc' \in [Procs -> LockSteps] /\ \A q \in Procs : pc'[q] = "write" => pc[q] = "write"
    BY <1>6 DEF ReadHolder, GoOn, LockSteps
  <2>2. holder' \in [Procs -> Locks \cup {Unreadable}]
    BY <1>6 DEF ReadHolder, Content
  <2>3. QED
    BY <1>6, <2>1, <2>2 DEF ReadHolder
<1>7. ASSUME NEW p \in Procs, MoveAside(p) PROVE LockTypes'
  <2>1. pc' \in [Procs -> LockSteps] /\ \A q \in Procs : pc'[q] = "write" => pc[q] = "write"
    BY <1>7 DEF MoveAside, GoOn, LockSteps
  <2>2. QED
    BY <1>7, <2>1 DEF MoveAside
<1>8. ASSUME NEW p \in Procs, PutBack(p) \/ RemoveName(p) PROVE LockTypes'
  <2>1. pc' \in [Procs -> LockSteps] /\ \A q \in Procs : pc'[q] = "write" => pc[q] = "write"
    BY <1>8 DEF PutBack, RemoveName, GoOn, LockSteps
  <2>2. file' \in Locks \cup {NoLock}
    BY <1>8 DEF PutBack, RemoveName
  <2>3. QED
    BY <1>8, <2>1, <2>2 DEF PutBack, RemoveName
<1>9. QED
  BY <1>2, <1>3, <1>4, <1>5, <1>6, <1>7, <1>8 DEF LockNext, Runs, Acquire, TakeOver, lockVars

\* The types of the lock.
THEOREM LockTypeCorrect == LockSpec => []LockTypeOK
<1>1. LockTypes => LockTypeOK
  BY DEF LockTypes
<1>2. QED
  BY <1>1, InitLockTypes, NextLockTypes, PTL DEF LockSpec

\* A process that has created its lock and has not begun to give it up.
Has(p) == p \in alive /\ pc[p] \in {"write", "held", "remove"}

OwnersHaveTheName == ~displaced => \A p \in Procs : Has(p) => file = Mine(p)

LEMMA NextOwners == LockTypes /\ OwnersHaveTheName /\ [LockNext]_lockVars => OwnersHaveTheName'
<1> SUFFICES ASSUME LockTypes, OwnersHaveTheName, [LockNext]_lockVars, ~displaced',
                    NEW q \in Procs, Has(q)'
             PROVE  file' = Mine(q)'
  BY DEF OwnersHaveTheName
<1>1. ~displaced
  BY DEF LockNext, lockVars, Age, Die, Runs, Call, Acquire, TakeOver, Open, Exists, WriteHolder, ReadHolder,
         Judge, MoveAside, Compare, PutBack, DropAside, Release, RemoveName
<1>2. /\ \A p \in Procs : Has(p) => file = Mine(p)
      /\ pc \in [Procs -> LockSteps] /\ made \in [Procs -> 0 .. MaxLocks]
  BY <1>1 DEF OwnersHaveTheName, LockTypes, LockTypeOK
<1>3. \A p \in Procs : Mine(p) # NoLock /\ Creator(Mine(p)) = p
  BY DEF Mine, NoLock, Creator
\* Steps that do not touch the name.
<1>4. ASSUME UNCHANGED <<file, made>>, Has(q) PROVE file' = Mine(q)'
  BY <1>2, <1>4 DEF Mine
<1>5. ASSUME NEW p \in Procs,
             \/ Call(p) \/ Exists(p) \/ WriteHolder(p) \/ ReadHolder(p) \/ Judge(p) \/ Compare(p)
             \/ DropAside(p) \/ Release(p)
      PROVE  file' = Mine(q)'
  <2>1. UNCHANGED <<file, made, alive>>
    BY <1>5 DEF Call, Exists, WriteHolder, ReadHolder, Judge, Compare, DropAside, Release
  <2>2. Has(q)
    BY <1>2, <1>5 DEF Call, Exists, WriteHolder, ReadHolder, Judge, Compare, DropAside, Release, Has, At, GoOn
  <2>3. QED
    BY <1>4, <2>1, <2>2
<1>6. CASE Age \/ \E p \in Procs : Die(p)
  <2>1. UNCHANGED <<file, made>> /\ Has(q)
    BY <1>6 DEF Age, Die, Has
  <2>2. QED
    BY <1>4, <2>1
<1>7. ASSUME NEW p \in Procs, Open(p) PROVE file' = Mine(q)'
  <2>1. \A x \in Procs : ~Has(x)
    BY <1>2, <1>3, <1>7 DEF Open
  <2>2. q = p /\ pc'[p] = "write"
    BY <1>2, <1>7, <2>1 DEF Open, GoOn, Has
  <2>3. file' = <<p, made[p] + 1>> /\ made' = [made EXCEPT ![p] = @ + 1]
    BY <1>2, <1>7, <2>2 DEF Open, GoOn
  <2>4. QED
    BY <1>2, <2>2, <2>3 DEF Mine
<1>8. ASSUME NEW p \in Procs, MoveAside(p) PROVE file' = Mine(q)'
  <2>1. Has(q) /\ made' = made
    BY <1>2, <1>8 DEF MoveAside, GoOn, Has
  <2>2. file = Mine(q) /\ q \in alive
    BY <1>2, <2>1 DEF Has
  <2>3. QED
    BY <1>3, <1>8, <2>2 DEF MoveAside
<1>9. ASSUME NEW p \in Procs, PutBack(p) PROVE file' = Mine(q)'
  <2>1. Has(q) /\ made' = made
    BY <1>2, <1>9 DEF PutBack, GoOn, Has
  <2>2. file = Mine(q)
    BY <1>2, <2>1
  <2>3. QED
    BY <1>3, <1>9, <2>1, <2>2 DEF PutBack, Mine
<1>10. ASSUME NEW p \in Procs, RemoveName(p) PROVE file' = Mine(q)'
  <2>1. Has(q) /\ made' = made /\ p # q /\ Has(p)
    BY <1>2, <1>10 DEF RemoveName, GoOn, Has, At
  <2>2. file = Mine(q) /\ file = Mine(p)
    BY <1>2, <2>1
  <2>3. QED
    BY <1>3, <2>1, <2>2
<1>11. QED
  BY <1>1, <1>2, <1>5, <1>6, <1>7, <1>8, <1>9, <1>10 DEF LockNext, lockVars, Runs, Acquire, TakeOver, Has, Mine

\* Until the lock of a live process is moved aside, a process that holds has the name, so nobody
\* else holds and a release removes no lock but its own.
THEOREM HoldersAreAlone == LockSpec => []HolderHasTheName
<1>1. OwnersHaveTheName => HolderHasTheName
  BY DEF OwnersHaveTheName, HolderHasTheName, Has, Holds
<1>2. LockInit => OwnersHaveTheName
  BY DEF LockInit, OwnersHaveTheName, Has
<1>3. QED
  BY <1>1, <1>2, InitLockTypes, NextLockTypes, NextOwners, PTL DEF LockSpec

-----------------------------------------------------------------------------
(* What agent operations write                                             *)

Registrations == [cred : Creds, version : Nat, edited : {FALSE}]
Tables == [Targets -> Registrations \cup {NoEntry}]
Entries == [cred : Creds \cup {None}, version : Nat, edited : BOOLEAN]
Texts == [entry : [Products -> Entries], user : Nat]
Contents == Texts \cup Tables \cup Seq(Nat) \cup {Absent, <<"skill">>}

\* What a file of each kind may hold.
Fits(f, x) ==
    /\ \A t \in Targets : f = Config(t) => x \in Texts
    /\ \A c \in Creds : f = Secret(c) => x \in Seq(Nat)
    /\ \A p \in Products : f = Manifest(p) => x \in Tables \cup {Absent}
    /\ \A p \in Products : f = Skill(p) => x \in {Absent, <<"skill">>}

\* A product changes no manifest and no skill but its own, and in a text nothing but its entry.
OwnChange(p, before, after) ==
    /\ after.user = before.user
    /\ \A q \in Products : q # p => after.entry[q] = before.entry[q]
Writings(p) ==
    {w \in [file : Files, before : Contents, after : Contents] :
        /\ Fits(w.file, w.before) /\ Fits(w.file, w.after)
        /\ \A t \in Targets : w.file = Config(t) => OwnChange(p, w.before, w.after)
        /\ \A q \in Products : w.file \in {Manifest(q), Skill(q)} => q = p}

Journals(p) ==
    [writes : Seq(Writings(p)), linked : SUBSET Targets, removed : SUBSET Targets,
     issued : SUBSET Creds, issuing : SUBSET Targets, retired : SUBSET Registrations,
     cleanup : SUBSET {<<Skill(p), <<"skill">>>>}, committed : BOOLEAN]
Book(p) == IF journal[p] = Absent THEN EmptyJournal ELSE journal[p]

OnTarget == {"entry", "link", "makeLink", "refreshSecret", "refreshed", "create", "issue",
             "secret", "newEntry", "registered", "removeEntry", "unlink", "dropLink"}
Works == OnTarget \cup {"skill", "target", "apply", "manifest", "commit"}
Phases == Works \cup {"recover", "finish", "undo", "undoLinks", "undoIssued", "plan", "cleanup",
                      "revoke", "rollback", "rollbackLinks"}
IsOn(step) == op.phase = step \/ (op.phase = "apply" /\ op.then = step)

OpFields == {"product", "kind", "version", "todo", "phase", "text", "regs", "found", "kept",
             "write", "then", "seen", "cred", "writes", "linked", "removed", "issued", "retired",
             "left", "failed"}

DiskTypes == DOMAIN disk = Files /\ \A f \in Files : Fits(f, disk[f])
JournalTypes == DOMAIN journal = Products /\ \A p \in Products : journal[p] \in Journals(p) \cup {Absent}
OpTypes == op # Absent =>
    /\ DOMAIN op = OpFields
    /\ op.product \in Products /\ op.kind \in {"install", "replace", "uninstall"} /\ op.version \in Nat
    /\ op.todo \in Seq(Targets) /\ op.phase \in Phases
    /\ op.text \in [Targets -> Texts] /\ op.regs \in Tables /\ op.found \in Tables \cup {Absent}
    /\ op.kept \subseteq Targets /\ op.cred \in Creds \cup {None}
    /\ op.writes \in Seq(Writings(Me))
    /\ op.linked \subseteq Targets /\ op.removed \subseteq Targets
    /\ op.issued \subseteq Creds /\ op.left \subseteq Creds /\ op.failed \subseteq Creds
    /\ op.retired \subseteq Registrations
OpKnows == op # Absent =>
    /\ op.phase = "apply" => op.write \in Writings(Me) /\ op.then \in OnTarget \cup {"target", "commit"}
    /\ \A step \in OnTarget : IsOn(step) => op.todo # <<>>
    /\ op.phase \in {"finish", "undo", "undoLinks", "undoIssued"} => journal[Me] # Absent
    /\ \A step \in {"issue", "secret", "newEntry", "registered"} : IsOn(step) => op.cred \in Creds
    /\ \A step \in {"refreshSecret", "refreshed"} : IsOn(step) => Todo \in op.kept
    /\ \A step \in {"removeEntry", "unlink", "dropLink"} : IsOn(step) => op.kind = "uninstall"
    /\ op.kept # {} => op.kind = "install"
    /\ \A t \in op.kept : op.regs[t] # NoEntry
Notes == [pending : SUBSET Creds, told : SUBSET Creds, lost : SUBSET Creds]
OtherTypes ==
    /\ links \in [Products -> SUBSET Targets]
    /\ conn \in [Creds -> {"none", "live", "revoked"}]
    /\ label \in [Creds -> (Products \X Targets) \cup {Absent}]
    /\ notes \in Notes /\ touched \subseteq Products \X Targets
    /\ spent \in [ops : Nat, crashes : Nat, faults : Nat, edits : Nat]
Types == DiskTypes /\ JournalTypes /\ OpTypes /\ OpKnows /\ OtherTypes

-----------------------------------------------------------------------------
LEMMA FilesDiffer ==
    ASSUME NEW t, NEW c, NEW p, NEW q
    PROVE  /\ Config(t) # Secret(c) /\ Config(t) # Manifest(p) /\ Config(t) # Skill(p)
           /\ Secret(c) # Manifest(p) /\ Secret(c) # Skill(p) /\ Manifest(p) # Skill(q)
           /\ Config(t) = Config(q) => t = q
           /\ Secret(c) = Secret(q) => c = q
           /\ Manifest(p) = Manifest(q) => p = q
           /\ Skill(p) = Skill(q) => p = q
BY DEF Config, Secret, Manifest, Skill

LEMMA FilesOf ==
    /\ \A t \in Targets : Config(t) \in Files
    /\ \A c \in Creds : Secret(c) \in Files
    /\ \A p \in Products : Manifest(p) \in Files /\ Skill(p) \in Files
BY DEF Files

LEMMA FitsEach ==
    ASSUME NEW x
    PROVE  /\ \A t \in Targets : Fits(Config(t), x) <=> x \in Texts
           /\ \A c \in Creds : Fits(Secret(c), x) <=> x \in Seq(Nat)
           /\ \A p \in Products : Fits(Manifest(p), x) <=> x \in Tables \cup {Absent}
           /\ \A p \in Products : Fits(Skill(p), x) <=> x \in {Absent, <<"skill">>}
<1>1. \A t \in Targets : Fits(Config(t), x) <=> x \in Texts
  BY FilesDiffer DEF Fits
<1>2. \A c \in Creds : Fits(Secret(c), x) <=> x \in Seq(Nat)
  BY FilesDiffer DEF Fits
<1>3. \A p \in Products : Fits(Manifest(p), x) <=> x \in Tables \cup {Absent}
  BY FilesDiffer DEF Fits
<1>4. \A p \in Products : Fits(Skill(p), x) <=> x \in {Absent, <<"skill">>}
  BY FilesDiffer DEF Fits
<1>5. QED
  BY <1>1, <1>2, <1>3, <1>4

\* Whatever fits one of the files is a content.
LEMMA FittingContents == ASSUME NEW f \in Files, NEW x, Fits(f, x) PROVE x \in Contents
BY FitsEach DEF Files, Contents

LEMMA JournalsAreThere == ASSUME NEW p, NEW j \in Journals(p) PROVE j # Absent
<1>1. DOMAIN j = {"writes", "linked", "removed", "issued", "issuing", "retired", "cleanup", "committed"}
  BY DEF Journals
<1>2. DOMAIN <<>> = {}
  OBVIOUS
<1>3. QED
  BY <1>1, <1>2 DEF Absent

LEMMA EmptyJournalType == ASSUME NEW p PROVE EmptyJournal \in Journals(p)
BY DEF EmptyJournal, Journals

LEMMA BookTypes == ASSUME JournalTypes, NEW p \in Products PROVE Book(p) \in Journals(p)
BY EmptyJournalType DEF JournalTypes, Book

LEMMA LastOf ==
    ASSUME NEW S, NEW s \in Seq(S), s # <<>>
    PROVE  /\ Last(s) \in S /\ Front(s) \in Seq(S)
           /\ Last(s) \in ToSet(s) /\ ToSet(Front(s)) \subseteq ToSet(s)
           /\ \A x \in ToSet(s) : x \in ToSet(Front(s)) \/ x = Last(s)
<1>1. Len(s) \in Nat /\ Len(s) # 0 /\ DOMAIN s = 1 .. Len(s)
  OBVIOUS
<1>2. Last(s) \in S /\ Last(s) \in ToSet(s)
  BY <1>1 DEF Last, ToSet
<1>3. /\ Front(s) \in Seq(S) /\ DOMAIN Front(s) = 1 .. Len(s) - 1
      /\ \A i \in 1 .. Len(s) - 1 : Front(s)[i] = s[i]
  BY <1>1 DEF Front
<1>4. ToSet(Front(s)) \subseteq ToSet(s)
  BY <1>1, <1>3 DEF ToSet
<1>5. ASSUME NEW x \in ToSet(s) PROVE x \in ToSet(Front(s)) \/ x = Last(s)
  <2>1. PICK i \in 1 .. Len(s) : x = s[i]
    BY <1>1, <1>5 DEF ToSet
  <2>2. i = Len(s) \/ i \in 1 .. Len(s) - 1
    <3>1. \A n \in Nat : \A k \in 1 .. n : k = n \/ k \in 1 .. n - 1
      OBVIOUS
    <3>2. QED
      BY ONLY <1>1, <2>1, <3>1
  <2>3. ASSUME i \in 1 .. Len(s) - 1 PROVE x \in ToSet(Front(s))
    <3>1. i \in DOMAIN Front(s) /\ x = Front(s)[i]
      BY <1>3, <2>1, <2>3
    <3>2. QED
      BY <3>1 DEF ToSet
  <2>4. QED
    BY <2>1, <2>2, <2>3 DEF Last
<1>6. QED
  BY <1>2, <1>3, <1>4, <1>5

LEMMA AppendTo ==
    ASSUME NEW S, NEW s \in Seq(S), NEW e \in S
    PROVE  Append(s, e) \in Seq(S) /\ ToSet(Append(s, e)) = ToSet(s) \cup {e}
<1>1. /\ Append(s, e) \in Seq(S) /\ Len(s) \in Nat /\ DOMAIN s = 1 .. Len(s)
      /\ DOMAIN Append(s, e) = 1 .. Len(s) + 1
      /\ \A i \in 1 .. Len(s) : Append(s, e)[i] = s[i]
      /\ Append(s, e)[Len(s) + 1] = e
  OBVIOUS
<1>2. ASSUME NEW x \in ToSet(Append(s, e)) PROVE x \in ToSet(s) \cup {e}
  <2>1. PICK i \in 1 .. Len(s) + 1 : x = Append(s, e)[i]
    BY <1>1, <1>2 DEF ToSet
  <2>2. i = Len(s) + 1 \/ i \in 1 .. Len(s)
    BY <1>1, <2>1
  <2>3. QED
    BY <1>1, <2>1, <2>2 DEF ToSet
<1>3. ToSet(s) \cup {e} \subseteq ToSet(Append(s, e))
  <2>1. Len(s) + 1 \in 1 .. Len(s) + 1 /\ \A i \in 1 .. Len(s) : i \in 1 .. Len(s) + 1
    BY <1>1
  <2>2. QED
    BY <1>1, <2>1 DEF ToSet
<1>4. QED
  BY <1>1, <1>2, <1>3
-----------------------------------------------------------------------------
LEMMA PutTypes ==
    ASSUME DiskTypes, touched \subseteq Products \X Targets, NEW f \in Files, NEW content,
           Fits(f, content), NEW by, Put(f, content, by)
    PROVE  DiskTypes' /\ touched' \subseteq Products \X Targets
<1>1. disk' = [disk EXCEPT ![f] = content]
  BY DEF Put
<1>2. DiskTypes'
  BY <1>1 DEF DiskTypes
<1>3. Touches(f, by) \subseteq Products \X Targets
  BY DEF Touches
<1>4. QED
  BY <1>2, <1>3 DEF Put

LEMMA RemoveTypes ==
    ASSUME DiskTypes, NEW pairs, RemoveIfUnchanged(pairs),
           \A t \in Targets, x \in Texts : <<Config(t), x>> \notin pairs
    PROVE  DiskTypes' /\ \A t \in Targets : disk'[Config(t)] = disk[Config(t)]
<1>1. disk' = [f \in Files |-> IF <<f, disk[f]>> \in pairs THEN Absent ELSE disk[f]]
  BY DEF RemoveIfUnchanged
<1>2. \A t \in Targets : disk[Config(t)] \in Texts
  BY FilesOf, FitsEach DEF DiskTypes
<1>3. \A t \in Targets : disk'[Config(t)] = disk[Config(t)]
  BY <1>1, <1>2, FilesOf
<1>4. ASSUME NEW f \in Files PROVE Fits(f, disk'[f])
  <2>1. CASE disk'[f] = disk[f]
    BY <2>1 DEF DiskTypes
  <2>2. CASE disk'[f] # disk[f]
    <3>1. disk'[f] = Absent
      BY <1>1, <2>2
    <3>2. \A t \in Targets : f # Config(t)
      BY <1>3, <2>2
    <3>3. <<>> \in Seq(Nat)
      OBVIOUS
    <3>4. QED
      BY <3>1, <3>2, <3>3, FitsEach DEF Files, Absent
  <2>3. QED
    BY <2>1, <2>2
<1>5. QED
  BY <1>1, <1>3, <1>4 DEF DiskTypes

LEMMA SaveTypes ==
    ASSUME JournalTypes, NEW j, j \in Journals(Me) \cup {Absent}, Save(j)
    PROVE  JournalTypes'
BY DEF JournalTypes, Save

LEMMA MyJournalType == ASSUME JournalTypes, OpTypes, op # Absent PROVE MyJournal \in Journals(Me)
BY BookTypes DEF OpTypes, Book, MyJournal, Me

LEMMA GotoTypes == ASSUME OpTypes, op # Absent, NEW s \in Phases, Goto(s) PROVE OpTypes'
BY DEF OpTypes, OpFields, Goto, Me

LEMMA NewWriting ==
    ASSUME OpTypes, op # Absent, NEW f \in Files, NEW before, NEW after,
           Fits(f, before), Fits(f, after),
           \A t \in Targets : f = Config(t) => OwnChange(Me, before, after),
           \A q \in Products : f \in {Manifest(q), Skill(q)} => q = Me
    PROVE  [file |-> f, before |-> before, after |-> after] \in Writings(Me)
BY FittingContents DEF Writings

\* write() itself: the journal gets the write, and so does the operation that is to apply it.
LEMMA WriteTypes ==
    ASSUME OpTypes, JournalTypes, op # Absent, NEW f \in Files, NEW before, NEW after,
           Fits(f, before), Fits(f, after), NEW then \in OnTarget \cup {"target", "commit"},
           \A t \in Targets : f = Config(t) => OwnChange(Me, before, after),
           \A q \in Products : f \in {Manifest(q), Skill(q)} => q = Me,
           Write(f, before, after, then)
    PROVE  OpTypes' /\ JournalTypes' /\ op'.write \in Writings(Me)'
<1> DEFINE w == [file |-> f, before |-> before, after |-> after]
<1>1. w \in Writings(Me)
  BY NewWriting
<1>2. /\ op' = [op EXCEPT !.phase = "apply", !.then = then, !.write = w]
      /\ Save([MyJournal EXCEPT !.writes = Append(@, w)])
  BY DEF Write
<1> HIDE DEF w
<1>3. MyJournal \in Journals(Me)
  BY MyJournalType
<1>4. Append(MyJournal.writes, w) \in Seq(Writings(Me))
  BY <1>1, <1>3 DEF Journals
<1>5. [MyJournal EXCEPT !.writes = Append(@, w)] \in Journals(Me)
  BY <1>3, <1>4 DEF Journals
<1>6. JournalTypes'
  BY <1>2, <1>5, SaveTypes
<1>7. "apply" \in Phases
  BY DEF Phases, Works
<1>8. OpTypes' /\ op'.write = w /\ op'.product = op.product
  BY <1>2, <1>7 DEF OpTypes, OpFields, Me
<1>9. QED
  BY <1>1, <1>6, <1>8 DEF Me
-----------------------------------------------------------------------------
LEMMA InitAgentTypes == AgentInit => Types
<1> SUFFICES ASSUME AgentInit PROVE Types
  OBVIOUS
<1>1. NoEntry \in Entries /\ NoText \in Texts
  BY DEF NoText, NoEntry, Entry, Entries, Texts, None
<1>2. <<>> \in Seq(Nat)
  OBVIOUS
<1>3. DiskTypes
  <2>1. ASSUME NEW f \in Files PROVE Fits(f, disk[f])
    <3>1. CASE \E t \in Targets : f = Config(t)
      BY <1>1, <3>1, FitsEach DEF AgentInit
    <3>2. CASE ~\E t \in Targets : f = Config(t)
      BY <1>2, <3>2, FitsEach DEF AgentInit, Files, Absent
    <3>3. QED
      BY <3>1, <3>2
  <2>2. QED
    BY <2>1 DEF DiskTypes, AgentInit
<1>4. JournalTypes /\ OpTypes /\ OpKnows
  BY DEF AgentInit, JournalTypes, OpTypes, OpKnows
<1>5. OtherTypes
  BY DEF AgentInit, OtherTypes, Notes
<1>6. QED
  BY <1>3, <1>4, <1>5 DEF Types

LEMMA RegsTypes == ASSUME DiskTypes, NEW p \in Products PROVE Regs(p) \in Tables
<1>1. disk[Manifest(p)] \in Tables \cup {Absent}
  BY FilesOf, FitsEach DEF DiskTypes
<1>2. NoRegs \in Tables
  BY DEF NoRegs, Tables
<1>3. QED
  BY <1>1, <1>2 DEF Regs

LEMMA SpendTypes ==
    ASSUME spent \in [ops : Nat, crashes : Nat, faults : Nat, edits : Nat],
           NEW what \in {"ops", "crashes", "faults", "edits"}, Spend(what)
    PROVE  spent' \in [ops : Nat, crashes : Nat, faults : Nat, edits : Nat]
BY DEF Spend

\* Outside the changes of one registration there is little to know.
LEMMA CalmKnows ==
    ASSUME OpKnows, op # Absent, UNCHANGED <<op.product, op.kept, op.regs, op.kind>>,
           op'.phase \notin OnTarget \cup {"apply"},
           op'.phase \in {"finish", "undo", "undoLinks", "undoIssued"} => journal'[Me] # Absent
    PROVE  OpKnows'
BY DEF OpKnows, IsOn, OnTarget, Me

LEMMA StartTypes ==
    ASSUME Types, NEW p \in Products, NEW r \in Commands, Start(p, r.kind, r.version, r.todo)
    PROVE  Types'
<1> USE DEF Types
<1>1. r.kind \in {"install", "replace", "uninstall"} /\ r.version \in Nat /\ r.todo \in Seq(Targets)
  BY CommandsAssumption
<1>2. NoText \in Texts /\ NoRegs \in Tables /\ <<>> \in Seq(Writings(p)) /\ "recover" \in Phases
  BY DEF NoText, NoEntry, Entry, Entries, Texts, None, NoRegs, Tables, Phases
<1>3. OpTypes'
  BY <1>1, <1>2 DEF Start, OpTypes, OpFields, Me
<1>4. OpKnows'
  BY DEF Start, OpKnows, IsOn, OnTarget
<1>5. DiskTypes' /\ JournalTypes'
  BY DEF Start, DiskTypes, JournalTypes
<1>6. OtherTypes'
  BY SpendTypes DEF Start, OtherTypes
<1>7. QED
  BY <1>3, <1>4, <1>5, <1>6

\* What a step leaves alone keeps its type.
LEMMA KeptTypes ==
    ASSUME Types, OpTypes', OpKnows', UNCHANGED <<disk, journal, links, label, touched>>, notes' = notes \/ notes' \in Notes,
           conn' \in [Creds -> {"none", "live", "revoked"}],
           spent' = spent \/ Spend("faults") \/ Spend("crashes")
    PROVE  Types'
BY DEF Types, DiskTypes, JournalTypes, OtherTypes, Spend

LEMMA ReturnsTypes ==
    ASSUME notes \in Notes, NEW outcome \in {"told", "lost"}, Returns(outcome)
    PROVE  notes' \in Notes
BY DEF Returns, Notes

LEMMA EndTypes == ASSUME OtherTypes, End PROVE OpTypes' /\ OpKnows' /\ notes' \in Notes
BY ReturnsTypes DEF End, OpTypes, OpKnows, OtherTypes

LEMMA RecoverTypes == ASSUME Types, Recover PROVE Types'
<1> USE DEF Types
<1>1. op # Absent /\ op.phase = "recover" /\ Me \in Products
  BY DEF Recover, Phase, OpTypes, Me
<1>2. /\ UNCHANGED <<disk, links, conn, label, journal, notes, touched, spent>>
      /\ conn \in [Creds -> {"none", "live", "revoked"}]
  BY DEF Recover, OtherTypes
<1>3. CASE journal[Me] = Absent
  <2>1. Goto("plan") /\ "plan" \in Phases
    BY <1>3 DEF Recover, Phases
  <2>2. OpTypes' /\ OpKnows'
    BY <1>1, <2>1, GotoTypes DEF Goto, OpTypes, OpFields, OpKnows, IsOn, OnTarget, Me
  <2>3. QED
    BY <1>2, <2>2, KeptTypes
<1>4. CASE journal[Me] # Absent
  <2>1. journal[Me] \in Journals(Me)
    BY <1>1, <1>4 DEF JournalTypes
  <2>2. {reg.cred : reg \in journal[Me].retired} \subseteq Creds
    BY <2>1 DEF Journals, Registrations
  <2>3. journal[Me].writes \in Seq(Writings(Me)) /\ {"finish", "undo"} \subseteq Phases
    BY <2>1 DEF Journals, Phases
  <2>4. \/ op' = [op EXCEPT !.phase = "finish", !.left = {reg.cred : reg \in journal[Me].retired}]
        \/ op' = [op EXCEPT !.phase = "undo", !.writes = journal[Me].writes]
    BY <1>4 DEF Recover
  <2>5. /\ OpTypes' /\ UNCHANGED <<op.product, op.kept, op.regs, op.kind>>
        /\ op'.phase \in {"finish", "undo"}
    BY <1>1, <2>2, <2>3, <2>4 DEF OpTypes, OpFields, Me
  <2>6. OpKnows'
    BY <1>1, <1>2, <1>4, <2>5, CalmKnows DEF OnTarget
  <2>7. QED
    BY <1>2, <2>5, <2>6, KeptTypes
<1>5. QED
  BY <1>3, <1>4

LEMMA RecoveredTypes ==
    ASSUME Types, op # Absent, Recovered, DiskTypes', UNCHANGED <<links, conn, label, touched, spent>>
    PROVE  Types'
<1> USE DEF Types
<1>1. JournalTypes'
  BY SaveTypes DEF Recovered, ClearJournal
<1>2. OpTypes' /\ OpKnows'
  BY GotoTypes DEF Recovered, Goto, OpTypes, OpFields, OpKnows, IsOn, OnTarget, Me, Phases
<1>3. notes' \in Notes
  BY DEF Recovered, OtherTypes, Notes
<1>4. QED
  BY <1>1, <1>2, <1>3 DEF OtherTypes

\* No set of files that are removed together holds a configuration.
LEMMA NotConfigs ==
    ASSUME NEW t, NEW x
    PROVE  /\ \A c, v : <<Config(t), x>> # <<Secret(c), v>>
           /\ \A p, v : <<Config(t), x>> # <<Skill(p), v>> /\ <<Config(t), x>> # <<Manifest(p), v>>
BY FilesDiffer

\* One credential less is left to revoke.
LEMMA LeftTypes ==
    ASSUME OpTypes, op # Absent, NEW c \in Creds,
           \/ op' = [op EXCEPT !.left = @ \ {c}]
           \/ op' = [op EXCEPT !.left = @ \ {c}, !.failed = @ \cup {c}]
    PROVE  OpTypes' /\ UNCHANGED <<op.product, op.kept, op.regs, op.kind>> /\ op'.phase = op.phase
<1>1. CASE op' = [op EXCEPT !.left = @ \ {c}]
  BY <1>1 DEF OpTypes, OpFields, Me
<1>2. CASE op' = [op EXCEPT !.left = @ \ {c}, !.failed = @ \cup {c}]
  BY <1>2 DEF OpTypes, OpFields, Me
<1>3. QED
  BY <1>1, <1>2

LEMMA FinishTypes == ASSUME Types, FinishOne \/ Finished PROVE Types'
<1> USE DEF Types
<1>1. op # Absent /\ op.phase = "finish" /\ Me \in Products /\ journal[Me] # Absent
  BY DEF FinishOne, Finished, Phase, OpTypes, OpKnows, Me
<1>2. journal[Me] \in Journals(Me)
  BY <1>1 DEF JournalTypes
<1>3. CASE FinishOne
  <2>1. PICK reg \in journal[Me].retired :
             \/ /\ conn' = [conn EXCEPT ![reg.cred] = "revoked"]
                /\ RemoveIfUnchanged({<<Secret(reg.cred), <<reg.version>>>>})
                /\ op' = [op EXCEPT !.left = @ \ {reg.cred}]
                /\ UNCHANGED spent
             \/ /\ Spend("faults")
                /\ op' = [op EXCEPT !.left = @ \ {reg.cred}, !.failed = @ \cup {reg.cred}]
                /\ UNCHANGED <<disk, conn>>
    BY <1>3 DEF FinishOne
  <2>2. reg.cred \in Creds
    BY <1>2 DEF Journals, Registrations
  <2>3. OpTypes' /\ UNCHANGED <<op.product, op.kept, op.regs, op.kind>> /\ op'.phase = op.phase
    <3>1. \/ op' = [op EXCEPT !.left = @ \ {reg.cred}]
          \/ op' = [op EXCEPT !.left = @ \ {reg.cred}, !.failed = @ \cup {reg.cred}]
      BY <2>1
    <3>2. QED
      BY <1>1, <2>2, <3>1, LeftTypes
  <2>4. OpKnows'
    <3>1. journal' = journal
      BY <1>3 DEF FinishOne
    <3>2. QED
      BY <1>1, <2>3, <3>1, CalmKnows DEF OnTarget
  <2>5. DiskTypes'
    BY <2>1, RemoveTypes, NotConfigs DEF DiskTypes
  <2>6. conn' \in [Creds -> {"none", "live", "revoked"}] /\ spent' \in [ops : Nat, crashes : Nat, faults : Nat, edits : Nat]
    BY <2>1, <2>2 DEF OtherTypes, Spend
  <2>7. QED
    BY <1>3, <2>3, <2>4, <2>5, <2>6 DEF FinishOne, JournalTypes, OtherTypes
<1>4. CASE Finished
  <2>1. CASE op.failed # {}
    <3>1. End /\ UNCHANGED <<disk, journal, links, conn, label, touched, spent>>
      BY <1>4, <2>1 DEF Finished
    <3>2. OpTypes' /\ OpKnows' /\ notes' \in Notes
      BY <3>1, EndTypes
    <3>3. conn' \in [Creds -> {"none", "live", "revoked"}]
      BY <3>1 DEF OtherTypes
    <3>4. QED
      BY <3>1, <3>2, <3>3, KeptTypes
  <2>2. CASE op.failed = {}
    <3>1. Recovered /\ RemoveIfUnchanged(journal[Me].cleanup) /\ UNCHANGED <<links, conn, label, touched, spent>>
      BY <1>4, <2>2 DEF Finished
    <3>2. journal[Me].cleanup \subseteq {<<Skill(Me), <<"skill">>>>}
      BY <1>2 DEF Journals
    <3>3. DiskTypes'
      BY <3>1, <3>2, RemoveTypes, NotConfigs
    <3>4. QED
      BY <1>1, <3>1, <3>3, RecoveredTypes
  <2>3. QED
    BY <2>1, <2>2
<1>5. QED
  BY <1>3, <1>4
\* An undoing takes the last write back, or goes to its next part.
LEMMA UndoWriteTypes ==
    ASSUME Types, op # Absent, NEW last \in Phases, UndoWrite(last)
    PROVE  /\ OpTypes' /\ DiskTypes' /\ touched' \subseteq Products \X Targets /\ notes' \in Notes
           /\ \/ End
              \/ UNCHANGED <<op.product, op.kept, op.regs, op.kind>> /\ op'.phase \in {last, op.phase}
<1> USE DEF Types
<1>1. op.writes \in Seq(Writings(Me)) /\ DOMAIN op = OpFields
  BY DEF OpTypes, Me
<1>2. touched \subseteq Products \X Targets /\ notes \in Notes
  BY DEF OtherTypes
<1>3. op.writes # <<>> => Written \in Writings(Me) /\ Front(op.writes) \in Seq(Writings(Me))
  BY <1>1, LastOf DEF Written
<1>4. CASE CompareWritten
  BY <1>1, <1>2, <1>3, <1>4 DEF CompareWritten, OpTypes, OpFields, Me, DiskTypes
<1>5. CASE PutBefore
  <2>1. Written.file \in Files /\ Fits(Written.file, Written.before)
    BY <1>3, <1>5 DEF PutBefore, Writings
  <2>2. CASE End /\ UNCHANGED <<disk, touched>>
    BY <1>2, <2>2, EndTypes DEF DiskTypes
  <2>3. CASE /\ Put(Written.file, Written.before, {Me}) /\ UNCHANGED notes
             /\ op' = [op EXCEPT !.writes = Front(@), !.seen = <<>>]
    <3>1. DiskTypes' /\ touched' \subseteq Products \X Targets
      BY <1>2, <2>1, <2>3, PutTypes DEF DiskTypes
    <3>2. OpTypes' /\ UNCHANGED <<op.product, op.kept, op.regs, op.kind, op.phase>>
      BY <1>1, <1>3, <1>5, <2>3 DEF PutBefore, OpTypes, OpFields, Me
    <3>3. QED
      BY <1>2, <2>3, <3>1, <3>2
  <2>4. QED
    BY <1>5, <2>2, <2>3 DEF PutBefore
<1>6. CASE Goto(last) /\ UNCHANGED <<disk, notes, touched>>
  BY <1>1, <1>2, <1>6 DEF OpTypes, OpFields, Me, Goto, DiskTypes
<1>7. QED
  BY <1>4, <1>5, <1>6 DEF UndoWrite

LEMMA UndoTypes == ASSUME Types, Undo \/ RollbackWrite PROVE Types'
<1> USE DEF Types
<1>1. op # Absent /\ op.phase \in {"undo", "rollback"}
  BY DEF Undo, RollbackWrite, Phase
<1>2. /\ (UndoWrite("undoLinks") /\ op.phase = "undo") \/ (UndoWrite("rollbackLinks") /\ op.phase = "rollback")
      /\ UNCHANGED <<links, conn, label, journal, spent>>
  BY DEF Undo, RollbackWrite, Phase
<1>3. {"undo", "undoLinks", "rollback", "rollbackLinks"} \subseteq Phases
  BY DEF Phases
<1>4. /\ OpTypes' /\ DiskTypes' /\ touched' \subseteq Products \X Targets /\ notes' \in Notes
      /\ \/ End
         \/ /\ UNCHANGED <<op.product, op.kept, op.regs, op.kind>>
            /\ (op'.phase \in {"undo", "undoLinks"} /\ op.phase = "undo") \/ op'.phase \in {"rollback", "rollbackLinks"}
  BY <1>1, <1>2, <1>3, UndoWriteTypes
<1>5. op.phase = "undo" => journal[Me] # Absent
  BY <1>1 DEF OpKnows
<1>6. OpKnows'
  BY <1>1, <1>2, <1>4, <1>5, CalmKnows, EndTypes DEF OnTarget
<1>7. QED
  BY <1>2, <1>4, <1>6 DEF JournalTypes, OtherTypes

LEMMA UndoLinksTypes == ASSUME Types, UndoLinks \/ RollbackLinks PROVE Types'
<1> USE DEF Types
<1>1. op # Absent /\ Me \in Products /\ (UndoLinks => journal[Me] # Absent)
  BY DEF UndoLinks, RollbackLinks, Phase, OpTypes, OpKnows, Me
<1>2. UndoLinks => journal[Me] \in Journals(Me)
  BY <1>1 DEF JournalTypes
<1>3. UndoLinks => journal[Me].issued \subseteq Creds /\ journal[Me].removed \subseteq Targets
  BY <1>2 DEF Journals
<1>4. op.issued \subseteq Creds /\ op.removed \subseteq Targets
  BY <1>1 DEF OpTypes
<1>5. links' \in [Products -> SUBSET Targets]
  BY <1>1, <1>3, <1>4 DEF UndoLinks, RollbackLinks, OtherTypes
<1>6. \/ UndoLinks /\ op' = [op EXCEPT !.phase = "undoIssued", !.left = journal[Me].issued]
      \/ op' = [op EXCEPT !.phase = "revoke", !.left = op.issued]
  BY DEF UndoLinks, RollbackLinks
<1>7. /\ OpTypes' /\ UNCHANGED <<op.product, op.kept, op.regs, op.kind>>
      /\ (op'.phase = "undoIssued" /\ UndoLinks) \/ op'.phase = "revoke"
  BY <1>1, <1>3, <1>4, <1>6 DEF OpTypes, OpFields, Me, Phases
<1>8. UNCHANGED <<disk, conn, label, journal, notes, touched, spent>>
  BY DEF UndoLinks, RollbackLinks
<1>9. OpKnows'
  BY <1>1, <1>7, <1>8, CalmKnows DEF OnTarget
<1>10. QED
  BY <1>5, <1>7, <1>8, <1>9 DEF DiskTypes, JournalTypes, OtherTypes


LEMMA RevokeTypes == ASSUME Types, UndoIssued \/ Undone \/ Revoke PROVE Types'
<1> USE DEF Types
<1>1. op # Absent /\ op.phase \in {"undoIssued", "revoke"} /\ op.left \subseteq Creds
  BY DEF UndoIssued, Undone, Revoke, Phase, OpTypes
<1>2. CASE UndoIssued \/ Revoke
  <2>1. PICK c \in op.left :
             \/ /\ conn' = [conn EXCEPT ![c] = "revoked"]
                /\ op' = [op EXCEPT !.left = @ \ {c}] /\ UNCHANGED <<notes, spent>>
             \/ Spend("faults") /\ End /\ UNCHANGED conn
             \/ /\ Spend("faults") /\ UNCHANGED <<conn, notes>>
                /\ op' = [op EXCEPT !.left = @ \ {c}, !.failed = @ \cup {c}]
    BY <1>2 DEF UndoIssued, Revoke
  <2>2. UNCHANGED <<disk, links, label, journal, touched>>
    BY <1>2 DEF UndoIssued, Revoke
  <2>3. notes' \in Notes /\ conn' \in [Creds -> {"none", "live", "revoked"}] /\ (spent' = spent \/ Spend("faults"))
    BY <1>1, <2>1, EndTypes DEF OtherTypes
  <2>4. OpTypes' /\ OpKnows'
    <3>1. CASE End
      BY <3>1, EndTypes
    <3>2. CASE ~End
      <4>1. OpTypes' /\ UNCHANGED <<op.product, op.kept, op.regs, op.kind>> /\ op'.phase = op.phase
        <5>1. \/ op' = [op EXCEPT !.left = @ \ {c}]
              \/ op' = [op EXCEPT !.left = @ \ {c}, !.failed = @ \cup {c}]
          BY <2>1, <3>2
        <5>2. QED
          BY <1>1, <5>1, LeftTypes
      <4>2. op.phase = "undoIssued" => journal[Me] # Absent
        BY <1>1 DEF OpKnows
      <4>3. QED
        BY <1>1, <2>2, <4>1, <4>2, CalmKnows DEF OnTarget
    <3>3. QED
      BY <3>1, <3>2
  <2>5. QED
    BY <2>2, <2>3, <2>4, KeptTypes
<1>3. CASE Undone
  BY <1>1, <1>3, RecoveredTypes DEF Undone, DiskTypes
<1>4. QED
  BY <1>2, <1>3

LEMMA CleanupTypes == ASSUME Types, Cleanup \/ Done PROVE Types'
<1> USE DEF Types
<1>1. op # Absent /\ op.phase \in {"cleanup", "revoke"} /\ op.retired \subseteq Registrations
  BY DEF Cleanup, Done, Phase, OpTypes
<1>2. CASE Cleanup
  <2>1. PICK pairs \in SUBSET Leftovers :
             RemoveIfUnchanged(pairs) /\ (Spend("faults") \/ UNCHANGED spent)
    BY <1>2 DEF Cleanup
  <2>2. \A t \in Targets, x \in Texts : <<Config(t), x>> \notin Leftovers
    BY NotConfigs DEF Leftovers
  <2>3. DiskTypes'
    BY <2>1, <2>2, RemoveTypes
  <2>4. /\ op' = [op EXCEPT !.phase = "revoke", !.left = {reg.cred : reg \in op.retired}]
        /\ UNCHANGED <<links, conn, label, journal, notes, touched>>
    BY <1>2 DEF Cleanup
  <2>5. {reg.cred : reg \in op.retired} \subseteq Creds
    BY <1>1 DEF Registrations
  <2>6. OpTypes' /\ UNCHANGED <<op.product, op.kept, op.regs, op.kind>> /\ op'.phase = "revoke"
    BY <1>1, <2>4, <2>5 DEF OpTypes, OpFields, Me, Phases
  <2>7. OpKnows'
    BY <1>1, <2>6, CalmKnows DEF OnTarget
  <2>8. spent' \in [ops : Nat, crashes : Nat, faults : Nat, edits : Nat]
    BY <2>1, SpendTypes DEF OtherTypes
  <2>9. QED
    BY <2>3, <2>4, <2>6, <2>7, <2>8 DEF JournalTypes, OtherTypes
<1>3. CASE Done
  <2>1. OpTypes' /\ OpKnows' /\ notes' \in Notes
    BY <1>3, EndTypes, ReturnsTypes DEF Done, OpTypes, OpKnows, OtherTypes
  <2>2. JournalTypes'
    BY <1>3, SaveTypes DEF Done, ClearJournal, JournalTypes
  <2>3. QED
    BY <1>3, <2>1, <2>2 DEF Done, DiskTypes, OtherTypes
<1>4. QED
  BY <1>2, <1>3
LEMMA PlanTypes == ASSUME Types, Plan PROVE Types'
<1> USE DEF Types
<1>1. op # Absent /\ op.phase = "plan" /\ Me \in Products /\ op.todo \in Seq(Targets)
  BY DEF Plan, Phase, OpTypes, Me
<1>2. /\ UNCHANGED <<disk, links, conn, label, journal, notes, touched, spent>>
      /\ conn \in [Creds -> {"none", "live", "revoked"}]
  BY DEF Plan, OtherTypes
<1>3. CASE Conflict(Me, op.kind, ToSet(op.todo))
  <2>1. op' = [op EXCEPT !.phase = "rollback", !.seen = <<>>]
    BY <1>3 DEF Plan, Rollback
  <2>2. OpTypes' /\ UNCHANGED <<op.product, op.kept, op.regs, op.kind>> /\ op'.phase = "rollback"
    BY <1>1, <2>1 DEF OpTypes, OpFields, Me, Phases
  <2>3. OpKnows'
    BY <1>1, <2>2, CalmKnows DEF OnTarget
  <2>4. QED
    BY <1>2, <2>2, <2>3, KeptTypes
<1>4. CASE ~Conflict(Me, op.kind, ToSet(op.todo))
  <2> DEFINE kept == {t \in ToSet(op.todo) : Kept(Me, t, op.kind)}
             text == [t \in Targets |-> disk[Config(t)]]
  <2>1. op' = [op EXCEPT !.phase = IF op.kind = "uninstall" THEN "target" ELSE "skill",
                         !.text = text, !.regs = Regs(Me), !.found = disk[Manifest(Me)],
                         !.kept = kept]
    BY <1>4 DEF Plan
  <2>2. ToSet(op.todo) \subseteq Targets
    BY <1>1 DEF ToSet
  <2>3. /\ text \in [Targets -> Texts] /\ disk[Manifest(Me)] \in Tables \cup {Absent}
    BY <1>1, FilesOf, FitsEach DEF DiskTypes
  <2>4. Regs(Me) \in Tables
    BY <1>1, RegsTypes
  <2>5. ASSUME NEW t \in kept PROVE op.kind = "install" /\ Regs(Me)[t] # NoEntry
    <3>1. op.kind = "install" /\ EntryOf(Me, t) # NoEntry /\ t \in ToSet(op.todo)
      BY <2>5 DEF Kept
    <3>2. EntryOf(Me, t) \in {NoEntry, Regs(Me)[t]}
      BY <1>4, <3>1 DEF Conflict
    <3>3. QED
      BY <3>1, <3>2
  <2>6. kept \subseteq Targets
    BY <2>2
  <2> HIDE DEF kept, text
  <2>7. OpTypes'
    BY <1>1, <2>1, <2>3, <2>4, <2>6 DEF OpTypes, OpFields, Me, Phases, Works
  <2>8. /\ op'.phase \in {"target", "skill"} /\ op'.kept = kept /\ op'.regs = Regs(Me)
        /\ op'.kind = op.kind
    BY <1>1, <2>1 DEF OpTypes, OpFields
  <2>9. OpKnows'
    BY <2>5, <2>8 DEF OpKnows, IsOn, OnTarget
  <2>10. QED
    BY <1>2, <2>7, <2>9, KeptTypes
<1>5. QED
  BY <1>3, <1>4

\* The part of the plan that a step on one registration needs.
LEMMA OnTargetKnows ==
    ASSUME Types, op # Absent, NEW step \in OnTarget, op.phase = step
    PROVE  /\ Me \in Products /\ op.todo # <<>> /\ op.todo \in Seq(Targets) /\ Todo \in Targets
           /\ Tail(op.todo) \in Seq(Targets)
           /\ op.text[Todo] \in Texts /\ Previous \in Registrations \cup {NoEntry}
           /\ step \in {"issue", "secret", "newEntry", "registered"} => op.cred \in Creds
           /\ step \in {"refreshSecret", "refreshed"} =>
                Todo \in op.kept /\ op.kind = "install" /\ Previous \in Registrations
           /\ step \in {"removeEntry", "unlink", "dropLink"} => op.kept = {}
<1> USE DEF Types
<1>1. /\ op.todo # <<>> /\ op.todo \in Seq(Targets) /\ op.text \in [Targets -> Texts]
      /\ op.regs \in Tables /\ Me \in Products
  BY DEF OpTypes, OpKnows, IsOn, Me
<1>2. op.todo[1] \in Targets /\ Tail(op.todo) \in Seq(Targets)
  BY <1>1
<1>3. op.text[Todo] \in Texts /\ Previous \in Registrations \cup {NoEntry}
  BY <1>1, <1>2 DEF Todo, Tables, Previous
<1>4. step \in {"issue", "secret", "newEntry", "registered"} => op.cred \in Creds
  BY DEF OpKnows, IsOn
<1>5. step \in {"refreshSecret", "refreshed"} => Todo \in op.kept
  BY DEF OpKnows, IsOn
<1>6. Todo \in op.kept => op.kind = "install" /\ Previous # NoEntry
  BY DEF OpKnows, Previous
<1>7. step \in {"removeEntry", "unlink", "dropLink"} => op.kept = {}
  BY DEF OpKnows, IsOn
<1>8. QED
  BY <1>1, <1>2, <1>3, <1>4, <1>5, <1>6, <1>7 DEF Todo

\* The next step on the same registration.
LEMMA StepKnows ==
    ASSUME OpKnows, op # Absent, UNCHANGED <<op.product, op.kept, op.regs, op.kind>>,
           op'.todo = op.todo, op.todo # <<>>, op'.phase \in OnTarget,
           op'.phase \in {"issue", "secret", "newEntry", "registered"} => op'.cred \in Creds,
           op'.phase \in {"refreshSecret", "refreshed"} => Todo \in op.kept,
           op'.phase \in {"removeEntry", "unlink", "dropLink"} => op.kind = "uninstall"
    PROVE  OpKnows'
BY DEF OpKnows, IsOn, OnTarget, Me, Todo

LEMMA TargetTypes == ASSUME Types, Target PROVE Types'
<1> USE DEF Types
<1>1. op # Absent /\ op.phase = "target" /\ op.todo \in Seq(Targets)
  BY DEF Target, Phase, OpTypes
<1>2. /\ UNCHANGED <<disk, links, conn, label, journal, notes, touched, spent>>
      /\ conn \in [Creds -> {"none", "live", "revoked"}]
  BY DEF Target, OtherTypes
<1>3. CASE op' = [op EXCEPT !.todo = Tail(@)] /\ op.todo # <<>>
  <2>1. Tail(op.todo) \in Seq(Targets)
    BY <1>1, <1>3
  <2>2. OpTypes' /\ UNCHANGED <<op.product, op.kept, op.regs, op.kind>> /\ op'.phase = op.phase
    BY <1>1, <1>3, <2>1 DEF OpTypes, OpFields, Me
  <2>3. OpKnows'
    BY <1>1, <2>2, CalmKnows DEF OnTarget
  <2>4. QED
    BY <1>2, <2>2, <2>3, KeptTypes
<1>4. CASE Goto("manifest")
  <2>1. OpTypes' /\ UNCHANGED <<op.product, op.kept, op.regs, op.kind>> /\ op'.phase = "manifest"
    BY <1>1, <1>4 DEF OpTypes, OpFields, Me, Phases, Works, Goto
  <2>2. OpKnows'
    BY <1>1, <2>1, CalmKnows DEF OnTarget
  <2>3. QED
    BY <1>2, <2>1, <2>2, KeptTypes
<1>5. CASE /\ op.todo # <<>>
           /\ \/ op.kind # "uninstall" /\ (Goto("entry") \/ Goto("link"))
              \/ op.kind = "uninstall" /\ (Goto("removeEntry") \/ Goto("unlink"))
  <2>1. PICK s \in {"entry", "link", "removeEntry", "unlink"} :
             Goto(s) /\ (s \in {"removeEntry", "unlink"} => op.kind = "uninstall")
    BY <1>5
  <2>2. OpTypes' /\ UNCHANGED <<op.product, op.kept, op.regs, op.kind>> /\ op'.phase = s /\ op'.todo = op.todo
    BY <1>1, <2>1 DEF OpTypes, OpFields, Me, Phases, Works, Goto, OnTarget
  <2>3. OpKnows'
    BY <1>1, <1>5, <2>1, <2>2, StepKnows DEF OnTarget
  <2>4. QED
    BY <1>2, <2>2, <2>3, KeptTypes
<1>6. QED
  BY <1>1, <1>3, <1>4, <1>5 DEF Target, Phase

LEMMA ApplyTypes == ASSUME Types, Look \/ Apply PROVE Types'
<1> USE DEF Types
<1>1. /\ op # Absent /\ op.phase = "apply" /\ op.write \in Writings(Me)
      /\ op.then \in OnTarget \cup {"target", "commit"} /\ op.writes \in Seq(Writings(Me))
  BY DEF Look, Apply, Phase, OpTypes, OpKnows, Me
<1>2. UNCHANGED <<links, conn, label, journal, notes, spent>> /\ touched \subseteq Products \X Targets
  BY DEF Look, Apply, OtherTypes
<1>3. CASE Apply
  <2>1. /\ Put(op.write.file, op.write.after, {Me})
        /\ op' = [op EXCEPT !.phase = op.then, !.writes = Append(@, op.write), !.write = <<>>,
                            !.seen = <<>>]
    BY <1>3 DEF Apply
  <2>2. op.write.file \in Files /\ Fits(op.write.file, op.write.after)
    BY <1>1 DEF Writings
  <2>3. DiskTypes' /\ touched' \subseteq Products \X Targets
    BY <1>2, <2>1, <2>2, PutTypes
  <2>4. Append(op.writes, op.write) \in Seq(Writings(Me))
    BY <1>1
  <2>5. /\ OpTypes' /\ UNCHANGED <<op.product, op.kept, op.regs, op.kind>>
        /\ op'.phase = op.then /\ op'.todo = op.todo /\ op'.cred = op.cred
    BY <1>1, <2>1, <2>4 DEF OpTypes, OpFields, Me, Phases, Works
  <2>6. OpKnows'
    <3>1. CASE op.then \in OnTarget
      <4>1. /\ op.todo # <<>>
            /\ op.then \in {"issue", "secret", "newEntry", "registered"} => op.cred \in Creds
            /\ op.then \in {"refreshSecret", "refreshed"} => Todo \in op.kept
            /\ op.then \in {"removeEntry", "unlink", "dropLink"} => op.kind = "uninstall"
        BY <1>1, <3>1 DEF OpKnows, IsOn
      <4>2. QED
        BY <1>1, <2>5, <3>1, <4>1, StepKnows
    <3>2. CASE op.then \in {"target", "commit"}
      BY <1>1, <2>5, <3>2, CalmKnows DEF OnTarget
    <3>3. QED
      BY <1>1, <3>1, <3>2
  <2>7. QED
    BY <1>2, <2>3, <2>5, <2>6 DEF JournalTypes, OtherTypes
<1>4. CASE Look
  <2>1. UNCHANGED <<disk, touched>> /\ (op' = [op EXCEPT !.seen = <<disk[op.write.file]>>] \/ Rollback)
    BY <1>4 DEF Look
  <2>2. OpTypes' /\ OpKnows'
    <3>1. CASE Rollback
      <4>1. OpTypes' /\ UNCHANGED <<op.product, op.kept, op.regs, op.kind>> /\ op'.phase = "rollback"
        BY <1>1, <3>1 DEF Rollback, OpTypes, OpFields, Me, Phases
      <4>2. QED
        BY <1>1, <4>1, CalmKnows DEF OnTarget
    <3>2. CASE op' = [op EXCEPT !.seen = <<disk[op.write.file]>>]
      <4>1. OpTypes' /\ \A s \in OpFields \ {"seen"} : op'[s] = op[s]
        BY <1>1, <3>2 DEF OpTypes, OpFields, Me
      <4>2. /\ op'.phase = op.phase /\ op'.then = op.then /\ op'.write = op.write /\ op'.todo = op.todo
            /\ op'.cred = op.cred /\ op'.kept = op.kept /\ op'.kind = op.kind /\ op'.regs = op.regs
            /\ op'.product = op.product
        BY <4>1 DEF OpFields
      <4>3. QED
        BY <1>1, <1>2, <1>4, <4>1, <4>2 DEF OpKnows, IsOn, Me, Todo, Look
    <3>3. QED
      BY <2>1, <3>1, <3>2
  <2>3. QED
    BY <1>2, <2>1, <2>2 DEF DiskTypes, JournalTypes, OtherTypes
<1>5. QED
  BY <1>3, <1>4
\* What write() leads to: the same registration, the next one or the end.
LEMMA WriteKnows ==
    ASSUME Types, op # Absent, NEW f \in Files, NEW before, NEW after,
           Fits(f, before), Fits(f, after), NEW then \in OnTarget \cup {"target", "commit"},
           \A t \in Targets : f = Config(t) => OwnChange(Me, before, after),
           \A q \in Products : f \in {Manifest(q), Skill(q)} => q = Me,
           Write(f, before, after, then),
           then \in OnTarget => op.todo # <<>>,
           then \in {"issue", "secret", "newEntry", "registered"} => op.cred \in Creds,
           then \in {"refreshSecret", "refreshed"} => Todo \in op.kept,
           then \in {"removeEntry", "unlink", "dropLink"} => op.kind = "uninstall",
           UNCHANGED <<disk, links, conn, label, notes, touched, spent>>
    PROVE  Types'
<1> USE DEF Types
<1>1. OpTypes' /\ JournalTypes' /\ op'.write \in Writings(Me)'
  BY WriteTypes
<1>2. op' = [op EXCEPT !.phase = "apply", !.then = then,
                       !.write = [file |-> f, before |-> before, after |-> after]]
  BY DEF Write
<1>3. /\ UNCHANGED <<op.product, op.kept, op.regs, op.kind>> /\ op'.todo = op.todo
      /\ op'.cred = op.cred /\ op'.phase = "apply" /\ op'.then = then
  BY <1>2 DEF OpTypes, OpFields
<1>4. /\ op.kept # {} => op.kind = "install"
      /\ \A t \in op.kept : op.regs[t] # NoEntry
  BY DEF OpKnows
<1>5. OpKnows'
  BY <1>1, <1>3, <1>4 DEF OpKnows, IsOn, OnTarget, Todo
<1>6. DiskTypes' /\ OtherTypes'
  BY DEF DiskTypes, OtherTypes
<1>7. QED
  BY <1>1, <1>5, <1>6

\* Another registration of the product in the text of an agent.
LEMMA OwnEntry ==
    ASSUME NEW p \in Products, NEW text \in Texts, NEW entry \in Entries
    PROVE  /\ [text EXCEPT !.entry[p] = entry] \in Texts
           /\ OwnChange(p, text, [text EXCEPT !.entry[p] = entry])
           /\ [text EXCEPT !.entry[p] = entry].entry[p] = entry
BY DEF Texts, OwnChange

LEMMA EntryWritten ==
    ASSUME Types, op # Absent, Me \in Products, op.todo # <<>>, Todo \in Targets, op.text[Todo] \in Texts,
           NEW entry \in Entries, NEW then \in OnTarget, WriteEntry(entry, then),
           then \in {"issue", "secret", "newEntry", "registered"} => op.cred \in Creds,
           then \in {"refreshSecret", "refreshed"} => Todo \in op.kept,
           then \in {"removeEntry", "unlink", "dropLink"} => op.kind = "uninstall",
           UNCHANGED <<disk, links, conn, label, notes, touched, spent>>
    PROVE  Types'
<1> DEFINE text == op.text[Todo]
           after == [text EXCEPT !.entry[Me] = entry]
<1>1. after \in Texts /\ OwnChange(Me, text, after)
  BY OwnEntry
<1>2. Config(Todo) \in Files /\ Fits(Config(Todo), text) /\ Fits(Config(Todo), after)
  BY <1>1, FilesOf, FitsEach
<1>3. \A q \in Products : Config(Todo) \notin {Manifest(q), Skill(q)}
  BY FilesDiffer
<1>4. \A t \in Targets : Config(Todo) = Config(t) => OwnChange(Me, text, after)
  BY <1>1
<1>5. Write(Config(Todo), text, after, then)
  BY DEF WriteEntry
<1> HIDE DEF text, after
<1>6. QED
  BY <1>2, <1>3, <1>4, <1>5, WriteKnows

LEMMA NewEntries ==
    /\ NoEntry \in Entries
    /\ \A c \in Creds, v \in Nat : Entry(c, v) \in Entries /\ Entry(c, v) \in Registrations /\ Entry(c, v) # NoEntry
<1>1. None \notin Creds
  BY DEF None, Creds
<1>2. NoEntry \in Entries
  BY DEF NoEntry, Entry, Entries, None
<1>3. \A c \in Creds, v \in Nat : Entry(c, v) \in Entries /\ Entry(c, v) \in Registrations
  BY DEF Entry, Entries, Registrations
<1>4. \A c \in Creds, v \in Nat : Entry(c, v) # NoEntry
  BY <1>1 DEF Entry, NoEntry
<1>5. QED
  BY <1>2, <1>3, <1>4

LEMMA WriteSkillTypes == ASSUME Types, WriteSkill PROVE Types'
<1> USE DEF Types
<1>1. op # Absent /\ Me \in Products
  BY DEF WriteSkill, Phase, OpTypes, Me
<1>2. Skill(Me) \in Files /\ Fits(Skill(Me), disk[Skill(Me)]) /\ Fits(Skill(Me), <<"skill">>)
  BY <1>1, FilesOf, FitsEach DEF DiskTypes
<1>3. /\ \A t \in Targets : Skill(Me) # Config(t)
      /\ \A q \in Products : Skill(Me) \in {Manifest(q), Skill(q)} => q = Me
  BY FilesDiffer
<1>4. QED
  BY <1>1, <1>2, <1>3, WriteKnows DEF WriteSkill, OnTarget

LEMMA WriteManifestTypes == ASSUME Types, WriteManifest PROVE Types'
<1> USE DEF Types
<1>1. op # Absent /\ Me \in Products /\ op.found \in Tables \cup {Absent} /\ op.regs \in Tables
  BY DEF WriteManifest, Phase, OpTypes, Me
<1>2. Manifest(Me) \in Files /\ Fits(Manifest(Me), op.found) /\ Fits(Manifest(Me), op.regs)
  BY <1>1, FilesOf, FitsEach
<1>3. /\ \A t \in Targets : Manifest(Me) # Config(t)
      /\ \A q \in Products : Manifest(Me) \in {Manifest(q), Skill(q)} => q = Me
  BY FilesDiffer
<1>4. QED
  BY <1>1, <1>2, <1>3, WriteKnows DEF WriteManifest, OnTarget

LEMMA SecretWritten ==
    ASSUME Types, op # Absent, op.todo # <<>>, NEW c \in Creds, NEW before \in Seq(Nat), NEW v \in Nat,
           NEW then \in {"refreshed", "newEntry"}, Write(Secret(c), before, <<v>>, then),
           then = "newEntry" => op.cred \in Creds, then = "refreshed" => Todo \in op.kept,
           UNCHANGED <<disk, links, conn, label, notes, touched, spent>>
    PROVE  Types'
<1>1. <<v>> \in Seq(Nat)
  OBVIOUS
<1>2. Secret(c) \in Files /\ Fits(Secret(c), before) /\ Fits(Secret(c), <<v>>)
  BY <1>1, FilesOf, FitsEach
<1>3. /\ \A t \in Targets : Secret(c) # Config(t)
      /\ \A q \in Products : Secret(c) \notin {Manifest(q), Skill(q)}
  BY FilesDiffer
<1>4. then \in OnTarget
  BY DEF OnTarget
<1>5. QED
  BY <1>2, <1>3, <1>4, WriteKnows

LEMMA SecretTypes == ASSUME Types, RefreshSecret \/ WriteSecret PROVE Types'
<1> USE DEF Types
<1>1. CASE RefreshSecret
  <2>1. op # Absent /\ op.phase = "refreshSecret"
    BY <1>1 DEF RefreshSecret, Phase
  <2>2. op.todo # <<>> /\ Todo \in op.kept /\ Previous \in Registrations
    BY <2>1, OnTargetKnows DEF OnTarget
  <2>3. Previous.cred \in Creds /\ op.version \in Nat
    BY <2>1, <2>2 DEF Registrations, OpTypes
  <2>4. disk[Secret(Previous.cred)] \in Seq(Nat)
    BY <2>3, FilesOf, FitsEach DEF DiskTypes
  <2>5. QED
    BY <1>1, <2>1, <2>2, <2>3, <2>4, SecretWritten DEF RefreshSecret
<1>2. CASE WriteSecret
  <2>1. op # Absent /\ op.phase = "secret"
    BY <1>2 DEF WriteSecret, Phase
  <2>2. op.todo # <<>> /\ op.cred \in Creds /\ op.version \in Nat
    BY <2>1, OnTargetKnows DEF OnTarget, OpTypes
  <2>3. Absent \in Seq(Nat)
    BY DEF Absent
  <2>4. QED
    BY <1>2, <2>1, <2>2, <2>3, SecretWritten DEF WriteSecret
<1>3. QED
  BY <1>1, <1>2

LEMMA EntryTypes == ASSUME Types, WriteNewEntry \/ RemoveEntry PROVE Types'
<1> USE DEF Types
<1>1. CASE WriteNewEntry
  <2>1. op # Absent /\ op.phase = "newEntry" /\ op.version \in Nat
    BY <1>1 DEF WriteNewEntry, Phase, OpTypes
  <2>2. op.todo # <<>> /\ op.cred \in Creds /\ Me \in Products /\ Todo \in Targets /\ op.text[Todo] \in Texts
    BY <2>1, OnTargetKnows DEF OnTarget
  <2>3. Entry(op.cred, op.version) \in Entries
    BY <2>1, <2>2, NewEntries
  <2>4. QED
    BY <1>1, <2>1, <2>2, <2>3, EntryWritten DEF WriteNewEntry, OnTarget
<1>2. CASE RemoveEntry
  <2>1. op # Absent /\ op.phase = "removeEntry" /\ op.kind = "uninstall"
    BY <1>2 DEF RemoveEntry, Phase, OpKnows, IsOn, OnTarget
  <2>2. op.todo # <<>> /\ Me \in Products /\ Todo \in Targets /\ op.text[Todo] \in Texts
    BY <2>1, OnTargetKnows DEF OnTarget
  <2>3. QED
    BY <1>2, <2>1, <2>2, NewEntries, EntryWritten DEF RemoveEntry, OnTarget
<1>3. QED
  BY <1>1, <1>2

\* The operation is done with a registration.
LEMMA NextTargetTypes ==
    ASSUME Types, op # Absent, op.todo # <<>>, Tail(op.todo) \in Seq(Targets), Todo \in Targets,
           NEW entry \in Registrations \cup {NoEntry}, NEW retired \in SUBSET Registrations,
           entry = NoEntry => op.kept = {},
           op' = [op EXCEPT !.regs[Todo] = entry, !.retired = retired, !.todo = Tail(@), !.phase = "target"],
           UNCHANGED <<disk, links, conn, label, journal, notes, touched, spent>>
    PROVE  Types'
<1> USE DEF Types
<1>1. [op.regs EXCEPT ![Todo] = entry] \in Tables
  BY DEF OpTypes, Tables
<1>2. op' = [op EXCEPT !.regs = [op.regs EXCEPT ![Todo] = entry], !.retired = retired,
                       !.todo = Tail(@), !.phase = "target"]
  BY DEF OpTypes, OpFields
<1>3. OpTypes'
  BY <1>1, <1>2 DEF OpTypes, OpFields, Me, Phases, Works
<1>4. /\ UNCHANGED <<op.product, op.kept, op.kind>> /\ op'.phase = "target"
      /\ op'.regs = [op.regs EXCEPT ![Todo] = entry]
  BY <1>2 DEF OpTypes, OpFields
<1>5. /\ op.kept # {} => op.kind = "install"
      /\ \A t \in op.kept : op.regs[t] # NoEntry
      /\ op.kept \subseteq Targets /\ op.regs \in Tables
  BY DEF OpKnows, OpTypes
<1>6. \A t \in op.kept : op'.regs[t] # NoEntry
  BY <1>4, <1>5 DEF Tables
<1>7. OpKnows'
  BY <1>4, <1>5, <1>6 DEF OpKnows, IsOn, OnTarget
<1>8. conn' \in [Creds -> {"none", "live", "revoked"}]
  BY DEF OtherTypes
<1>9. QED
  BY <1>3, <1>7, <1>8, KeptTypes
LEMMA RegisteredTypes == ASSUME Types, Refreshed \/ AddRegistration \/ Unregister PROVE Types'
<1> USE DEF Types
<1>1. /\ op # Absent /\ op.phase \in {"refreshed", "registered", "unlink"} /\ op.version \in Nat
      /\ op.retired \subseteq Registrations
  BY DEF Refreshed, AddRegistration, Unregister, Phase, OpTypes
<1>2. /\ op.todo # <<>> /\ Tail(op.todo) \in Seq(Targets) /\ Todo \in Targets
      /\ Previous \in Registrations \cup {NoEntry}
      /\ op.phase = "registered" => op.cred \in Creds
      /\ op.phase = "refreshed" => Previous \in Registrations
      /\ op.phase = "unlink" => op.kept = {}
  BY <1>1, OnTargetKnows DEF OnTarget
<1>3. Retire \subseteq Registrations
  BY <1>1, <1>2 DEF Retire
<1>4. CASE Refreshed
  <2>1. Previous.cred \in Creds
    BY <1>1, <1>2, <1>4 DEF Refreshed, Phase, Registrations
  <2>2. Entry(Previous.cred, op.version) \in Registrations /\ Entry(Previous.cred, op.version) # NoEntry
    BY <1>1, <2>1, NewEntries
  <2>3. op' = [op EXCEPT !.regs[Todo] = Entry(Previous.cred, op.version), !.retired = op.retired,
                         !.todo = Tail(@), !.phase = "target"]
    BY <1>1, <1>4 DEF Refreshed, OpTypes, OpFields
  <2>4. UNCHANGED <<disk, links, conn, label, journal, notes, touched, spent>>
    BY <1>4 DEF Refreshed
  <2>5. QED
    BY <1>1, <1>2, <2>2, <2>3, <2>4, NextTargetTypes
<1>5. CASE AddRegistration
  <2>1. Entry(op.cred, op.version) \in Registrations /\ Entry(op.cred, op.version) # NoEntry
    BY <1>1, <1>2, <1>5, NewEntries DEF AddRegistration, Phase
  <2>2. op' = [op EXCEPT !.regs[Todo] = Entry(op.cred, op.version), !.retired = Retire,
                         !.todo = Tail(@), !.phase = "target"]
    BY <1>5 DEF AddRegistration
  <2>3. UNCHANGED <<disk, links, conn, label, journal, notes, touched, spent>>
    BY <1>5 DEF AddRegistration
  <2>4. QED
    BY <1>1, <1>2, <1>3, <2>1, <2>2, <2>3, NextTargetTypes
<1>6. CASE Unregister
  <2>1. op.kept = {}
    BY <1>1, <1>2, <1>6 DEF Unregister, Phase
  <2>2. op' = [op EXCEPT !.regs[Todo] = NoEntry, !.retired = Retire, !.todo = Tail(@),
                         !.phase = "target"]
    BY <1>6 DEF Unregister
  <2>3. UNCHANGED <<disk, links, conn, label, journal, notes, touched, spent>>
    BY <1>6 DEF Unregister
  <2>4. QED
    BY <1>1, <1>2, <1>3, <2>1, <2>2, <2>3, NextTargetTypes
<1>7. QED
  BY <1>4, <1>5, <1>6

\* A step on the same registration that the journal may note.
LEMMA NextStepTypes ==
    ASSUME Types, op # Absent, op.todo # <<>>,
           UNCHANGED <<op.product, op.kept, op.regs, op.kind>>, op'.todo = op.todo,
           OpTypes', op'.phase \in OnTarget,
           op'.phase \in {"issue", "secret", "newEntry", "registered"} => op'.cred \in Creds,
           op'.phase \in {"refreshSecret", "refreshed"} => Todo \in op.kept,
           op'.phase \in {"removeEntry", "unlink", "dropLink"} => op.kind = "uninstall",
           JournalTypes', links' \in [Products -> SUBSET Targets],
           conn' \in [Creds -> {"none", "live", "revoked"}],
           label' \in [Creds -> (Products \X Targets) \cup {Absent}],
           UNCHANGED <<disk, notes, touched, spent>>
    PROVE  Types'
<1> USE DEF Types
<1>1. OpKnows'
  BY StepKnows
<1>2. DiskTypes' /\ OtherTypes'
  BY DEF DiskTypes, OtherTypes
<1>3. QED
  BY <1>1, <1>2

LEMMA RecordTypes ==
    ASSUME Types, RecordLink \/ RecordIssuing \/ RecordIssued \/ RecordUnlink PROVE Types'
<1> USE DEF Types
<1>1. op # Absent /\ op.phase \in {"link", "entry", "issue", "unlink"} /\ MyJournal \in Journals(Me)
  BY MyJournalType DEF RecordLink, RecordIssuing, RecordIssued, RecordUnlink, Phase
<1>2. /\ op.todo # <<>> /\ Todo \in Targets /\ (op.phase = "issue" => op.cred \in Creds)
      /\ op.phase = "unlink" => op.kind = "uninstall"
  BY <1>1, OnTargetKnows DEF OnTarget, OpKnows, IsOn
<1>3. UNCHANGED <<disk, links, conn, label, notes, touched, spent>>
  BY DEF RecordLink, RecordIssuing, RecordIssued, RecordUnlink
<1>4. PICK j \in Journals(Me) : Save(j)
  <2>1. /\ [MyJournal EXCEPT !.linked = @ \cup {Todo}] \in Journals(Me)
        /\ [MyJournal EXCEPT !.issuing = @ \cup {Todo}] \in Journals(Me)
        /\ [MyJournal EXCEPT !.removed = @ \cup {Todo}] \in Journals(Me)
    BY <1>1, <1>2 DEF Journals
  <2>2. op.phase = "issue" =>
          [MyJournal EXCEPT !.issuing = @ \ {Todo}, !.issued = @ \cup {op.cred}] \in Journals(Me)
    BY <1>1, <1>2 DEF Journals
  <2>3. QED
    BY <2>1, <2>2 DEF RecordLink, RecordIssuing, RecordIssued, RecordUnlink, Phase
<1>5. JournalTypes'
  BY <1>4, SaveTypes
<1>6. PICK s \in {"makeLink", "create", "secret", "dropLink"} :
           Goto(s) /\ (s = "secret" => op.phase = "issue") /\ (s = "dropLink" => op.phase = "unlink")
  BY DEF RecordLink, RecordIssuing, RecordIssued, RecordUnlink, Phase
<1>7. /\ OpTypes' /\ UNCHANGED <<op.product, op.kept, op.regs, op.kind>>
      /\ op'.phase = s /\ op'.todo = op.todo /\ op'.cred = op.cred
  BY <1>1, <1>6 DEF OpTypes, OpFields, Me, Phases, Works, Goto, OnTarget
<1>8. s \in OnTarget
  BY DEF OnTarget
<1>9. /\ conn' \in [Creds -> {"none", "live", "revoked"}] /\ links' \in [Products -> SUBSET Targets]
      /\ label' \in [Creds -> (Products \X Targets) \cup {Absent}]
  BY <1>3 DEF OtherTypes
<1>10. QED
  BY <1>1, <1>2, <1>3, <1>5, <1>6, <1>7, <1>8, <1>9, NextStepTypes

LEMMA LinkTypes == ASSUME Types, MakeLink \/ DropLink PROVE Types'
<1> USE DEF Types
<1>1. op # Absent /\ op.phase \in {"makeLink", "dropLink"} /\ op.linked \subseteq Targets /\ op.removed \subseteq Targets
  BY DEF MakeLink, DropLink, Phase, OpTypes
<1>2. /\ Me \in Products /\ op.todo # <<>> /\ Todo \in Targets
      /\ op.phase = "dropLink" => op.kind = "uninstall"
  BY <1>1, OnTargetKnows DEF OnTarget, OpKnows, IsOn
<1>3. UNCHANGED <<disk, conn, label, journal, notes, touched, spent>>
  BY DEF MakeLink, DropLink
<1>4. links' \in [Products -> SUBSET Targets]
  BY <1>2 DEF MakeLink, DropLink, OtherTypes
<1>5. \/ op' = [op EXCEPT !.phase = "entry", !.linked = @ \cup {Todo}]
      \/ op' = [op EXCEPT !.phase = "unlink", !.removed = @ \cup {Todo}] /\ op.phase = "dropLink"
  BY DEF MakeLink, DropLink, Phase
<1>6. /\ OpTypes' /\ UNCHANGED <<op.product, op.kept, op.regs, op.kind>>
      /\ op'.phase = "entry" \/ (op'.phase = "unlink" /\ op.phase = "dropLink")
      /\ op'.todo = op.todo /\ op'.cred = op.cred
  <2>1. CASE op' = [op EXCEPT !.phase = "entry", !.linked = @ \cup {Todo}]
    BY <1>1, <1>2, <2>1 DEF OpTypes, OpFields, Me, Phases, Works, OnTarget
  <2>2. CASE op' = [op EXCEPT !.phase = "unlink", !.removed = @ \cup {Todo}] /\ op.phase = "dropLink"
    BY <1>1, <1>2, <2>2 DEF OpTypes, OpFields, Me, Phases, Works, OnTarget
  <2>3. QED
    BY <1>5, <2>1, <2>2
<1>7. op'.phase \in OnTarget
  BY <1>6 DEF OnTarget
<1>8. JournalTypes' /\ conn' \in [Creds -> {"none", "live", "revoked"}] /\ label' \in [Creds -> (Products \X Targets) \cup {Absent}]
  BY <1>3 DEF OtherTypes, JournalTypes
<1>9. QED
  BY <1>1, <1>2, <1>3, <1>4, <1>6, <1>7, <1>8, NextStepTypes

LEMMA RefreshTypes == ASSUME Types, Refresh PROVE Types'
<1> USE DEF Types
<1>1. op # Absent /\ op.phase = "entry" /\ op.version \in Nat /\ Todo \in op.kept
  BY DEF Refresh, Phase, OpTypes
<1>2. /\ Me \in Products /\ op.todo # <<>> /\ Tail(op.todo) \in Seq(Targets) /\ Todo \in Targets
      /\ op.text[Todo] \in Texts /\ Previous \in Registrations \cup {NoEntry}
  BY <1>1, OnTargetKnows DEF OnTarget
<1>3. Previous # NoEntry
  BY <1>1 DEF OpKnows, Previous
<1>4. UNCHANGED <<disk, links, conn, label, notes, touched, spent>>
  BY DEF Refresh
<1>5. CASE Previous.version = op.version
  <2>1. op' = [op EXCEPT !.todo = Tail(@), !.phase = "target"] /\ UNCHANGED journal
    BY <1>5 DEF Refresh
  <2>2. OpTypes' /\ UNCHANGED <<op.product, op.kept, op.regs, op.kind>> /\ op'.phase = "target"
    BY <1>1, <1>2, <2>1 DEF OpTypes, OpFields, Me, Phases, Works
  <2>3. OpKnows'
    BY <1>1, <2>2, CalmKnows DEF OnTarget
  <2>4. conn' \in [Creds -> {"none", "live", "revoked"}]
    BY <1>4 DEF OtherTypes
  <2>5. QED
    BY <1>4, <2>1, <2>2, <2>3, <2>4, KeptTypes
<1>6. CASE Previous.version # op.version
  <2>1. Previous.cred \in Creds
    BY <1>2, <1>3 DEF Registrations
  <2>2. Entry(Previous.cred, op.version) \in Entries
    BY <1>1, <2>1, NewEntries
  <2>3. WriteEntry(Entry(Previous.cred, op.version), "refreshSecret")
    BY <1>6 DEF Refresh
  <2>4. QED
    BY <1>1, <1>2, <1>4, <2>2, <2>3, EntryWritten DEF OnTarget
<1>7. QED
  BY <1>5, <1>6

LEMMA CreateTypes == ASSUME Types, Create PROVE Types'
<1> USE DEF Types
<1>1. op # Absent /\ op.phase = "create" /\ op.issued \subseteq Creds
  BY DEF Create, Phase, OpTypes
<1>2. Me \in Products /\ op.todo # <<>> /\ Todo \in Targets
  BY <1>1, OnTargetKnows DEF OnTarget
<1>3. PICK c \in Creds :
             /\ conn' = [conn EXCEPT ![c] = "live"] /\ label' = [label EXCEPT ![c] = <<Me, Todo>>]
             /\ op' = [op EXCEPT !.phase = "issue", !.cred = c, !.issued = @ \cup {c}]
  BY DEF Create
<1>4. c \in Creds
  BY <1>3
<1>5. /\ OpTypes' /\ UNCHANGED <<op.product, op.kept, op.regs, op.kind>>
      /\ op'.phase = "issue" /\ op'.todo = op.todo /\ op'.cred = c
  BY <1>1, <1>3, <1>4 DEF OpTypes, OpFields, Me, Phases, Works, OnTarget
<1>6. /\ conn' \in [Creds -> {"none", "live", "revoked"}]
      /\ label' \in [Creds -> (Products \X Targets) \cup {Absent}]
  BY <1>2, <1>3, <1>4 DEF OtherTypes
<1>7. UNCHANGED <<disk, links, journal, notes, touched, spent>>
  BY DEF Create
<1>8. JournalTypes' /\ links' \in [Products -> SUBSET Targets]
  BY <1>7 DEF JournalTypes, OtherTypes
<1>9. QED
  BY <1>1, <1>2, <1>4, <1>5, <1>6, <1>7, <1>8, NextStepTypes DEF OnTarget

LEMMA CommitTypes == ASSUME Types, Commit PROVE Types'
<1> USE DEF Types
<1>1. op # Absent /\ op.phase = "commit" /\ op.retired \subseteq Registrations /\ MyJournal \in Journals(Me)
  BY MyJournalType DEF Commit, Phase, OpTypes
<1>2. UNCHANGED <<disk, links, conn, label, notes, touched, spent>>
  BY DEF Commit
<1> DEFINE gone == IF NoneLeft THEN {<<Skill(Me), <<"skill">>>>} ELSE {}
<1>3. Save([MyJournal EXCEPT !.retired = op.retired, !.committed = TRUE, !.cleanup = gone])
  BY DEF Commit
<1>4. gone \in SUBSET {<<Skill(Me), <<"skill">>>>}
  OBVIOUS
<1> HIDE DEF gone
<1>5. [MyJournal EXCEPT !.retired = op.retired, !.committed = TRUE, !.cleanup = gone] \in Journals(Me)
  BY <1>1, <1>4 DEF Journals
<1>6. JournalTypes'
  BY <1>3, <1>5, SaveTypes
<1>7. OpTypes' /\ UNCHANGED <<op.product, op.kept, op.regs, op.kind>> /\ op'.phase = "cleanup"
  BY <1>1 DEF Commit, OpTypes, OpFields, Me, Phases, Goto
<1>8. OpKnows'
  BY <1>1, <1>7, CalmKnows DEF OnTarget
<1>9. QED
  BY <1>2, <1>6, <1>7, <1>8 DEF DiskTypes, OtherTypes

LEMMA FailTypes == ASSUME Types, Fail \/ Crash PROVE Types'
<1> USE DEF Types
<1>1. op # Absent /\ UNCHANGED <<disk, links, conn, label, journal, touched>>
  BY DEF Fail, Crash
<1>2. Spend("faults") \/ Spend("crashes")
  BY DEF Fail, Crash
<1>3. (Rollback /\ UNCHANGED notes) \/ End
  BY DEF Fail, Crash
<1>4. OpTypes' /\ OpKnows' /\ (UNCHANGED notes \/ notes' \in Notes)
  <2>1. CASE End
    BY <2>1, EndTypes
  <2>2. CASE Rollback /\ UNCHANGED notes
    <3>1. OpTypes' /\ UNCHANGED <<op.product, op.kept, op.regs, op.kind>> /\ op'.phase = "rollback"
      BY <1>1, <2>2 DEF Rollback, OpTypes, OpFields, Me, Phases
    <3>2. OpKnows'
      BY <1>1, <3>1, CalmKnows DEF OnTarget
    <3>3. QED
      BY <2>2, <3>1, <3>2
  <2>3. QED
    BY <1>3, <2>1, <2>2
<1>5. conn' \in [Creds -> {"none", "live", "revoked"}]
  BY <1>1 DEF OtherTypes
<1>6. QED
  BY <1>1, <1>2, <1>4, <1>5, KeptTypes

LEMMA UserEditTypes == ASSUME Types, NEW t \in Targets, UserEdit(t) PROVE Types'
<1> USE DEF Types
<1>1. disk[Config(t)] \in Texts /\ Config(t) \in Files
  BY FilesOf, FitsEach DEF DiskTypes
<1>2. touched \subseteq Products \X Targets
  BY DEF OtherTypes
<1>3. DiskTypes' /\ touched' \subseteq Products \X Targets
  <2>1. CASE Put(Config(t), [disk[Config(t)] EXCEPT !.user = @ + 1], {})
    <3>1. [disk[Config(t)] EXCEPT !.user = @ + 1] \in Texts
      BY <1>1 DEF Texts
    <3>2. Fits(Config(t), [disk[Config(t)] EXCEPT !.user = @ + 1])
      BY <3>1, FitsEach
    <3>3. QED
      BY <1>1, <1>2, <2>1, <3>2, PutTypes
  <2>2. ASSUME NEW p \in Products, NEW entry \in {NoEntry, [EntryOf(p, t) EXCEPT !.edited = TRUE]},
               disk' = [disk EXCEPT ![Config(t)].entry[p] = entry],
               touched' = touched \cup {<<p, t>>} \cup Touches(Config(t), {})
        PROVE  DiskTypes' /\ touched' \subseteq Products \X Targets
    <3>1. EntryOf(p, t) \in Entries
      BY <1>1 DEF EntryOf, Texts
    <3>2. [EntryOf(p, t) EXCEPT !.edited = TRUE] \in Entries
      BY <3>1 DEF Entries
    <3>3. entry \in Entries
      BY <2>2, <3>2, NewEntries
    <3>4. [disk[Config(t)] EXCEPT !.entry[p] = entry] \in Texts
      BY <1>1, <3>3, OwnEntry
    <3>5. Fits(Config(t), [disk[Config(t)] EXCEPT !.entry[p] = entry])
      BY <3>4, FitsEach
    <3>6. disk' = [disk EXCEPT ![Config(t)] = [disk[Config(t)] EXCEPT !.entry[p] = entry]]
      BY <1>1, <2>2 DEF DiskTypes
    <3>7. DiskTypes'
      BY <1>1, <3>5, <3>6 DEF DiskTypes
    <3>8. Touches(Config(t), {}) \subseteq Products \X Targets
      BY DEF Touches
    <3>9. QED
      BY <1>2, <2>2, <3>7, <3>8
  <2>3. QED
    BY <2>1, <2>2 DEF UserEdit
<1>4. UNCHANGED <<links, conn, label, journal, op, notes>> /\ Spend("edits")
  BY DEF UserEdit
<1>5. spent' \in [ops : Nat, crashes : Nat, faults : Nat, edits : Nat]
  BY <1>4, SpendTypes DEF OtherTypes
<1>6. JournalTypes' /\ OpTypes' /\ OpKnows'
  BY <1>4 DEF JournalTypes, OpTypes, OpKnows, Me, IsOn, Todo
<1>7. QED
  BY <1>3, <1>4, <1>5, <1>6 DEF OtherTypes

LEMMA NextAgentTypes == Types /\ [AgentNext]_agentVars => Types'
<1> SUFFICES ASSUME Types, [AgentNext]_agentVars PROVE Types'
  OBVIOUS
<1>1. CASE UNCHANGED agentVars
  BY <1>1 DEF agentVars, Types, DiskTypes, JournalTypes, OpTypes, OpKnows, OtherTypes, Me, IsOn, Todo
<1>2. CASE \E p \in Products, r \in Commands : Start(p, r.kind, r.version, r.todo)
  BY <1>2, StartTypes
<1>3. CASE Recovery
  BY <1>3, RecoverTypes, FinishTypes, UndoTypes, UndoLinksTypes, RevokeTypes DEF Recovery
<1>4. CASE Plan \/ Target \/ Look \/ Apply
  BY <1>4, PlanTypes, TargetTypes, ApplyTypes
<1>5. CASE Install
  BY <1>5, WriteSkillTypes, RecordTypes, LinkTypes, RefreshTypes, SecretTypes, RegisteredTypes, CreateTypes,
     EntryTypes DEF Install
<1>6. CASE Uninstall
  BY <1>6, EntryTypes, RecordTypes, LinkTypes, RegisteredTypes DEF Uninstall
<1>7. CASE Ending
  BY <1>7, WriteManifestTypes, CommitTypes, CleanupTypes, RevokeTypes, UndoTypes, UndoLinksTypes DEF Ending
<1>8. CASE Fail \/ Crash \/ \E t \in Targets : UserEdit(t)
  BY <1>8, FailTypes, UserEditTypes
<1>9. QED
  BY <1>1, <1>2, <1>3, <1>4, <1>5, <1>6, <1>7, <1>8 DEF AgentNext
\* The types of what operations, journals, files and credentials hold: a journal and an operation
\* write only what is theirs.
THEOREM AgentTypeCorrect == AgentSpec => []Types
BY InitAgentTypes, NextAgentTypes, PTL DEF AgentSpec

\* What an operation saw in the file it is about to replace is still there, but for what somebody
\* else changed in a configuration.
Faced == IF op.phase = "apply" THEN op.write.before ELSE Written.after
MayLook == op.phase = "apply" \/ (op.phase \in {"undo", "rollback"} /\ op.writes # <<>>)
StillIn(f, y) ==
    /\ (\A t \in Targets : f # Config(t)) => disk[f] = y
    /\ \A t \in Targets : f = Config(t) =>
         \A q \in Products : <<q, t>> \notin touched => EntryOf(q, t) = y.entry[q]
Looked == op # Absent /\ op.seen # <<>> => MayLook /\ op.seen = <<Faced>> /\ StillIn(Facing, Faced)

LEMMA LooksAgain ==
    ASSUME Types, Looked, Look \/ Undo \/ RollbackWrite
    PROVE  Looked'
<1> USE DEF Types
<1>1. op # Absent /\ op.phase \in {"apply", "undo", "rollback"} /\ DOMAIN op = OpFields
  BY DEF Look, Undo, RollbackWrite, Phase, OpTypes
<1>2. CASE Look
  <2>1. disk' = disk /\ op.phase = "apply"
    BY <1>2 DEF Look, Phase
  <2>2. CASE Rollback
    BY <1>1, <2>2 DEF Rollback, OpFields, Looked
  <2>3. CASE ~Rollback
    BY <1>1, <1>2, <2>1, <2>3 DEF Look, OpFields, Looked, MayLook, StillIn, Facing, Faced, EntryOf
  <2>4. QED
    BY <2>2, <2>3
<1>3. CASE CompareWritten /\ op.phase # "apply"
  <2>1. op.seen = <<>> /\ op.writes # <<>> /\ disk' = disk
    BY <1>3 DEF CompareWritten
  <2>2. CASE disk[Written.file] = Written.after
    <3>1. op' = [op EXCEPT !.seen = <<disk[Written.file]>>]
      BY <1>3, <2>2 DEF CompareWritten
    <3>2. op'.writes = op.writes /\ op'.phase = op.phase /\ op'.seen = <<Written.after>>
      BY <1>1, <2>2, <3>1 DEF OpFields
    <3>3. QED
      BY <1>1, <1>3, <2>1, <2>2, <3>2 DEF Looked, MayLook, StillIn, Facing, Faced, Written, EntryOf
  <2>3. CASE disk[Written.file] # Written.after
    BY <1>1, <1>3, <2>1, <2>3 DEF CompareWritten, OpFields, Looked
  <2>4. QED
    BY <2>2, <2>3
<1>4. CASE PutBefore
  BY <1>1, <1>4 DEF PutBefore, End, OpFields, Looked
<1>5. CASE op.writes = <<>> /\ op.phase # "apply" /\ \E last : Goto(last)
  BY <1>1, <1>5 DEF Goto, OpFields, Looked, MayLook
<1>6. QED
  BY <1>2, <1>3, <1>4, <1>5 DEF Undo, RollbackWrite, UndoWrite, Phase

LEMMA EditLooks == ASSUME Types, Looked, NEW t \in Targets, UserEdit(t) PROVE Looked'
<1> SUFFICES ASSUME op # Absent, op.seen # <<>> PROVE Looked'
  BY DEF UserEdit, Looked
<1>1. op' = op /\ MayLook /\ op.seen = <<Faced>> /\ StillIn(Facing, Faced) /\ touched \subseteq touched'
  BY DEF UserEdit, Looked, Put
<1>2. MayLook' /\ op'.seen = <<Faced>>' /\ Facing' = Facing /\ Faced' = Faced
  BY <1>1 DEF MayLook, Facing, Faced, Written
<1>3. DOMAIN disk = Files /\ disk[Config(t)] \in Texts
  BY FilesOf, FitsEach DEF Types, DiskTypes
<1>4. /\ \A f : f # Config(t) => disk'[f] = disk[f]
      /\ \A q \in Products : <<q, t>> \notin touched' => disk'[Config(t)].entry[q] = disk[Config(t)].entry[q]
  <2>1. CASE Put(Config(t), [disk[Config(t)] EXCEPT !.user = @ + 1], {})
    BY <1>3, <2>1 DEF Put, Texts, FilesOf
  <2>2. CASE ~Put(Config(t), [disk[Config(t)] EXCEPT !.user = @ + 1], {})
    <3>1. PICK p \in Products : /\ \E entry : disk' = [disk EXCEPT ![Config(t)].entry[p] = entry]
                               /\ <<p, t>> \in touched'
      BY <2>2 DEF UserEdit
    <3>2. QED
      BY <1>3, <3>1 DEF Texts
  <2>3. QED
    BY <2>1, <2>2
<1>5. StillIn(Facing, Faced)'
  <2>1. CASE Facing = Config(t)
    <3>1. \A u \in Targets : Facing = Config(u) => u = t
      BY <2>1, FilesDiffer
    <3>2. \A q \in Products : <<q, t>> \notin touched' => disk'[Config(t)].entry[q] = Faced.entry[q]
      BY <1>1, <1>4, <2>1 DEF StillIn, EntryOf
    <3>3. QED
      BY <1>2, <2>1, <3>1, <3>2 DEF StillIn, EntryOf
  <2>2. CASE Facing # Config(t)
    BY <1>1, <1>2, <1>4, <2>2 DEF StillIn, EntryOf
  <2>3. QED
    BY <2>1, <2>2
<1>6. QED
  BY <1>2, <1>5 DEF Looked

LEMMA NextLooked == Types /\ Looked /\ [AgentNext]_agentVars => Looked'
<1> SUFFICES ASSUME Types, Looked, [AgentNext]_agentVars PROVE Looked'
  OBVIOUS
<1> USE DEF Phase, Goto, End, OpFields
<1>1. ASSUME op # Absent, op.phase \notin {"apply", "undo", "rollback"},
             op' = Absent \/ op'.seen = op.seen
      PROVE  Looked'
  BY <1>1 DEF Looked, MayLook
<1>2. op # Absent => DOMAIN op = OpFields
  BY DEF Types, OpTypes
<1>3. CASE UNCHANGED agentVars
  <2>1. op' = op /\ disk' = disk /\ touched' = touched
    BY <1>3 DEF agentVars
  <2>2. MayLook' = MayLook /\ Facing' = Facing /\ Faced' = Faced
    BY <2>1 DEF MayLook, Facing, Faced, Written
  <2>3. StillIn(Facing, Faced)' <=> StillIn(Facing, Faced)
    BY <2>1, <2>2 DEF StillIn, EntryOf
  <2>4. QED
    BY <2>1, <2>2, <2>3 DEF Looked
<1>4. CASE \E p \in Products, r \in Commands : Start(p, r.kind, r.version, r.todo)
  <2>1. PICK p \in Products, r \in Commands : Start(p, r.kind, r.version, r.todo)
    BY <1>4
  <2>2. op'.seen = <<>>
    BY <2>1 DEF Start
  <2>3. QED
    BY <2>2 DEF Looked
<1>5. CASE Look \/ Undo \/ RollbackWrite
  BY <1>5, LooksAgain
<1>6. CASE Apply \/ Fail \/ Crash
  BY <1>2, <1>6 DEF Apply, Fail, Crash, Rollback, Looked
<1>7. CASE Recover \/ FinishOne \/ Finished \/ UndoLinks \/ UndoIssued \/ Undone
  BY <1>1, <1>2, <1>7 DEF Recover, FinishOne, Finished, UndoLinks, UndoIssued, Undone, Recovered
<1>8. CASE Plan \/ Target
  <2>1. CASE Rollback
    BY <1>2, <1>8, <2>1 DEF Plan, Target, Rollback, Looked
  <2>2. CASE ~Rollback
    BY <1>1, <1>2, <1>8, <2>2 DEF Plan, Target
  <2>3. QED
    BY <2>1, <2>2
<1>9. CASE Install
  BY <1>1, <1>2, <1>9 DEF Install, WriteSkill, RecordLink, MakeLink, Refresh, RefreshSecret, Refreshed,
     RecordIssuing, Create, RecordIssued, WriteSecret, WriteNewEntry, AddRegistration, Write, WriteEntry
<1>10. CASE Uninstall
  BY <1>1, <1>2, <1>10 DEF Uninstall, RemoveEntry, RecordUnlink, DropLink, Unregister, Write, WriteEntry
<1>11. CASE WriteManifest \/ Commit \/ Cleanup \/ Revoke \/ Done \/ RollbackLinks
  BY <1>1, <1>2, <1>11 DEF WriteManifest, Commit, Cleanup, Revoke, Done, RollbackLinks, Write
<1>12. CASE \E t \in Targets : UserEdit(t)
  BY <1>12, EditLooks
<1>13. QED
  BY <1>3, <1>4, <1>5, <1>6, <1>7, <1>8, <1>9, <1>10, <1>11, <1>12 DEF AgentNext, Recovery, Ending

LEMMA AlwaysLooked == AgentSpec => []Looked
<1>1. AgentInit => Looked
  BY DEF AgentInit, Looked
<1>2. QED
  BY <1>1, NextLooked, AgentTypeCorrect, PTL DEF AgentSpec

\* What a step of an operation does to one configuration file.
TextKept(t) ==
    /\ disk'[Config(t)].user >= disk[Config(t)].user
    /\ \A p \in Products : disk'[Config(t)].entry[p] # EntryOf(p, t) => op # Absent /\ p = Me

LEMMA SameText ==
    ASSUME Types, NEW t \in Targets, disk'[Config(t)] = disk[Config(t)]
    PROVE  TextKept(t)
<1>1. disk[Config(t)] \in Texts
  BY FilesOf, FitsEach DEF Types, DiskTypes
<1>2. disk[Config(t)].user \in Nat
  BY <1>1 DEF Texts
<1>3. QED
  BY <1>2 DEF TextKept, EntryOf

LEMMA OwnText ==
    ASSUME Types, NEW t \in Targets, op # Absent, disk'[Config(t)].user = disk[Config(t)].user,
           \A q \in Products : q # Me => disk'[Config(t)].entry[q] = disk[Config(t)].entry[q]
    PROVE  TextKept(t)
<1>1. disk[Config(t)] \in Texts
  BY FilesOf, FitsEach DEF Types, DiskTypes
<1>2. disk[Config(t)].user \in Nat
  BY <1>1 DEF Texts
<1>3. QED
  BY <1>2 DEF TextKept, EntryOf

\* A file that holds one side of an own writing may be given the other side.
LEMMA OwnWritten ==
    ASSUME Types, NEW t \in Targets, op # Absent, NEW w \in Writings(Me), NEW x, NEW by,
           w.file = Config(t) => \/ disk[w.file] = w.before /\ x = w.after
                                 \/ disk[w.file] = w.after /\ x = w.before,
           Put(w.file, x, by)
    PROVE  TextKept(t)
<1>1. disk' = [disk EXCEPT ![w.file] = x] /\ Config(t) \in DOMAIN disk
  BY FilesOf DEF Put, Types, DiskTypes
<1>2. CASE w.file # Config(t)
  BY <1>1, <1>2, SameText
<1>3. CASE w.file = Config(t)
  <2>1. disk'[Config(t)] = x
    BY <1>1, <1>3
  <2>2. OwnChange(Me, w.before, w.after)
    BY <1>3 DEF Writings
  <2>3. QED
    BY <1>3, <2>1, <2>2, OwnText DEF OwnChange
<1>4. QED
  BY <1>2, <1>3

LEMMA StepKeepsTexts ==
    ASSUME Types, Looked, [AgentNext]_agentVars, op' # op, NEW t \in Targets, ~Overtaken(t)
    PROVE  TextKept(t)
<1> USE DEF Types
<1>1. CASE Undo \/ RollbackWrite
  <2>1. op # Absent /\ op.phase # "apply" /\ op.writes \in Seq(Writings(Me))
    BY <1>1 DEF Undo, RollbackWrite, Phase, OpTypes, Me
  <2>2. CASE disk' = disk
    BY <2>2, SameText
  <2>3. CASE /\ op.writes # <<>> /\ op.seen # <<>>
             /\ Put(Written.file, Written.before, {Me})
    <3>1. Written \in Writings(Me)
      BY <2>1, <2>3, LastOf DEF Written
    <3>2. Written.file = Config(t) => disk[Written.file] = Written.after
      BY <2>1, <2>3 DEF Looked, Overtaken, Facing, Faced
    <3>3. QED
      BY <2>1, <2>3, <3>1, <3>2, OwnWritten
  <2>4. QED
    BY <1>1, <2>2, <2>3 DEF Undo, RollbackWrite, UndoWrite, CompareWritten, PutBefore
<1>2. CASE Apply
  <2>1. /\ op # Absent /\ op.phase = "apply" /\ op.seen # <<>> /\ op.write \in Writings(Me)
        /\ Put(op.write.file, op.write.after, {Me})
    BY <1>2 DEF Apply, Phase, OpKnows
  <2>2. op.write.file = Config(t) => disk[op.write.file] = op.write.before
    BY <2>1 DEF Looked, Overtaken, Facing, Faced
  <2>3. QED
    BY <2>1, <2>2, OwnWritten
<1>3. CASE FinishOne \/ Finished \/ Cleanup
  <2>1. disk' = disk \/ \E pairs : RemoveIfUnchanged(pairs) /\ \A x \in Texts : <<Config(t), x>> \notin pairs
    <3>1. CASE FinishOne
      BY <3>1, NotConfigs DEF FinishOne
    <3>2. CASE Cleanup
      <4>1. \A x \in Texts : <<Config(t), x>> \notin Leftovers
        BY NotConfigs DEF Leftovers
      <4>2. \E pairs \in SUBSET Leftovers : RemoveIfUnchanged(pairs)
        BY <3>2 DEF Cleanup
      <4>3. QED
        BY <4>1, <4>2
    <3>3. CASE Finished
      <4>1. journal[Me] \in Journals(Me)
        BY <3>3 DEF Finished, Phase, OpTypes, OpKnows, JournalTypes, Me
      <4>2. journal[Me].cleanup \subseteq {<<Skill(Me), <<"skill">>>>}
        BY <4>1 DEF Journals
      <4>3. \A x \in Texts : <<Config(t), x>> \notin journal[Me].cleanup
        BY <4>2, NotConfigs
      <4>4. QED
        BY <3>3, <4>3 DEF Finished
    <3>4. QED
      BY <1>3, <3>1, <3>2, <3>3
  <2>2. disk[Config(t)] \in Texts /\ Config(t) \in Files
    BY FilesOf, FitsEach DEF DiskTypes
  <2>3. disk'[Config(t)] = disk[Config(t)]
    BY <2>1, <2>2 DEF RemoveIfUnchanged
  <2>4. QED
    BY <2>3, SameText
<1>4. CASE UNCHANGED disk
  BY <1>4, SameText
<1>5. QED
  <2>1. CASE \E p \in Products, r \in Commands : Start(p, r.kind, r.version, r.todo)
    BY <1>4, <2>1 DEF Start
  <2>2. CASE Recovery
    BY <1>1, <1>3, <1>4, <2>2 DEF Recovery, Recover, UndoLinks, UndoIssued, Undone
  <2>3. CASE Plan \/ Target \/ Look
    BY <1>4, <2>3 DEF Plan, Target, Look
  <2>4. CASE Install
    BY <1>4, <2>4 DEF Install, WriteSkill, RecordLink, MakeLink, Refresh, RefreshSecret, Refreshed,
       RecordIssuing, Create, RecordIssued, WriteSecret, WriteNewEntry, AddRegistration
  <2>5. CASE Uninstall
    BY <1>4, <2>5 DEF Uninstall, RemoveEntry, RecordUnlink, DropLink, Unregister
  <2>6. CASE Ending
    BY <1>1, <1>3, <1>4, <2>6 DEF Ending, WriteManifest, Commit, Revoke, Done, RollbackLinks
  <2>7. CASE Fail \/ Crash
    BY <1>4, <2>7 DEF Fail, Crash
  <2>8. \A u \in Targets : ~UserEdit(u)
    BY DEF UserEdit
  <2>9. QED
    BY <1>2, <2>1, <2>2, <2>3, <2>4, <2>5, <2>6, <2>7, <2>8 DEF AgentNext, agentVars

\* An operation changes no entry but its product's, and gives the user no older text back, in any
\* write, rollback or recovery, unless the file was changed between the last look and the rename
\* or removal.
THEOREM OthersAreLeftAlone == AgentSpec => OthersSurvive
<1>1. Types /\ Looked /\ [AgentNext]_agentVars =>
        [op' # op => \A t \in Targets : ~Overtaken(t) =>
            /\ disk'[Config(t)].user >= disk[Config(t)].user
            /\ \A p \in Products :
                 disk'[Config(t)].entry[p] # EntryOf(p, t) => op # Absent /\ p = Me]_agentVars
  BY StepKeepsTexts DEF TextKept
<1>2. QED
  BY <1>1, AgentTypeCorrect, AlwaysLooked, PTL DEF AgentSpec, OthersSurvive
-----------------------------------------------------------------------------
(* The credentials of agent operations                                     *)

CredsOf(x) == IF x = Absent THEN {} ELSE {x[t].cred : t \in {t \in Targets : x[t] # NoEntry}}
CredsIn(regs) == {reg.cred : reg \in regs}
MadeFor(p, c) == \E t \in Targets : label[c] = <<p, t>>

\* The registrations of a table work, and each has the credential that was made for it.
Sound(p, x) ==
    x # Absent => \A t \in Targets :
        x[t] # NoEntry => conn[x[t].cred] = "live" /\ label[x[t].cred] = <<p, t>>

InManifest(p) == CredsOf(disk[Manifest(p)])
ManifestWrites(p, s) == {w \in ToSet(s) : w.file = Manifest(p)}
Befores(p) == UNION {CredsOf(w.before) : w \in ManifestWrites(p, Book(p).writes)}

\* Undoing the journal of a product gives its manifest back what was there, which works, and
\* revokes nothing the manifest then names.
UndoSafe(p) == ~Book(p).committed =>
    LET mine == ManifestWrites(p, Book(p).writes) IN
    /\ Book(p).retired = {}
    /\ \A c \in Book(p).issued : conn[c] # "none" /\ MadeFor(p, c)
    /\ \A w \in mine :
        /\ Sound(p, w.before) /\ CredsOf(w.before) \cap Book(p).issued = {}
        /\ CredsOf(w.after) \subseteq CredsOf(w.before) \cup Book(p).issued
        /\ disk[Manifest(p)] \in {w.before, w.after}
    /\ \A w, x \in mine : w.before = x.before /\ w.after = x.after
    /\ mine = {} => InManifest(p) \cap Book(p).issued = {}
\* Finishing it revokes nothing the manifest names, and all else that the journal knows.
FinishSafe(p) == Book(p).committed =>
    /\ \A c \in CredsIn(Book(p).retired) : conn[c] # "none" /\ MadeFor(p, c) /\ c \notin InManifest(p)
    /\ \A c \in Book(p).issued \cup Befores(p) :
        /\ conn[c] # "none"
        /\ c \in InManifest(p) \cup CredsIn(Book(p).retired) \/ conn[c] = "revoked"
BookSafe(p) == Sound(p, disk[Manifest(p)]) /\ UndoSafe(p) /\ FinishSafe(p)

\* A credential that is made and not yet in the table of the operation.
InFlight ==
    IF \E step \in {"issue", "secret", "newEntry", "registered"} : IsOn(step) THEN {op.cred} ELSE {}

AtWork == op # Absent /\ op.phase \in Works =>
    /\ ~MyJournal.committed /\ MyJournal.issued \subseteq op.issued
    /\ op.issued \subseteq MyJournal.issued \cup (IF op.phase = "issue" THEN {op.cred} ELSE {})
    /\ op.phase \in {"create", "issue"} => Todo \in MyJournal.issuing
    /\ \A c \in op.issued : conn[c] = "live" /\ MadeFor(Me, c)
    /\ Sound(Me, op.found) /\ CredsOf(op.found) \cap op.issued = {}
    /\ Sound(Me, op.regs) /\ CredsOf(op.regs) \subseteq CredsOf(op.found) \cup op.issued
    /\ CredsIn(op.retired) \subseteq CredsOf(op.found) \cup op.issued
    /\ CredsIn(op.retired) \cap CredsOf(op.regs) = {}
    /\ CredsOf(op.found) \cup op.issued \subseteq CredsOf(op.regs) \cup CredsIn(op.retired) \cup InFlight
    /\ InFlight \subseteq op.issued
    /\ InFlight \cap (CredsOf(op.regs) \cup CredsIn(op.retired)) = {}
    /\ \A c \in InFlight : label[c] = <<Me, Todo>>
    /\ op.left = {} /\ op.failed = {}
WorkWrites == op # Absent /\ op.phase \in Works =>
    /\ disk[Manifest(Me)] = IF op.phase = "commit" THEN op.regs ELSE op.found
    /\ \A w \in ManifestWrites(Me, MyJournal.writes) :
         IsOn("commit") /\ w.before = op.found /\ w.after = op.regs
    /\ ToSet(op.writes) \subseteq ToSet(MyJournal.writes)
    /\ (op.phase = "commit") <=> (ManifestWrites(Me, op.writes) # {})
    /\ op.phase = "apply" =>
         /\ op.write \in ToSet(MyJournal.writes) /\ op.then \notin {"create", "issue"}
         /\ (op.then = "commit") <=> (op.write.file = Manifest(Me))

UndoesOwn == op.phase \in {"rollback", "rollbackLinks"} \/ (op.phase = "revoke" /\ ~MyJournal.committed)
Undoing == op # Absent /\ (UndoesOwn \/ op.phase \in {"undo", "undoLinks", "undoIssued"}) =>
    /\ ~MyJournal.committed
    /\ ToSet(op.writes) \subseteq ToSet(MyJournal.writes)
    /\ ManifestWrites(Me, op.writes) = {} =>
         \A w \in ManifestWrites(Me, MyJournal.writes) : disk[Manifest(Me)] = w.before
    /\ op.phase \notin {"undo", "rollback"} => op.writes = <<>>
    /\ op.phase \in {"undo", "undoLinks", "rollback", "rollbackLinks"} => op.left = {} /\ op.failed = {}
Issued(c) == c \in MyJournal.issued \/ \E t \in MyJournal.issuing : label[c] = <<Me, t>>
RollingBack == op # Absent /\ UndoesOwn =>
    LET mine == ManifestWrites(Me, MyJournal.writes) IN
    /\ MyJournal.issued \subseteq op.issued
    /\ \A c \in op.issued : conn[c] # "none" /\ MadeFor(Me, c) /\ Issued(c)
    /\ \A w \in mine : /\ CredsOf(w.before) \cap op.issued = {}
                       /\ CredsOf(w.after) \subseteq CredsOf(w.before) \cup op.issued
    /\ mine = {} => InManifest(Me) \cap op.issued = {}
    /\ CredsIn(op.retired) \subseteq op.issued \cup InManifest(Me) \cup Befores(Me)
    /\ op.left \subseteq op.issued
    /\ op.phase = "revoke" => \A c \in op.issued : c \in op.left \cup op.failed \/ conn[c] = "revoked"
Finishing == op # Absent /\ (op.phase \in {"cleanup", "finish"} \/ (op.phase = "revoke" /\ MyJournal.committed)) =>
    /\ MyJournal.committed
    /\ op.phase # "finish" => MyJournal.retired = op.retired
    /\ op.left \subseteq CredsIn(MyJournal.retired)
    /\ op.phase = "cleanup" => op.left = {} /\ op.failed = {}
    /\ op.phase # "cleanup" => \A c \in CredsIn(MyJournal.retired) :
         c \in op.left \cup op.failed \/ conn[c] = "revoked"
    /\ \A c \in op.issued : /\ conn[c] # "none"
                            /\ c \in InManifest(Me) \cup CredsIn(op.retired) \/ conn[c] = "revoked"
Recovering == op # Absent /\ op.phase \in {"recover", "plan", "finish", "undo", "undoLinks", "undoIssued"} =>
    /\ op.issued = {} /\ op.retired = {}
    /\ op.phase \in {"recover", "plan"} => op.left = {}
    /\ op.phase # "finish" => op.failed = {}
    /\ op.phase \in {"recover", "plan", "finish"} => op.writes = <<>>
    /\ op.phase = "plan" => journal[Me] = Absent
    /\ op.phase = "undoIssued" => /\ op.left \subseteq MyJournal.issued
                                  /\ \A c \in MyJournal.issued : c \in op.left \/ conn[c] = "revoked"

\* What is known of a credential without the operation that runs.
Accounts(p, c) == c \in InManifest(p) \cup Book(p).issued \cup CredsIn(Book(p).retired) \cup Befores(p)
                  \/ \E t \in Book(p).issuing : label[c] = <<p, t>>
Warned == notes.pending \cup notes.told \cup notes.lost
Elsewhere(c) == c \in Warned \/ \E q \in Products \ {Me} : Accounts(q, c)
Unrecovered == {"recover", "finish", "undo", "undoLinks", "undoIssued"}
Traced == \A c \in Creds : conn[c] = "live" =>
    IF op = Absent \/ op.phase \in Unrecovered
    THEN c \in Warned \/ \E p \in Products : Accounts(p, c)
    ELSE Elsewhere(c) \/ c \in op.issued \cup InManifest(Me) \cup Befores(Me) \cup CredsIn(op.retired)
-----------------------------------------------------------------------------
LEMMA SoundCreds ==
    ASSUME NEW p, NEW x, Sound(p, x), NEW c \in CredsOf(x)
    PROVE  conn[c] = "live" /\ MadeFor(p, c)
BY DEF Sound, CredsOf, MadeFor

LEMMA NamedInTable ==
    ASSUME NEW x, NEW t \in Targets, x # Absent, x[t] # NoEntry
    PROVE  x[t].cred \in CredsOf(x)
BY DEF CredsOf

LEMMA SoundKept ==
    ASSUME NEW p, NEW x, Sound(p, x),
           \A c \in CredsOf(x) : conn'[c] = "live" /\ label'[c] = label[c]
    PROVE  Sound(p, x)'
BY NamedInTable DEF Sound

LEMMA MadeForOne == ASSUME NEW p, NEW q, NEW c, MadeFor(p, c), MadeFor(q, c) PROVE p = q
BY DEF MadeFor

LEMMA TableCreds == ASSUME NEW x \in Tables \cup {Absent} PROVE CredsOf(x) \subseteq Creds
<1>1. CASE x = Absent
  BY <1>1 DEF CredsOf
<1>2. CASE x # Absent
  <2>1. \A t \in Targets : x[t] # NoEntry => x[t].cred \in Creds
    BY <1>2 DEF Tables, Registrations
  <2>2. QED
    BY <1>2, <2>1 DEF CredsOf
<1>3. QED
  BY <1>1, <1>2

LEMMA RetiredCreds == ASSUME NEW R \in SUBSET Registrations PROVE CredsIn(R) \subseteq Creds
BY DEF CredsIn, Registrations

\* The writes of a manifest hold tables.
LEMMA ManifestWritesTyped ==
    ASSUME NEW p \in Products, NEW s \in Seq(Writings(p)), NEW w \in ManifestWrites(p, s)
    PROVE  w \in Writings(p) /\ w.before \in Tables \cup {Absent} /\ w.after \in Tables \cup {Absent}
<1>1. w \in Writings(p) /\ w.file = Manifest(p)
  BY DEF ManifestWrites, ToSet
<1>2. Fits(Manifest(p), w.before) /\ Fits(Manifest(p), w.after)
  BY <1>1 DEF Writings
<1>3. QED
  BY <1>1, <1>2, FitsEach

LEMMA KnownCreds ==
    ASSUME Types, NEW p \in Products
    PROVE  /\ InManifest(p) \subseteq Creds /\ Book(p).issued \subseteq Creds
           /\ CredsIn(Book(p).retired) \subseteq Creds /\ Befores(p) \subseteq Creds
           /\ \A w \in ManifestWrites(p, Book(p).writes) :
                CredsOf(w.before) \subseteq Creds /\ CredsOf(w.after) \subseteq Creds
<1>1. Book(p) \in Journals(p) /\ disk[Manifest(p)] \in Tables \cup {Absent}
  BY BookTypes, FilesOf, FitsEach DEF Types, DiskTypes
<1>2. /\ Book(p).issued \subseteq Creds /\ Book(p).retired \subseteq Registrations
      /\ Book(p).writes \in Seq(Writings(p))
  BY <1>1 DEF Journals
<1>3. \A w \in ManifestWrites(p, Book(p).writes) :
        CredsOf(w.before) \subseteq Creds /\ CredsOf(w.after) \subseteq Creds
  BY <1>2, ManifestWritesTyped, TableCreds
<1>4. InManifest(p) \subseteq Creds
  BY <1>1, TableCreds DEF InManifest
<1>5. QED
  BY <1>2, <1>3, <1>4, RetiredCreds DEF Befores

\* What an undoing or a finishing of the journal of p goes by stays as it is.
SameBook(p) ==
    /\ Book(p)'.issued = Book(p).issued /\ Book(p)'.retired = Book(p).retired
    /\ Book(p)'.committed = Book(p).committed
    /\ ManifestWrites(p, Book(p).writes)' = ManifestWrites(p, Book(p).writes)
    /\ disk'[Manifest(p)] = disk[Manifest(p)]

\* No credential that p relies on is revoked.
CalmFor(p) == \A c \in Creds : conn[c] # "none" =>
    /\ label'[c] = label[c]
    /\ \/ conn'[c] = conn[c]
       \/ conn'[c] = "revoked" /\ c \notin InManifest(p) /\ (Book(p).committed \/ c \notin Befores(p))

LEMMA BookKept ==
    ASSUME Types, NEW p \in Products, BookSafe(p), SameBook(p), CalmFor(p)
    PROVE  BookSafe(p)'
<1>1. PICK x : x = disk[Manifest(p)]
  OBVIOUS
<1>2. PICK mine : mine = ManifestWrites(p, Book(p).writes)
  OBVIOUS
<1>3. PICK i, R : i = Book(p).issued /\ R = Book(p).retired
  OBVIOUS
<1>4. disk'[Manifest(p)] = x /\ ManifestWrites(p, Book(p).writes)' = mine
      /\ Book(p)'.issued = i /\ Book(p)'.retired = R /\ Book(p)'.committed = Book(p).committed
  BY <1>1, <1>2, <1>3 DEF SameBook
<1>5. /\ CredsOf(x) \subseteq Creds /\ i \subseteq Creds /\ CredsIn(R) \subseteq Creds
      /\ \A w \in mine : CredsOf(w.before) \subseteq Creds /\ CredsOf(w.after) \subseteq Creds
  BY <1>1, <1>2, <1>3, KnownCreds DEF InManifest
<1>6. \A w \in mine : CredsOf(w.before) \subseteq Befores(p)
  BY <1>2 DEF Befores
<1>7. Befores(p)' = Befores(p) /\ InManifest(p)' = InManifest(p)
  BY <1>1, <1>2, <1>4 DEF Befores, InManifest
<1>8. Befores(p) \subseteq Creds
  BY KnownCreds
<1>9. \A c \in Creds : MadeFor(p, c) /\ conn[c] # "none" => MadeFor(p, c)' /\ conn'[c] # "none"
  <2>1. ASSUME NEW c \in Creds, NEW t \in Targets, label[c] = <<p, t>>, conn[c] # "none"
        PROVE  label'[c] = <<p, t>> /\ conn'[c] # "none"
    BY <2>1 DEF CalmFor
  <2>2. QED
    BY <2>1 DEF MadeFor
<1>10. Sound(p, disk[Manifest(p)])'
  <2>1. Sound(p, x)
    BY <1>1 DEF BookSafe
  <2>2. \A c \in CredsOf(x) : conn'[c] = "live" /\ label'[c] = label[c]
    BY <1>1, <1>5, <2>1, SoundCreds DEF CalmFor, InManifest
  <2>3. Sound(p, x)'
    BY <2>1, <2>2, SoundKept
  <2>4. QED
    BY <1>4, <2>3 DEF Sound
<1>11. UndoSafe(p)'
  <2> SUFFICES ASSUME ~Book(p).committed
               PROVE  /\ R = {}
                      /\ \A c \in i : conn'[c] # "none" /\ MadeFor(p, c)'
                      /\ \A w \in mine :
                           /\ Sound(p, w.before)' /\ CredsOf(w.before) \cap i = {}
                           /\ CredsOf(w.after) \subseteq CredsOf(w.before) \cup i
                           /\ x \in {w.before, w.after}
                      /\ \A w, v \in mine : w.before = v.before /\ w.after = v.after
                      /\ mine = {} => CredsOf(x) \cap i = {}
    BY <1>4 DEF UndoSafe, InManifest
  <2>1. /\ R = {}
        /\ \A c \in i : conn[c] # "none" /\ MadeFor(p, c)
        /\ \A w \in mine :
             /\ Sound(p, w.before) /\ CredsOf(w.before) \cap i = {}
             /\ CredsOf(w.after) \subseteq CredsOf(w.before) \cup i
             /\ x \in {w.before, w.after}
        /\ \A w, v \in mine : w.before = v.before /\ w.after = v.after
        /\ mine = {} => CredsOf(x) \cap i = {}
    BY <1>1, <1>2, <1>3 DEF BookSafe, UndoSafe, InManifest
  <2>2. ASSUME NEW w \in mine PROVE Sound(p, w.before)'
    <3>1. PICK y : y = w.before
      OBVIOUS
    <3>2. \A c \in CredsOf(y) : conn[c] = "live" /\ c \in Befores(p) /\ c \in Creds
      BY <1>5, <1>6, <2>1, <3>1, SoundCreds
    <3>3. \A c \in CredsOf(y) : conn'[c] = "live" /\ label'[c] = label[c]
      BY <3>2 DEF CalmFor
    <3>4. QED
      BY <2>1, <3>1, <3>3, SoundKept
  <2>3. QED
    BY <1>5, <1>9, <2>1, <2>2
<1>12. FinishSafe(p)'
  <2> SUFFICES ASSUME Book(p).committed
               PROVE  /\ \A c \in CredsIn(R) : conn'[c] # "none" /\ MadeFor(p, c)' /\ c \notin CredsOf(x)
                      /\ \A c \in i \cup Befores(p) :
                           /\ conn'[c] # "none"
                           /\ c \in CredsOf(x) \cup CredsIn(R) \/ conn'[c] = "revoked"
    BY <1>1, <1>4, <1>7 DEF FinishSafe, InManifest
  <2>1. /\ \A c \in CredsIn(R) : conn[c] # "none" /\ MadeFor(p, c) /\ c \notin CredsOf(x)
        /\ \A c \in i \cup Befores(p) :
             conn[c] # "none" /\ (c \in CredsOf(x) \cup CredsIn(R) \/ conn[c] = "revoked")
    BY <1>1, <1>2, <1>3 DEF BookSafe, FinishSafe, InManifest
  <2>2. QED
    BY <1>5, <1>8, <1>9, <2>1 DEF CalmFor
<1>13. QED
  BY <1>10, <1>11, <1>12 DEF BookSafe
Books == \A p \in Products : BookSafe(p)
OpBooks == AtWork /\ WorkWrites /\ Undoing /\ RollingBack /\ Finishing /\ Recovering /\ Traced
Credited == Types /\ Looked /\ Books /\ OpBooks

LEMMA ToldOfWork == ASSUME op'.phase \in Works PROVE Undoing' /\ RollingBack' /\ Finishing' /\ Recovering'
BY DEF Undoing, UndoesOwn, RollingBack, Finishing, Recovering, Works, OnTarget

\* What an operation leaves alone: the books of the other product.
OthersKept == \A q \in Products \ {Me} : Book(q)' = Book(q) /\ disk'[Manifest(q)] = disk[Manifest(q)]

LEMMA AccountsKept ==
    ASSUME NEW q, NEW c, Accounts(q, c), Book(q)' = Book(q), disk'[Manifest(q)] = disk[Manifest(q)],
           label'[c] = label[c]
    PROVE  Accounts(q, c)'
BY DEF Accounts, InManifest, Befores

LEMMA ElsewhereKept ==
    ASSUME NEW c, Elsewhere(c), OthersKept, op'.product = op.product, Warned \subseteq Warned',
           label'[c] = label[c]
    PROVE  Elsewhere(c)'
<1>1. CASE c \in Warned
  BY <1>1 DEF Elsewhere
<1>2. CASE c \notin Warned
  <2>1. PICK q \in Products \ {Me} : Accounts(q, c)
    BY <1>2 DEF Elsewhere
  <2>2. Accounts(q, c)'
    BY <2>1, AccountsKept DEF OthersKept
  <2>3. QED
    BY <2>2 DEF Elsewhere, Me
<1>3. QED
  BY <1>1, <1>2

\* A credential that an operation knows, or will not, is traced.
OpNames == op.issued \cup InManifest(Me) \cup Befores(Me) \cup CredsIn(op.retired)
LEMMA TracedKept ==
    ASSUME Credited, op # Absent, op.phase \notin Unrecovered, op' # Absent, op'.phase \notin Unrecovered,
           OthersKept, op'.product = op.product, notes' = notes \/ Warned \subseteq Warned',
           \A c \in Creds : conn'[c] = "live" =>
              \/ c \in OpNames'
              \/ conn[c] = "live" /\ label'[c] = label[c] /\ c \notin OpNames
    PROVE  Traced'
<1> SUFFICES ASSUME NEW c \in Creds, conn'[c] = "live" PROVE Elsewhere(c)' \/ c \in OpNames'
  BY DEF Traced, OpNames
<1>1. CASE c \in OpNames'
  BY <1>1
<1>2. CASE conn[c] = "live" /\ label'[c] = label[c] /\ c \notin OpNames
  <2>1. Elsewhere(c)
    BY <1>2 DEF Credited, OpBooks, Traced, OpNames
  <2>2. Warned \subseteq Warned'
    BY DEF Warned
  <2>3. QED
    BY <1>2, <2>1, <2>2, ElsewhereKept
<1>3. QED
  BY <1>1, <1>2

LEMMA OwnBook == ASSUME Types, op # Absent PROVE Me \in Products /\ MyJournal = Book(Me)
BY DEF Types, OpTypes, Me, MyJournal, Book

LEMMA SavedBook ==
    ASSUME Types, NEW j, Save(j), op # Absent, DOMAIN j = DOMAIN MyJournal
    PROVE  /\ \A p \in Products : p = Me => Book(p)' = j
           /\ \A q \in Products : q # Me => Book(q)' = Book(q)
<1>1. MyJournal \in Journals(Me)
  BY MyJournalType DEF Types
<1>2. DOMAIN MyJournal # DOMAIN Absent
  <2>1. DOMAIN <<>> = {}
    OBVIOUS
  <2>2. "writes" \in DOMAIN MyJournal
    BY <1>1 DEF Journals
  <2>3. QED
    BY <2>1, <2>2 DEF Absent
<1>3. j # Absent
  BY <1>2
<1>4. QED
  BY <1>3, OwnBook DEF Save, Book, Types, JournalTypes

\* The books that a step leaves alone, or changes in what no undoing and no finishing goes by.
LEMMA BooksKept ==
    ASSUME Credited, \A p \in Products : SameBook(p), UNCHANGED <<conn, label>>
    PROVE  Books'
<1>1. \A p \in Products : CalmFor(p)
  BY DEF CalmFor
<1>2. QED
  BY <1>1, BookKept DEF Books, Credited

\* The product at work and the others.
LEMMA AllSame ==
    ASSUME OthersKept, NEW p, p = Me, SameBook(p) PROVE \A q \in Products : SameBook(q)
<1>1. ASSUME NEW q \in Products, q # p PROVE SameBook(q)
  <2>1. Book(q)' = Book(q) /\ disk'[Manifest(q)] = disk[Manifest(q)]
    BY <1>1 DEF OthersKept
  <2>2. QED
    BY <2>1 DEF SameBook, ManifestWrites
<1>2. QED
  BY <1>1

\* A step of the work that leaves the manifest, the credentials and the table alone.
LEMMA WorkKept ==
    ASSUME Credited, op # Absent, op' # Absent, op.phase \in Works \ {"commit", "apply", "issue"},
           op'.phase \in Works \ {"commit", "issue"},
           UNCHANGED <<disk, conn, label, notes>>,
           UNCHANGED <<op.product, op.issued, op.found, op.regs, op.retired, op.left, op.failed, op.writes, op.cred>>,
           \A p \in Products : SameBook(p), OthersKept, ToSet(MyJournal.writes) \subseteq ToSet(MyJournal'.writes),
           InFlight' = InFlight, InFlight # {} => Todo' = Todo,
           op'.phase = "create" => Todo' \in MyJournal'.issuing,
           op'.phase = "apply" => /\ op'.write \in ToSet(MyJournal'.writes)
                                  /\ op'.write.file # Manifest(Me) /\ op'.then \notin {"commit", "create", "issue"}
    PROVE  (Books /\ OpBooks)'
<1> USE DEF Credited
<1>1. PICK p \in Products : p = Me
  BY OwnBook
<1>2. /\ MyJournal = Book(p) /\ MyJournal' = Book(p)' /\ Me' = p
  BY <1>1, OwnBook DEF MyJournal, Book, Me
<1>3. /\ MyJournal'.committed = MyJournal.committed /\ MyJournal'.issued = MyJournal.issued
      /\ ManifestWrites(p, MyJournal.writes)' = ManifestWrites(p, MyJournal.writes)
  BY <1>1, <1>2 DEF SameBook
<1>4. AtWork'
  <2>1. PICK f, r, i, d : f = op.found /\ r = op.regs /\ i = op.issued /\ d = InFlight
    OBVIOUS
  <2>2. /\ ~MyJournal.committed /\ MyJournal.issued = i
        /\ \A c \in i : conn[c] = "live" /\ MadeFor(p, c)
        /\ Sound(p, f) /\ CredsOf(f) \cap i = {}
        /\ Sound(p, r) /\ CredsOf(r) \subseteq CredsOf(f) \cup i
        /\ CredsIn(op.retired) \subseteq CredsOf(f) \cup i
        /\ CredsIn(op.retired) \cap CredsOf(r) = {}
        /\ CredsOf(f) \cup i \subseteq CredsOf(r) \cup CredsIn(op.retired) \cup d
        /\ d \subseteq i /\ d \cap (CredsOf(r) \cup CredsIn(op.retired)) = {}
        /\ \A c \in d : label[c] = <<p, Todo>>
        /\ op.left = {} /\ op.failed = {}
    BY <1>1, <2>1 DEF AtWork, OpBooks
  <2>3. Sound(p, f)' /\ Sound(p, r)' /\ \A c \in i : MadeFor(p, c)'
    BY <2>2 DEF Sound, MadeFor
  <2>4. op'.found = f /\ op'.regs = r /\ op'.issued = i /\ InFlight' = d
    BY <2>1
  <2>5. QED
    BY <1>2, <1>3, <2>2, <2>3, <2>4 DEF AtWork
<1>5. WorkWrites'
  <2>1. /\ disk[Manifest(p)] = op.found
        /\ \A w \in ManifestWrites(p, MyJournal.writes) : IsOn("commit")
        /\ ToSet(op.writes) \subseteq ToSet(MyJournal.writes)
        /\ ManifestWrites(p, op.writes) = {}
    BY <1>1 DEF WorkWrites, OpBooks
  <2>2. ~IsOn("commit")
    BY DEF IsOn
  <2>3. ManifestWrites(p, MyJournal.writes)' = {}
    BY <1>3, <2>1, <2>2
  <2>4. ManifestWrites(p, op.writes)' = {}
    BY <2>1 DEF ManifestWrites
  <2>5. QED
    BY <1>1, <1>2, <2>1, <2>3, <2>4 DEF WorkWrites
<1>6. Undoing' /\ RollingBack' /\ Finishing' /\ Recovering'
  BY ToldOfWork
<1>7. Traced'
  <2>1. op.phase \notin Unrecovered /\ op'.phase \notin Unrecovered
    BY DEF Works, OnTarget, Unrecovered
  <2>2. InManifest(p)' = InManifest(p) /\ Befores(p)' = Befores(p)
    BY <1>2, <1>3 DEF InManifest, Befores
  <2>3. OpNames' = OpNames
    BY <1>1, <1>2, <2>2 DEF OpNames
  <2>4. QED
    BY <2>1, <2>3, TracedKept
<1>8. Books'
  BY BooksKept
<1>9. QED
  BY <1>4, <1>5, <1>6, <1>7, <1>8 DEF OpBooks
\* An operation that is changed is still there.
LEMMA OpIsThere ==
    ASSUME OpTypes, op # Absent, DOMAIN op' = DOMAIN op PROVE op' # Absent
<1>1. DOMAIN <<>> = {}
  OBVIOUS
<1>2. QED
  BY <1>1 DEF OpTypes, OpFields, Absent

\* A note in the journal that no undoing of a manifest goes by.
LEMMA NotedKept ==
    ASSUME Types, op # Absent, NEW j, Save(j), DOMAIN j = DOMAIN MyJournal, disk' = disk,
           j.issued = MyJournal.issued, j.retired = MyJournal.retired, j.committed = MyJournal.committed,
           ManifestWrites(Me, j.writes) = ManifestWrites(Me, MyJournal.writes),
           op'.product = op.product
    PROVE  OthersKept /\ (\A p \in Products : SameBook(p)) /\ MyJournal' = j
<1>1. PICK p \in Products : p = Me /\ MyJournal = Book(p)
  BY OwnBook
<1>2. Book(p)' = j /\ OthersKept
  BY <1>1, SavedBook DEF OthersKept
<1>3. SameBook(p)
  BY <1>1, <1>2 DEF SameBook, ManifestWrites
<1>4. MyJournal' = j
  BY <1>1, <1>2 DEF MyJournal, Book, Me
<1>5. QED
  BY <1>1, <1>2, <1>3, <1>4, AllSame

LEMMA SameJournal ==
    ASSUME Types, op # Absent, journal' = journal, op'.product = op.product,
           \A p \in Products : disk'[Manifest(p)] = disk[Manifest(p)]
    PROVE  OthersKept /\ (\A p \in Products : SameBook(p)) /\ MyJournal' = MyJournal
BY DEF OthersKept, SameBook, MyJournal, Me, Book, ManifestWrites

LEMMA WriteWorks ==
    ASSUME Credited, Types', op # Absent, op.phase \in Works \ {"commit", "apply", "issue"},
           NEW f, NEW before, NEW after, NEW then \in Works \ {"commit", "apply", "issue", "create"},
           Write(f, before, after, then), f # Manifest(Me),
           UNCHANGED <<disk, links, conn, label, notes, touched, spent>>,
           op.phase \in {"secret", "newEntry"} <=> then \in {"newEntry", "registered"},
           op.phase # "registered" /\ then # "secret"
    PROVE  (Books /\ OpBooks)'
<1> USE DEF Credited
<1> DEFINE w == [file |-> f, before |-> before, after |-> after]
           j == [MyJournal EXCEPT !.writes = Append(@, w)]
<1>1. op' = [op EXCEPT !.phase = "apply", !.then = then, !.write = w] /\ Save(j)
  BY DEF Write
<1>2. /\ UNCHANGED <<op.product, op.issued, op.found, op.regs, op.retired, op.left, op.failed, op.writes, op.cred>>
      /\ op'.phase = "apply" /\ op'.then = then /\ op'.write = w /\ op'.todo = op.todo
      /\ op'.product = op.product
  BY <1>1 DEF Types, OpTypes, OpFields
<1>3. op' # Absent
  BY <1>1, OpIsThere DEF Types
<1>4. w \in Writings(Me)
  BY <1>2, <1>3 DEF Types, OpKnows, Me
<1>5. MyJournal \in Journals(Me)
  BY MyJournalType DEF Types
<1>6. w.file = f
  OBVIOUS
<1> HIDE DEF w
<1>7. /\ DOMAIN j = DOMAIN MyJournal /\ j.writes = Append(MyJournal.writes, w)
      /\ j.issued = MyJournal.issued /\ j.retired = MyJournal.retired /\ j.committed = MyJournal.committed
  BY <1>5 DEF Journals
<1> HIDE DEF j
<1>8. ToSet(j.writes) = ToSet(MyJournal.writes) \cup {w}
  <2>1. MyJournal.writes \in Seq(Writings(Me))
    BY <1>5 DEF Journals
  <2>2. QED
    BY <1>4, <1>7, <2>1, AppendTo
<1>9. ManifestWrites(Me, j.writes) = ManifestWrites(Me, MyJournal.writes)
  BY <1>6, <1>8 DEF ManifestWrites
<1>10. OthersKept /\ (\A p \in Products : SameBook(p)) /\ MyJournal' = j
  BY <1>1, <1>2, <1>7, <1>9, NotedKept
<1>11. InFlight' = InFlight /\ Todo' = Todo
  BY <1>2 DEF InFlight, IsOn, Todo
<1>12. UNCHANGED <<disk, conn, label, notes>>
  OBVIOUS
<1>13. op'.phase \in Works \ {"commit", "issue"}
  BY <1>2 DEF Works
<1>14. QED
  BY <1>2, <1>3, <1>6, <1>8, <1>10, <1>11, <1>12, <1>13, WorkKept
LEMMA WriteStepsWork ==
    ASSUME Credited, Types', WriteSkill \/ RefreshSecret \/ WriteSecret \/ WriteNewEntry \/ RemoveEntry
    PROVE  (Books /\ OpBooks)'
<1>1. CASE WriteSkill
  <2>1. op # Absent /\ op.phase = "skill" /\ Skill(Me) # Manifest(Me)
    BY <1>1, FilesDiffer DEF WriteSkill, Phase
  <2>2. QED
    BY <1>1, <2>1, WriteWorks DEF WriteSkill, Works, OnTarget
<1>2. CASE RefreshSecret
  <2>1. op # Absent /\ op.phase = "refreshSecret" /\ Secret(Previous.cred) # Manifest(Me)
    BY <1>2, FilesDiffer DEF RefreshSecret, Phase
  <2>2. QED
    BY <1>2, <2>1, WriteWorks DEF RefreshSecret, Works, OnTarget
<1>3. CASE WriteSecret
  <2>1. op # Absent /\ op.phase = "secret" /\ Secret(op.cred) # Manifest(Me)
    BY <1>3, FilesDiffer DEF WriteSecret, Phase
  <2>2. QED
    BY <1>3, <2>1, WriteWorks DEF WriteSecret, Works, OnTarget
<1>4. CASE WriteNewEntry
  <2>1. op # Absent /\ op.phase = "newEntry" /\ Config(Todo) # Manifest(Me)
    BY <1>4, FilesDiffer DEF WriteNewEntry, Phase
  <2>2. QED
    BY <1>4, <2>1, WriteWorks DEF WriteNewEntry, WriteEntry, Works, OnTarget
<1>5. CASE RemoveEntry
  <2>1. op # Absent /\ op.phase = "removeEntry" /\ Config(Todo) # Manifest(Me)
    BY <1>5, FilesDiffer DEF RemoveEntry, Phase
  <2>2. QED
    BY <1>5, <2>1, WriteWorks DEF RemoveEntry, WriteEntry, Works, OnTarget
<1>6. QED
  BY <1>1, <1>2, <1>3, <1>4, <1>5

\* What a step to another phase leaves of the operation.
LEMMA GoneTo ==
    ASSUME Types, op # Absent, NEW s, Goto(s)
    PROVE  /\ op' # Absent /\ op'.phase = s /\ op'.todo = op.todo /\ op'.product = op.product
           /\ UNCHANGED <<op.product, op.issued, op.found, op.regs, op.retired, op.left, op.failed, op.writes, op.cred>>
BY OpIsThere DEF Types, OpTypes, OpFields, Goto

LEMMA RecordStepsWork ==
    ASSUME Credited, Types', RecordLink \/ RecordIssuing \/ RecordUnlink
    PROVE  (Books /\ OpBooks)'
<1> USE DEF Credited
<1>1. /\ op # Absent /\ op.phase \in {"link", "entry", "unlink"}
      /\ UNCHANGED <<disk, links, conn, label, notes, touched, spent>>
  BY DEF RecordLink, RecordIssuing, RecordUnlink, Phase
<1>2. PICK j, s : /\ Save(j) /\ Goto(s) /\ s \in {"makeLink", "create", "dropLink"}
                  /\ s = "create" => Todo \in j.issuing
                  /\ DOMAIN j = DOMAIN MyJournal /\ j.writes = MyJournal.writes
                  /\ j.issued = MyJournal.issued /\ j.retired = MyJournal.retired
                  /\ j.committed = MyJournal.committed
  <2>1. MyJournal \in Journals(Me)
    BY <1>1, MyJournalType DEF Types
  <2>2. CASE RecordLink
    <3> DEFINE j == [MyJournal EXCEPT !.linked = @ \cup {Todo}]
    <3>1. /\ DOMAIN j = DOMAIN MyJournal /\ j.writes = MyJournal.writes
          /\ j.issued = MyJournal.issued /\ j.retired = MyJournal.retired
          /\ j.committed = MyJournal.committed
      BY <2>1 DEF Journals
    <3>2. Save(j) /\ Goto("makeLink")
      BY <2>2 DEF RecordLink
    <3> HIDE DEF j
    <3>3. QED
      BY <3>1, <3>2
  <2>3. CASE RecordIssuing
    <3> DEFINE j == [MyJournal EXCEPT !.issuing = @ \cup {Todo}]
    <3>1. /\ DOMAIN j = DOMAIN MyJournal /\ j.writes = MyJournal.writes
          /\ j.issued = MyJournal.issued /\ j.retired = MyJournal.retired
          /\ j.committed = MyJournal.committed /\ Todo \in j.issuing
      BY <2>1 DEF Journals
    <3>2. Save(j) /\ Goto("create")
      BY <2>3 DEF RecordIssuing
    <3> HIDE DEF j
    <3>3. QED
      BY <3>1, <3>2
  <2>4. CASE RecordUnlink
    <3> DEFINE j == [MyJournal EXCEPT !.removed = @ \cup {Todo}]
    <3>1. /\ DOMAIN j = DOMAIN MyJournal /\ j.writes = MyJournal.writes
          /\ j.issued = MyJournal.issued /\ j.retired = MyJournal.retired
          /\ j.committed = MyJournal.committed
      BY <2>1 DEF Journals
    <3>2. Save(j) /\ Goto("dropLink")
      BY <2>4 DEF RecordUnlink
    <3> HIDE DEF j
    <3>3. QED
      BY <3>1, <3>2
  <2>5. QED
    BY <2>2, <2>3, <2>4
<1>3. /\ op' # Absent /\ op'.phase = s /\ op'.todo = op.todo /\ op'.product = op.product
      /\ UNCHANGED <<op.product, op.issued, op.found, op.regs, op.retired, op.left, op.failed, op.writes, op.cred>>
  BY <1>1, <1>2, GoneTo
<1>4. ManifestWrites(Me, j.writes) = ManifestWrites(Me, MyJournal.writes)
  BY <1>2
<1>5. OthersKept /\ (\A p \in Products : SameBook(p)) /\ MyJournal' = j
  BY <1>1, <1>2, <1>3, <1>4, NotedKept
<1>6. InFlight' = InFlight /\ Todo' = Todo
  BY <1>1, <1>2, <1>3 DEF InFlight, IsOn, Todo
<1>7. /\ op.phase \in Works \ {"commit", "apply", "issue"} /\ op'.phase \in Works \ {"commit", "issue"}
      /\ op'.phase # "apply"
  BY <1>1, <1>2, <1>3 DEF Works, OnTarget
<1>8. UNCHANGED <<disk, conn, label, notes>>
  BY <1>1
<1>9. ToSet(MyJournal.writes) \subseteq ToSet(MyJournal'.writes)
  BY <1>2, <1>5
<1>10. op'.phase = "create" => Todo' \in MyJournal'.issuing
  BY <1>2, <1>3, <1>5, <1>6
<1>11. QED
  BY <1>1, <1>3, <1>5, <1>6, <1>7, <1>8, <1>9, <1>10, WorkKept

\* A step of the work that leaves the journal alone.
LEMMA UnrecordedWorks ==
    ASSUME Credited, Types', op # Absent, op' # Absent, op.phase \in Works \ {"commit", "apply", "issue"},
           op'.phase \in Works \ {"commit", "apply", "issue", "create"},
           UNCHANGED <<disk, conn, label, journal, notes>>, op'.product = op.product,
           UNCHANGED <<op.product, op.issued, op.found, op.regs, op.retired, op.left, op.failed, op.writes, op.cred>>,
           op.phase \notin {"secret", "newEntry", "registered"},
           op'.phase \notin {"secret", "newEntry", "registered"}
    PROVE  (Books /\ OpBooks)'
<1>1. OthersKept /\ (\A p \in Products : SameBook(p)) /\ MyJournal' = MyJournal
  BY SameJournal DEF Credited
<1>2. InFlight' = {} /\ InFlight = {}
  BY DEF InFlight, IsOn
<1>3. /\ UNCHANGED <<disk, conn, label, notes>>
      /\ op'.phase \in Works \ {"commit", "issue"}
  OBVIOUS
<1>4. QED
  BY <1>1, <1>2, <1>3, WorkKept

LEMMA UnrecordedStepsWork ==
    ASSUME Credited, Types', MakeLink \/ DropLink \/ Target \/ (Refresh /\ Previous.version = op.version)
    PROVE  (Books /\ OpBooks)'
<1>1. op # Absent /\ op.phase \in {"makeLink", "dropLink", "target", "entry"}
  BY DEF MakeLink, DropLink, Target, Refresh, Phase
<1>2. UNCHANGED <<disk, conn, label, journal, notes>>
  BY DEF MakeLink, DropLink, Target, Refresh
<1>3. /\ op' # Absent /\ op'.product = op.product
      /\ UNCHANGED <<op.product, op.issued, op.found, op.regs, op.retired, op.left, op.failed, op.writes, op.cred>>
      /\ op'.phase \in {"entry", "unlink", "manifest", "link", "target", "removeEntry"}
  <2> USE DEF Credited, Types, OpTypes, OpFields
  <2>1. CASE MakeLink
    BY <1>1, <2>1, OpIsThere DEF MakeLink
  <2>2. CASE DropLink
    BY <1>1, <2>2, OpIsThere DEF DropLink
  <2>3. CASE Target
    <3>1. CASE op' = [op EXCEPT !.todo = Tail(@)]
      BY <1>1, <2>3, <3>1, OpIsThere DEF Target, Phase
    <3>2. CASE \E s \in {"entry", "unlink", "manifest", "link", "removeEntry"} : Goto(s)
      BY <1>1, <3>2, GoneTo
    <3>3. QED
      BY <2>3, <3>1, <3>2 DEF Target
  <2>4. CASE Refresh /\ Previous.version = op.version
    BY <1>1, <2>4, OpIsThere DEF Refresh
  <2>5. QED
    BY <2>1, <2>2, <2>3, <2>4
<1>4. /\ op.phase \in Works \ {"commit", "apply", "issue"} /\ op.phase \notin {"secret", "newEntry", "registered"}
      /\ op'.phase \in Works \ {"commit", "apply", "issue", "create"}
      /\ op'.phase \notin {"secret", "newEntry", "registered"}
  BY <1>1, <1>3 DEF Works, OnTarget
<1>5. QED
  BY <1>1, <1>2, <1>3, <1>4, UnrecordedWorks

LEMMA RefreshWorks == ASSUME Credited, Types', Refresh PROVE (Books /\ OpBooks)'
<1>1. CASE Previous.version = op.version
  BY <1>1, UnrecordedStepsWork
<1>2. CASE Previous.version # op.version
  <2>1. op # Absent /\ op.phase = "entry" /\ Config(Todo) # Manifest(Me)
    BY FilesDiffer DEF Refresh, Phase
  <2>2. QED
    BY <1>2, <2>1, WriteWorks DEF Refresh, WriteEntry, Works, OnTarget
<1>3. QED
  BY <1>1, <1>2
\* The rest of what is known follows from the work itself.
LEMMA WorkGoesOn ==
    ASSUME Credited, op # Absent, op.phase \in Works \cup {"plan"}, op' # Absent, op'.phase \in Works,
           op'.product = op.product, OthersKept, notes' = notes,
           BookSafe(Me)', \A q \in Products : CalmFor(q),
           AtWork', WorkWrites',
           \A c \in Creds : conn'[c] = "live" =>
              \/ c \in OpNames'
              \/ conn[c] = "live" /\ label'[c] = label[c] /\ c \notin OpNames
    PROVE  (Books /\ OpBooks)'
<1> USE DEF Credited
<1>1. PICK p \in Products : p = Me /\ Me' = p
  BY OwnBook DEF Me
<1>2. ASSUME NEW q \in Products, q # p PROVE BookSafe(q)'
  <2>1. Book(q)' = Book(q) /\ disk'[Manifest(q)] = disk[Manifest(q)]
    BY <1>1, <1>2 DEF OthersKept
  <2>2. SameBook(q)
    BY <2>1 DEF SameBook, ManifestWrites
  <2>3. QED
    BY <2>2, BookKept DEF Books
<1>3. Books'
  BY <1>1, <1>2 DEF Books
<1>4. Undoing' /\ RollingBack' /\ Finishing' /\ Recovering'
  BY ToldOfWork
<1>5. op.phase \notin Unrecovered /\ op'.phase \notin Unrecovered
  BY DEF Works, OnTarget, Unrecovered
<1>6. Traced'
  BY <1>5, TracedKept
<1>7. QED
  BY <1>3, <1>4, <1>6 DEF OpBooks

LEMMA TableIsThere == ASSUME NEW x \in Tables, NEW t \in Targets PROVE x # Absent
<1>1. DOMAIN x = Targets
  BY DEF Tables
<1>2. DOMAIN <<>> = {} /\ Targets # {}
  OBVIOUS
<1>3. QED
  BY <1>1, <1>2 DEF Absent

LEMMA NoRegistration == NoEntry \notin Registrations
<1>1. None \notin Creds
  BY DEF None, Creds
<1>2. QED
  BY <1>1 DEF NoEntry, Entry, Registrations

\* Nothing is created or revoked.
LEMMA CalmForAll == ASSUME Types, conn' = conn, label' = label PROVE \A q \in Products : CalmFor(q)
BY DEF CalmFor

LEMMA CreateWorks == ASSUME Credited, Types', Create PROVE (Books /\ OpBooks)'
<1> USE DEF Credited
<1>1. op # Absent /\ op.phase = "create" /\ UNCHANGED <<disk, links, journal, notes, touched, spent>>
  BY DEF Create, Phase
<1>2. PICK c \in Creds :
        /\ conn[c] = "none"
        /\ conn' = [conn EXCEPT ![c] = "live"] /\ label' = [label EXCEPT ![c] = <<Me, Todo>>]
        /\ op' = [op EXCEPT !.phase = "issue", !.cred = c, !.issued = @ \cup {c}]
  BY DEF Create
<1>3. /\ op' # Absent /\ op'.phase = "issue" /\ op'.cred = c /\ op'.issued = op.issued \cup {c}
      /\ op'.product = op.product /\ op'.todo = op.todo /\ op'.found = op.found /\ op'.regs = op.regs
      /\ op'.retired = op.retired /\ op'.left = op.left /\ op'.failed = op.failed /\ op'.writes = op.writes
  BY <1>1, <1>2, OpIsThere DEF Types, OpTypes, OpFields
<1>4. PICK p \in Products : p = Me /\ Me' = p /\ MyJournal = Book(p) /\ MyJournal' = Book(p)'
  BY <1>1, <1>3, OwnBook DEF Me, MyJournal, Book
<1>5. OthersKept /\ (\A q \in Products : SameBook(q)) /\ MyJournal' = MyJournal
  BY <1>1, <1>3, SameJournal
<1>6. /\ conn'[c] = "live" /\ label'[c] = <<Me, Todo>>
      /\ \A d \in Creds \ {c} : conn'[d] = conn[d] /\ label'[d] = label[d]
  BY <1>2 DEF Types, OtherTypes
<1>7. \A q \in Products : CalmFor(q)
  BY <1>2, <1>6 DEF CalmFor
<1>8. BookSafe(Me)'
  BY <1>4, <1>5, <1>7, BookKept DEF Books
<1>9. Todo \in Targets /\ Todo' = Todo
  BY <1>1, <1>3, OnTargetKnows DEF OnTarget, Todo
<1>10. PICK f, r, i, R : f = op.found /\ r = op.regs /\ i = op.issued /\ R = CredsIn(op.retired)
  OBVIOUS
<1>11. /\ ~MyJournal.committed /\ MyJournal.issued \subseteq i /\ i \subseteq MyJournal.issued
       /\ Todo \in MyJournal.issuing
       /\ \A d \in i : conn[d] = "live" /\ MadeFor(p, d)
       /\ Sound(p, f) /\ CredsOf(f) \cap i = {}
       /\ Sound(p, r) /\ CredsOf(r) \subseteq CredsOf(f) \cup i
       /\ R \subseteq CredsOf(f) \cup i /\ R \cap CredsOf(r) = {}
       /\ CredsOf(f) \cup i \subseteq CredsOf(r) \cup R
       /\ op.left = {} /\ op.failed = {}
  BY <1>1, <1>4, <1>10 DEF OpBooks, AtWork, Works, OnTarget, InFlight, IsOn
<1>12. /\ CredsOf(f) \subseteq Creds /\ CredsOf(r) \subseteq Creds /\ i \subseteq Creds
  BY <1>1, <1>10, TableCreds DEF Types, OpTypes
<1>13. \A d \in CredsOf(f) \cup CredsOf(r) \cup i : d # c /\ conn'[d] = "live" /\ label'[d] = label[d]
  BY <1>2, <1>6, <1>11, <1>12, SoundCreds
<1>14. AtWork'
  <2>1. Sound(p, f)' /\ Sound(p, r)'
    BY <1>11, <1>13, SoundKept
  <2>2. \A d \in i \cup {c} : conn'[d] = "live" /\ MadeFor(p, d)'
    BY <1>4, <1>6, <1>9, <1>11, <1>13 DEF MadeFor
  <2>3. InFlight' = {c}
    BY <1>3 DEF InFlight, IsOn
  <2>4. c \notin CredsOf(f) \cup CredsOf(r) \cup R
    BY <1>11, <1>13
  <2>5. op'.found = f /\ op'.regs = r /\ op'.issued = i \cup {c} /\ CredsIn(op'.retired) = R
    BY <1>3, <1>10
  <2>6. \A d \in InFlight' : label'[d] = <<p, Todo>>
    BY <1>4, <1>6, <2>3
  <2>7. (CredsOf(f) \cup i \cup {c}) \subseteq CredsOf(r) \cup R \cup InFlight'
    BY <1>11, <2>3
  <2>8. QED
    BY <1>3, <1>4, <1>5, <1>9, <1>11, <2>1, <2>2, <2>3, <2>4, <2>5, <2>6, <2>7 DEF AtWork
<1>15. WorkWrites'
  <2>1. ~IsOn("commit") /\ ~IsOn("commit")'
    BY <1>1, <1>3 DEF IsOn
  <2>2. /\ disk[Manifest(p)] = f /\ ManifestWrites(p, MyJournal.writes) = {}
        /\ ToSet(op.writes) \subseteq ToSet(MyJournal.writes) /\ ManifestWrites(p, op.writes) = {}
    BY <1>1, <1>4, <1>10, <2>1 DEF OpBooks, WorkWrites, Works, OnTarget
  <2>3. /\ ManifestWrites(p, MyJournal.writes)' = ManifestWrites(p, MyJournal.writes)
        /\ ManifestWrites(p, op.writes)' = ManifestWrites(p, op.writes)
    BY <1>3, <1>5 DEF ManifestWrites
  <2>4. QED
    BY <1>1, <1>3, <1>4, <1>5, <1>10, <2>2, <2>3 DEF WorkWrites
<1>16. OpNames' = OpNames \cup {c}
  <2>1. Befores(p)' = Befores(p) /\ InManifest(p)' = InManifest(p)
    BY <1>1, <1>4, <1>5 DEF Befores, InManifest, ManifestWrites
  <2>2. QED
    BY <1>3, <1>4, <2>1 DEF OpNames
<1>17. QED
  BY <1>1, <1>3, <1>5, <1>6, <1>7, <1>8, <1>14, <1>15, <1>16, WorkGoesOn DEF Works, OnTarget
\* What an operation at work knows, its product and the fields it goes by named once.
LEMMA WorkFacts ==
    ASSUME Credited, op # Absent, op.phase \in Works, NEW p, p = Me, NEW f, f = op.found, NEW r, r = op.regs,
           NEW i, i = op.issued, NEW R, R = CredsIn(op.retired), NEW d, d = InFlight
    PROVE  /\ p \in Products /\ MyJournal = Book(p)
           /\ ~MyJournal.committed /\ MyJournal.issued \subseteq i
           /\ i \subseteq MyJournal.issued \cup (IF op.phase = "issue" THEN {op.cred} ELSE {})
           /\ op.phase \in {"create", "issue"} => Todo \in MyJournal.issuing
           /\ \A c \in i : conn[c] = "live" /\ MadeFor(p, c)
           /\ Sound(p, f) /\ CredsOf(f) \cap i = {}
           /\ Sound(p, r) /\ CredsOf(r) \subseteq CredsOf(f) \cup i
           /\ R \subseteq CredsOf(f) \cup i /\ R \cap CredsOf(r) = {}
           /\ CredsOf(f) \cup i \subseteq CredsOf(r) \cup R \cup d
           /\ d \subseteq i /\ d \cap (CredsOf(r) \cup R) = {}
           /\ \A c \in d : label[c] = <<p, Todo>>
           /\ op.left = {} /\ op.failed = {}
           /\ disk[Manifest(p)] = IF op.phase = "commit" THEN r ELSE f
           /\ \A w \in ManifestWrites(p, MyJournal.writes) :
                IsOn("commit") /\ w.before = f /\ w.after = r
           /\ ToSet(op.writes) \subseteq ToSet(MyJournal.writes)
           /\ (op.phase = "commit") <=> (ManifestWrites(p, op.writes) # {})
<1>1. p \in Products /\ MyJournal = Book(p)
  BY OwnBook DEF Credited
<1>2. /\ ~MyJournal.committed /\ MyJournal.issued \subseteq i
      /\ i \subseteq MyJournal.issued \cup (IF op.phase = "issue" THEN {op.cred} ELSE {})
      /\ op.phase \in {"create", "issue"} => Todo \in MyJournal.issuing
      /\ \A c \in i : conn[c] = "live" /\ MadeFor(p, c)
      /\ Sound(p, f) /\ CredsOf(f) \cap i = {}
      /\ Sound(p, r) /\ CredsOf(r) \subseteq CredsOf(f) \cup i
      /\ R \subseteq CredsOf(f) \cup i /\ R \cap CredsOf(r) = {}
      /\ CredsOf(f) \cup i \subseteq CredsOf(r) \cup R \cup d
      /\ d \subseteq i /\ d \cap (CredsOf(r) \cup R) = {}
      /\ \A c \in d : label[c] = <<p, Todo>>
      /\ op.left = {} /\ op.failed = {}
  BY DEF Credited, OpBooks, AtWork
<1>3. /\ disk[Manifest(p)] = IF op.phase = "commit" THEN r ELSE f
      /\ \A w \in ManifestWrites(p, MyJournal.writes) :
           IsOn("commit") /\ w.before = f /\ w.after = r
      /\ ToSet(op.writes) \subseteq ToSet(MyJournal.writes)
      /\ (op.phase = "commit") <=> (ManifestWrites(p, op.writes) # {})
  BY DEF Credited, OpBooks, WorkWrites
<1>4. QED
  BY <1>1, <1>2, <1>3

LEMMA RecordIssuedWorks == ASSUME Credited, Types', RecordIssued PROVE (Books /\ OpBooks)'
<1> USE DEF Credited
<1>1. /\ op # Absent /\ op.phase = "issue" /\ Goto("secret")
      /\ UNCHANGED <<disk, links, conn, label, notes, touched, spent>>
  BY DEF RecordIssued, Phase
<1> DEFINE j == [MyJournal EXCEPT !.issuing = @ \ {Todo}, !.issued = @ \cup {op.cred}]
<1>2. /\ op' # Absent /\ op'.phase = "secret" /\ op'.todo = op.todo /\ op'.product = op.product
      /\ UNCHANGED <<op.product, op.issued, op.found, op.regs, op.retired, op.left, op.failed, op.writes, op.cred>>
  BY <1>1, GoneTo
<1>3. /\ DOMAIN j = DOMAIN MyJournal /\ j.writes = MyJournal.writes /\ j.retired = MyJournal.retired
      /\ j.committed = MyJournal.committed /\ j.issued = MyJournal.issued \cup {op.cred}
  <2>1. MyJournal \in Journals(Me)
    BY <1>1, MyJournalType DEF Types
  <2>2. QED
    BY <2>1 DEF Journals
<1>4. Save(j)
  BY DEF RecordIssued
<1> HIDE DEF j
<1>5. PICK p \in Products : p = Me /\ MyJournal = Book(p)
  BY <1>1, OwnBook
<1>6. Book(p)' = j /\ OthersKept /\ MyJournal' = j /\ Me' = p
  <2>1. Book(p)' = j /\ OthersKept
    BY <1>1, <1>3, <1>4, <1>5, SavedBook DEF OthersKept
  <2>2. QED
    BY <1>2, <1>5, <2>1 DEF MyJournal, Book, Me
<1>7. PICK f, r, i, R, d : f = op.found /\ r = op.regs /\ i = op.issued /\ R = CredsIn(op.retired) /\ d = InFlight
  OBVIOUS
<1>8. /\ ~MyJournal.committed /\ MyJournal.issued \subseteq i
      /\ i \subseteq MyJournal.issued \cup {op.cred}
      /\ \A c \in i : conn[c] = "live" /\ MadeFor(p, c)
      /\ Sound(p, f) /\ CredsOf(f) \cap i = {}
      /\ Sound(p, r) /\ CredsOf(r) \subseteq CredsOf(f) \cup i
      /\ R \subseteq CredsOf(f) \cup i /\ R \cap CredsOf(r) = {}
      /\ CredsOf(f) \cup i \subseteq CredsOf(r) \cup R \cup d
      /\ d \subseteq i /\ d \cap (CredsOf(r) \cup R) = {}
      /\ \A c \in d : label[c] = <<p, Todo>>
      /\ op.left = {} /\ op.failed = {}
      /\ disk[Manifest(p)] = f
      /\ \A w \in ManifestWrites(p, MyJournal.writes) : IsOn("commit")
      /\ ToSet(op.writes) \subseteq ToSet(MyJournal.writes)
      /\ ManifestWrites(p, op.writes) = {}
  BY <1>1, <1>5, <1>7, WorkFacts DEF Works, OnTarget
<1>9. d = {op.cred} /\ InFlight' = d /\ Todo' = Todo
  BY <1>1, <1>2, <1>7 DEF InFlight, IsOn, Todo
<1>10. ManifestWrites(p, MyJournal.writes) = {} /\ ManifestWrites(p, MyJournal.writes)' = {}
  <2>1. ~IsOn("commit")
    BY <1>1 DEF IsOn
  <2>2. ManifestWrites(p, MyJournal.writes) = {}
    BY <1>8, <2>1
  <2>3. QED
    BY <1>3, <1>6, <2>2 DEF ManifestWrites
<1>11. \A x : (Sound(p, x) => Sound(p, x)') /\ \A c : (MadeFor(p, c) => MadeFor(p, c)')
  BY <1>1 DEF Sound, MadeFor
<1>12. AtWork'
  <2>1. op'.found = f /\ op'.regs = r /\ op'.issued = i /\ CredsIn(op'.retired) = R
    BY <1>2, <1>7
  <2>2. QED
    BY <1>1, <1>2, <1>3, <1>6, <1>8, <1>9, <1>11, <2>1 DEF AtWork
<1>13. WorkWrites'
  <2>1. ManifestWrites(p, op.writes)' = {}
    BY <1>2, <1>8 DEF ManifestWrites
  <2>2. QED
    BY <1>1, <1>2, <1>3, <1>6, <1>7, <1>8, <1>10, <2>1 DEF WorkWrites
<1>14. BookSafe(Me)'
  <2>1. Sound(p, disk[Manifest(p)])'
    BY <1>1, <1>8, <1>11
  <2>2. Book(p)'.retired = {} /\ ~Book(p)'.committed
    BY <1>3, <1>5, <1>6, <1>8 DEF Books, BookSafe, UndoSafe
  <2>3. \A c \in Book(p)'.issued : conn'[c] # "none" /\ MadeFor(p, c)'
    BY <1>1, <1>3, <1>6, <1>8, <1>9, <1>11
  <2>4. ManifestWrites(p, Book(p).writes)' = {}
    BY <1>6, <1>10
  <2>5. InManifest(p)' \cap Book(p)'.issued = {}
    BY <1>1, <1>3, <1>6, <1>8, <1>9 DEF InManifest
  <2>6. UndoSafe(p)' /\ FinishSafe(p)'
    BY <2>2, <2>3, <2>4, <2>5 DEF UndoSafe, FinishSafe
  <2>7. QED
    BY <1>6, <2>1, <2>6 DEF BookSafe
<1>15. OpNames' = OpNames
  <2>1. Befores(p)' = Befores(p) /\ InManifest(p)' = InManifest(p)
    BY <1>1, <1>5, <1>6, <1>10 DEF Befores, InManifest
  <2>2. QED
    BY <1>2, <1>5, <1>6, <2>1 DEF OpNames
<1>16. \A q \in Products : CalmFor(q)
  BY <1>1, CalmForAll
<1>17. QED
  BY <1>1, <1>2, <1>6, <1>12, <1>13, <1>14, <1>15, <1>16, WorkGoesOn DEF Works, OnTarget

LEMMA NextTargetWorks ==
    ASSUME Credited, Types', op # Absent, op.phase \in {"refreshed", "registered", "unlink"},
           NEW e \in Registrations \cup {NoEntry}, NEW retired \in SUBSET Registrations,
           op' = [op EXCEPT !.regs[Todo] = e, !.retired = retired, !.todo = Tail(@), !.phase = "target"],
           UNCHANGED <<disk, links, conn, label, journal, notes, touched, spent>>,
           NEW gone, gone = (IF Previous = NoEntry THEN {} ELSE {Previous.cred}),
           NEW new, new = (IF e = NoEntry THEN {} ELSE {e.cred}),
           \/ new = gone /\ InFlight = {} /\ CredsIn(retired) = CredsIn(op.retired)
           \/ new = InFlight /\ CredsIn(retired) = CredsIn(op.retired) \cup gone
    PROVE  (Books /\ OpBooks)'
<1> USE DEF Credited
<1>1. Me \in Products /\ Todo \in Targets /\ op.phase \in Works
  BY OnTargetKnows DEF OnTarget, Works
<1>2. /\ op' # Absent /\ op'.phase = "target" /\ op'.product = op.product
      /\ op'.issued = op.issued /\ op'.found = op.found /\ op'.regs = [op.regs EXCEPT ![Todo] = e]
      /\ op'.retired = retired /\ op'.left = op.left /\ op'.failed = op.failed /\ op'.writes = op.writes
  BY OpIsThere DEF Types, OpTypes, OpFields
<1>3. PICK p \in Products : p = Me /\ MyJournal = Book(p) /\ Me' = p
  BY <1>2, OwnBook DEF Me
<1>4. OthersKept /\ (\A q \in Products : SameBook(q)) /\ MyJournal' = MyJournal
  BY <1>2, SameJournal
<1>5. PICK f, r, i, R, d : f = op.found /\ r = op.regs /\ i = op.issued /\ R = CredsIn(op.retired) /\ d = InFlight
  OBVIOUS
<1>6. /\ ~MyJournal.committed /\ MyJournal.issued \subseteq i /\ i \subseteq MyJournal.issued
      /\ \A c \in i : conn[c] = "live" /\ MadeFor(p, c)
      /\ Sound(p, f) /\ CredsOf(f) \cap i = {}
      /\ Sound(p, r) /\ CredsOf(r) \subseteq CredsOf(f) \cup i
      /\ R \subseteq CredsOf(f) \cup i /\ R \cap CredsOf(r) = {}
      /\ CredsOf(f) \cup i \subseteq CredsOf(r) \cup R \cup d
      /\ d \subseteq i /\ d \cap (CredsOf(r) \cup R) = {}
      /\ \A c \in d : label[c] = <<p, Todo>>
      /\ op.left = {} /\ op.failed = {}
      /\ disk[Manifest(p)] = f
      /\ \A w \in ManifestWrites(p, MyJournal.writes) : IsOn("commit")
      /\ ToSet(op.writes) \subseteq ToSet(MyJournal.writes)
      /\ ManifestWrites(p, op.writes) = {}
  BY <1>1, <1>3, <1>5, WorkFacts
<1>7. InFlight' = {}
  BY <1>2 DEF InFlight, IsOn
<1>8. PICK y : y = [r EXCEPT ![Todo] = e]
  OBVIOUS
<1>9. /\ Sound(p, y) /\ CredsOf(r) \subseteq CredsOf(y) \cup gone /\ CredsOf(y) \subseteq CredsOf(r) \cup new
      /\ new \subseteq CredsOf(y) /\ gone \subseteq CredsOf(r) /\ gone \cap CredsOf(y) \subseteq new
  <2>1. r \in Tables /\ gone = (IF r[Todo] = NoEntry THEN {} ELSE {r[Todo].cred})
    BY <1>5 DEF Types, OpTypes, Previous
  <2>2. /\ r # Absent /\ y # Absent /\ y[Todo] = e /\ \A u \in Targets : u # Todo => y[u] = r[u]
    <3>1. y \in Tables
      BY <1>1, <1>8, <2>1 DEF Tables
    <3>2. y[Todo] = e /\ \A u \in Targets : u # Todo => y[u] = r[u]
      BY <1>1, <1>8, <2>1 DEF Tables
    <3>3. QED
      BY <1>1, <2>1, <3>1, <3>2, TableIsThere
  <2>3. e # NoEntry => conn[e.cred] = "live" /\ label[e.cred] = <<p, Todo>>
    <3>1. CASE new = gone /\ InFlight = {}
      <4>1. e # NoEntry => r[Todo] # NoEntry /\ e.cred = r[Todo].cred
        BY <2>1, <3>1
      <4>2. QED
        BY <1>1, <1>6, <2>2, <4>1 DEF Sound
    <3>2. CASE new = InFlight
      BY <1>5, <1>6, <3>2
    <3>3. QED
      BY <3>1, <3>2
  <2>4. Sound(p, y)
    <3>1. ASSUME NEW u \in Targets, y[u] # NoEntry
          PROVE  conn[y[u].cred] = "live" /\ label[y[u].cred] = <<p, u>>
      BY <1>6, <2>2, <2>3, <3>1 DEF Sound
    <3>2. QED
      BY <3>1 DEF Sound
  <2>5. CredsOf(r) \subseteq CredsOf(y) \cup gone
    BY <2>1, <2>2 DEF CredsOf
  <2>6. CredsOf(y) \subseteq CredsOf(r) \cup new
    BY <2>2 DEF CredsOf
  <2>7. new \subseteq CredsOf(y) /\ gone \subseteq CredsOf(r)
    BY <1>1, <2>1, <2>2 DEF CredsOf
  <2>8. ASSUME NEW c \in gone \cap CredsOf(y) PROVE c \in new
    <3>1. r[Todo] # NoEntry /\ c = r[Todo].cred /\ label[c] = <<p, Todo>>
      BY <1>1, <1>6, <2>1, <2>2 DEF Sound
    <3>2. PICK u \in Targets : y[u] # NoEntry /\ c = y[u].cred
      BY <2>2 DEF CredsOf
    <3>3. label[c] = <<p, u>>
      BY <2>2, <2>4, <3>2 DEF Sound
    <3>4. u = Todo
      BY <3>1, <3>3
    <3>5. QED
      BY <2>2, <3>2, <3>4
  <2>9. QED
    BY <2>4, <2>5, <2>6, <2>7, <2>8
<1>10. PICK S : S = CredsIn(retired)
  OBVIOUS
<1>11. \/ new = gone /\ d = {} /\ S = R
       \/ new = d /\ S = R \cup gone
  BY <1>5, <1>10
<1>12. /\ CredsOf(y) \subseteq CredsOf(f) \cup i /\ S \subseteq CredsOf(f) \cup i
       /\ S \cap CredsOf(y) = {} /\ CredsOf(f) \cup i \subseteq CredsOf(y) \cup S
  <2>1. CASE new = gone /\ d = {} /\ S = R
    BY <1>6, <1>9, <2>1
  <2>2. CASE new = d /\ S = R \cup gone
    BY <1>6, <1>9, <2>2
  <2>3. QED
    BY <1>11, <2>1, <2>2
<1>13. \A x : (Sound(p, x) => Sound(p, x)') /\ \A c : (MadeFor(p, c) => MadeFor(p, c)')
  BY DEF Sound, MadeFor
<1>14. AtWork'
  <2>1. op'.found = f /\ op'.regs = y /\ op'.issued = i /\ CredsIn(op'.retired) = S
    BY <1>2, <1>5, <1>8, <1>10
  <2>2. QED
    BY <1>2, <1>3, <1>4, <1>6, <1>7, <1>9, <1>12, <1>13, <2>1 DEF AtWork
<1>15. WorkWrites'
  <2>1. ~IsOn("commit")
    BY DEF IsOn
  <2>2. ManifestWrites(p, MyJournal.writes)' = {} /\ ManifestWrites(p, op.writes)' = {}
    BY <1>2, <1>4, <1>6, <2>1 DEF ManifestWrites
  <2>3. QED
    BY <1>2, <1>3, <1>4, <1>5, <1>6, <2>2 DEF WorkWrites
<1>16. \A q \in Products : CalmFor(q)
  BY CalmForAll
<1>17. BookSafe(Me)'
  BY <1>3, <1>4, <1>16, BookKept DEF Books
<1>18. OpNames \subseteq OpNames'
  <2>1. Befores(p)' = Befores(p) /\ InManifest(p)' = InManifest(p)
    <3>1. Book(p)' = Book(p)
      BY DEF Book
    <3>2. QED
      BY <3>1 DEF Befores, InManifest, ManifestWrites
  <2>2. R \subseteq S
    BY <1>11
  <2>3. QED
    BY <1>2, <1>3, <1>5, <1>10, <2>1, <2>2 DEF OpNames
<1>19. notes' = notes /\ \A c \in Creds : conn'[c] = conn[c] /\ label'[c] = label[c]
  OBVIOUS
<1>20. op'.phase \in Works
  BY <1>2 DEF Works
<1>21. QED
  BY <1>1, <1>2, <1>4, <1>14, <1>15, <1>16, <1>17, <1>18, <1>19, <1>20, WorkGoesOn

LEMMA RegisteredStepsWork ==
    ASSUME Credited, Types', Refreshed \/ AddRegistration \/ Unregister
    PROVE  (Books /\ OpBooks)'
<1> USE DEF Credited
<1>1. /\ op # Absent /\ op.phase \in {"refreshed", "registered", "unlink"} /\ op.version \in Nat
      /\ op.retired \in SUBSET Registrations
      /\ UNCHANGED <<disk, links, conn, label, journal, notes, touched, spent>>
  BY DEF Refreshed, AddRegistration, Unregister, Phase, Types, OpTypes
<1>2. /\ Todo \in Targets /\ Previous \in Registrations \cup {NoEntry}
      /\ op.phase = "registered" => op.cred \in Creds
      /\ op.phase = "refreshed" => Previous \in Registrations
  BY <1>1, OnTargetKnows DEF OnTarget
<1>3. PICK gone : gone = (IF Previous = NoEntry THEN {} ELSE {Previous.cred})
  OBVIOUS
<1>4. Retire \in SUBSET Registrations /\ CredsIn(Retire) = CredsIn(op.retired) \cup gone
  BY <1>1, <1>2, <1>3 DEF Retire, CredsIn
<1>5. CASE Refreshed
  <2>1. op.phase = "refreshed" /\ InFlight = {}
    BY <1>5 DEF Refreshed, Phase, InFlight, IsOn
  <2>2. Previous.cred \in Creds /\ Previous # NoEntry
    BY <1>2, <2>1, NoRegistration DEF Registrations
  <2>3. PICK e : e = Entry(Previous.cred, op.version)
    OBVIOUS
  <2>4. e \in Registrations /\ e # NoEntry /\ e.cred = Previous.cred
    BY <1>1, <2>2, <2>3, NewEntries DEF Entry
  <2>5. op' = [op EXCEPT !.regs[Todo] = e, !.retired = op.retired, !.todo = Tail(@), !.phase = "target"]
    BY <1>1, <1>5, <2>3 DEF Refreshed, Types, OpTypes, OpFields
  <2>6. gone = {e.cred}
    BY <1>3, <2>2, <2>4
  <2>7. QED
    BY <1>1, <1>3, <2>1, <2>4, <2>5, <2>6, NextTargetWorks
<1>6. CASE AddRegistration
  <2>1. op.phase = "registered" /\ InFlight = {op.cred}
    BY <1>6 DEF AddRegistration, Phase, InFlight, IsOn
  <2>2. PICK e : e = Entry(op.cred, op.version)
    OBVIOUS
  <2>3. e \in Registrations /\ e # NoEntry /\ e.cred = op.cred
    BY <1>1, <1>2, <2>1, <2>2, NewEntries DEF Entry
  <2>4. op' = [op EXCEPT !.regs[Todo] = e, !.retired = Retire, !.todo = Tail(@), !.phase = "target"]
    BY <1>6, <2>2 DEF AddRegistration
  <2>5. QED
    BY <1>1, <1>3, <1>4, <2>1, <2>3, <2>4, NextTargetWorks
<1>7. CASE Unregister
  <2>1. op.phase = "unlink" /\ InFlight = {}
    BY <1>7 DEF Unregister, Phase, InFlight, IsOn
  <2>2. op' = [op EXCEPT !.regs[Todo] = NoEntry, !.retired = Retire, !.todo = Tail(@), !.phase = "target"]
    BY <1>7 DEF Unregister
  <2>3. PICK e : e = NoEntry
    OBVIOUS
  <2>4. QED
    BY <1>1, <1>3, <1>4, <2>1, <2>2, <2>3, NextTargetWorks
<1>8. QED
  BY <1>5, <1>6, <1>7
\* The work is given up: the operation undoes its own writes.
LEMMA WorkGivenUp ==
    ASSUME Credited, Types', op # Absent, op.phase \in Works, Rollback,
           UNCHANGED <<disk, links, conn, label, journal, notes>>
    PROVE  (Books /\ OpBooks)'
<1> USE DEF Credited
<1>1. /\ op' # Absent /\ op'.phase = "rollback" /\ op'.product = op.product
      /\ op'.issued = op.issued /\ op'.retired = op.retired /\ op'.left = op.left
      /\ op'.failed = op.failed /\ op'.writes = op.writes
  BY OpIsThere DEF Types, OpTypes, OpFields, Rollback
<1>2. PICK p \in Products : p = Me /\ MyJournal = Book(p) /\ Me' = p
  BY <1>1, OwnBook DEF Me
<1>3. OthersKept /\ (\A q \in Products : SameBook(q)) /\ MyJournal' = MyJournal
  BY <1>1, SameJournal
<1>4. PICK f, r, i, R, d : f = op.found /\ r = op.regs /\ i = op.issued /\ R = CredsIn(op.retired) /\ d = InFlight
  OBVIOUS
<1>5. PICK mine : mine = ManifestWrites(p, MyJournal.writes)
  OBVIOUS
<1>6. /\ ~MyJournal.committed /\ MyJournal.issued \subseteq i
      /\ i \subseteq MyJournal.issued \cup (IF op.phase = "issue" THEN {op.cred} ELSE {})
      /\ op.phase = "issue" => Todo \in MyJournal.issuing
      /\ \A c \in i : conn[c] = "live" /\ MadeFor(p, c)
      /\ CredsOf(f) \cap i = {}
      /\ CredsOf(r) \subseteq CredsOf(f) \cup i
      /\ R \subseteq CredsOf(f) \cup i
      /\ \A c \in d : label[c] = <<p, Todo>>
      /\ op.left = {} /\ op.failed = {}
      /\ disk[Manifest(p)] = IF op.phase = "commit" THEN r ELSE f
      /\ \A w \in mine : w.before = f /\ w.after = r
      /\ ToSet(op.writes) \subseteq ToSet(MyJournal.writes)
      /\ (op.phase = "commit") <=> (ManifestWrites(p, op.writes) # {})
  BY <1>2, <1>4, <1>5, WorkFacts
<1>7. mine' = mine /\ ManifestWrites(p, op.writes)' = ManifestWrites(p, op.writes)
      /\ ManifestWrites(p, MyJournal.writes)' = mine /\ ManifestWrites(p, op.writes) \subseteq mine
  BY <1>1, <1>3, <1>5, <1>6 DEF ManifestWrites
<1>8. InManifest(p)' = InManifest(p) /\ Befores(p)' = Befores(p)
  <2>1. Book(p)' = Book(p)
    BY DEF Book
  <2>2. QED
    BY <2>1 DEF InManifest, Befores, ManifestWrites
<1>9. InManifest(p) \subseteq CredsOf(f) \/ mine # {}
  BY <1>6, <1>7 DEF InManifest
<1>10. Undoing'
  <2>1. ManifestWrites(p, op.writes) = {} => \A w \in mine : disk'[Manifest(p)] = w.before
    BY <1>6
  <2>2. QED
    BY <1>1, <1>2, <1>3, <1>6, <1>7, <2>1 DEF Undoing
<1>11. RollingBack'
  <2>1. ASSUME NEW c \in i PROVE Issued(c)'
    <3>1. CASE c \in MyJournal.issued
      BY <1>3, <3>1 DEF Issued
    <3>2. CASE op.phase = "issue" /\ c = op.cred
      <4>1. c \in d /\ Todo \in Targets
        BY <1>4, <3>2, OnTargetKnows DEF InFlight, IsOn, OnTarget
      <4>2. label'[c] = <<p, Todo>> /\ Todo \in MyJournal'.issuing
        BY <1>3, <1>6, <3>2, <4>1
      <4>3. QED
        BY <1>2, <4>2 DEF Issued
    <3>3. QED
      BY <1>6, <3>1, <3>2
  <2>2. \A c \in i : conn'[c] # "none" /\ MadeFor(p, c)'
    BY <1>6 DEF MadeFor
  <2>3. R \subseteq i \cup InManifest(p) \cup Befores(p)
    <3>1. CASE mine # {}
      <4>1. CredsOf(f) \subseteq Befores(p)
        BY <1>2, <1>5, <1>6, <3>1 DEF Befores
      <4>2. QED
        BY <1>6, <4>1
    <3>2. CASE mine = {}
      <4>1. CredsOf(f) = InManifest(p)
        BY <1>6, <1>7, <3>2 DEF InManifest
      <4>2. QED
        BY <1>6, <4>1
    <3>3. QED
      BY <3>1, <3>2
  <2>4. mine = {} => InManifest(p) \cap i = {}
    BY <1>6, <1>9
  <2>5. op'.issued = i /\ CredsIn(op'.retired) = R /\ op'.left = {}
    BY <1>1, <1>4, <1>6
  <2>6. QED
    BY <1>1, <1>2, <1>3, <1>6, <1>7, <1>8, <2>1, <2>2, <2>3, <2>4, <2>5 DEF RollingBack
<1>12. AtWork' /\ WorkWrites' /\ Finishing' /\ Recovering'
  BY <1>1 DEF AtWork, WorkWrites, Finishing, Recovering, Works, OnTarget
<1>13. Books'
  BY <1>3, BooksKept
<1>14. Traced'
  <2>1. OpNames' = OpNames
    BY <1>1, <1>2, <1>8 DEF OpNames
  <2>2. op.phase \notin Unrecovered /\ op'.phase \notin Unrecovered
    BY <1>1 DEF Works, OnTarget, Unrecovered
  <2>3. QED
    BY <1>1, <1>3, <2>1, <2>2, TracedKept
<1>15. QED
  BY <1>10, <1>11, <1>12, <1>13, <1>14 DEF OpBooks

\* The first books of an operation: nothing is issued and nothing retired.
LEMMA PlanWorks == ASSUME Credited, Types', Plan PROVE (Books /\ OpBooks)'
<1> USE DEF Credited
<1>1. op # Absent /\ op.phase = "plan" /\ UNCHANGED <<disk, links, conn, label, journal, notes, touched, spent>>
  BY DEF Plan, Phase
<1>2. PICK p \in Products : p = Me /\ MyJournal = Book(p)
  BY <1>1, OwnBook
<1>3. /\ op.issued = {} /\ op.retired = {} /\ op.left = {} /\ op.failed = {} /\ op.writes = <<>>
      /\ journal[p] = Absent
  BY <1>1, <1>2 DEF OpBooks, Recovering
<1>4. /\ MyJournal = EmptyJournal /\ MyJournal.writes = <<>> /\ MyJournal.issued = {}
      /\ MyJournal.committed = FALSE
  BY <1>2, <1>3 DEF Book, EmptyJournal
<1>5. /\ op' # Absent /\ op'.product = op.product /\ op'.issued = {} /\ op'.retired = {}
      /\ op'.left = {} /\ op'.failed = {} /\ op'.writes = <<>>
      /\ \/ op'.phase = "rollback"
         \/ op'.phase \in {"target", "skill"} /\ op'.found = disk[Manifest(Me)] /\ op'.regs = Regs(Me)
  <2> USE DEF Types, OpTypes, OpFields
  <2>1. CASE Conflict(Me, op.kind, ToSet(op.todo))
    BY <1>1, <1>3, <2>1, OpIsThere DEF Plan, Rollback
  <2>2. CASE ~Conflict(Me, op.kind, ToSet(op.todo))
    <3>1. op' = [op EXCEPT
                !.phase = IF op.kind = "uninstall" THEN "target" ELSE "skill",
                !.text = [t \in Targets |-> disk[Config(t)]],
                !.regs = Regs(Me), !.found = disk[Manifest(Me)],
                !.kept = {t \in ToSet(op.todo) : Kept(Me, t, op.kind)}]
      BY <2>2 DEF Plan
    <3>2. QED
      BY <1>1, <1>3, <3>1, OpIsThere
  <2>3. QED
    BY <2>1, <2>2
<1>6. Me' = p
  BY <1>2, <1>5 DEF Me
<1>7. OthersKept /\ (\A q \in Products : SameBook(q)) /\ MyJournal' = MyJournal
  BY <1>1, <1>5, SameJournal
<1>8. ToSet(<<>>) = {} /\ CredsIn({}) = {}
  BY DEF ToSet, CredsIn
<1>9. ManifestWrites(p, <<>>) = {}
  BY <1>8 DEF ManifestWrites
<1>10. OpNames' = OpNames
  <2>1. Book(p)' = Book(p)
    BY <1>1 DEF Book
  <2>2. InManifest(p)' = InManifest(p) /\ Befores(p)' = Befores(p)
    BY <1>1, <2>1 DEF InManifest, Befores, ManifestWrites
  <2>3. QED
    BY <1>2, <1>3, <1>5, <1>6, <2>2 DEF OpNames
<1>11. \A x : Sound(p, x) => Sound(p, x)'
  BY <1>1 DEF Sound
<1>12. Books'
  BY <1>1, <1>7, BooksKept
<1>13. CASE op'.phase = "rollback"
  <2>1. Undoing'
    <3>1. ManifestWrites(p, MyJournal.writes)' = {}
      BY <1>4, <1>7, <1>9 DEF ManifestWrites
    <3>2. QED
      BY <1>4, <1>5, <1>6, <1>7, <1>8, <1>13, <3>1 DEF Undoing
  <2>2. RollingBack'
    <3>1. ManifestWrites(p, MyJournal.writes)' = {}
      BY <1>4, <1>7, <1>9 DEF ManifestWrites
    <3>2. QED
      BY <1>4, <1>5, <1>6, <1>7, <1>8, <1>13, <3>1 DEF RollingBack
  <2>3. AtWork' /\ WorkWrites' /\ Finishing' /\ Recovering'
    BY <1>13 DEF AtWork, WorkWrites, Finishing, Recovering, Works, OnTarget
  <2>4. op.phase \notin Unrecovered /\ op'.phase \notin Unrecovered
    BY <1>1, <1>13 DEF Unrecovered
  <2>5. Traced'
    BY <1>1, <1>5, <1>7, <1>10, <2>4, TracedKept
  <2>6. QED
    BY <1>12, <2>1, <2>2, <2>3, <2>5 DEF OpBooks
<1>14. CASE /\ op'.phase \in {"target", "skill"} /\ op'.found = disk[Manifest(Me)] /\ op'.regs = Regs(Me)
  <2>1. PICK f, r : f = disk[Manifest(p)] /\ r = Regs(p)
    OBVIOUS
  <2>2. Sound(p, f) /\ Sound(p, r) /\ CredsOf(r) = CredsOf(f)
    <3>1. Sound(p, f)
      BY <2>1 DEF Books, BookSafe
    <3>2. CASE f = Absent
      <4>1. \A t \in Targets : r[t] = NoEntry
        BY <2>1, <3>2 DEF Regs, NoRegs
      <4>2. QED
        BY <3>1, <3>2, <4>1 DEF Sound, CredsOf
    <3>3. CASE f # Absent
      BY <2>1, <3>1, <3>3 DEF Regs
    <3>4. QED
      BY <3>2, <3>3
  <2>3. InFlight' = {}
    BY <1>14 DEF InFlight, IsOn
  <2>4. op'.found = f /\ op'.regs = r
    BY <1>2, <1>14, <2>1
  <2>5. AtWork'
    BY <1>4, <1>5, <1>6, <1>7, <1>8, <1>11, <1>14, <2>2, <2>3, <2>4 DEF AtWork
  <2>6. WorkWrites'
    <3>1. ManifestWrites(p, MyJournal.writes)' = {} /\ ManifestWrites(p, op.writes)' = {}
      BY <1>4, <1>5, <1>7, <1>8 DEF ManifestWrites
    <3>2. disk'[Manifest(p)] = f
      BY <1>1, <2>1
    <3>3. QED
      BY <1>5, <1>6, <1>7, <1>8, <1>14, <2>4, <3>1, <3>2 DEF WorkWrites
  <2>7. \A q \in Products : CalmFor(q)
    BY <1>1, CalmForAll
  <2>8. BookSafe(Me)'
    BY <1>6, <1>12 DEF Books
  <2>9. op'.phase \in Works
    BY <1>14 DEF Works
  <2>10. QED
    BY <1>1, <1>5, <1>7, <1>10, <2>5, <2>6, <2>7, <2>8, <2>9, WorkGoesOn
<1>15. QED
  BY <1>5, <1>13, <1>14

LEMMA WriteManifestWorks == ASSUME Credited, Types', WriteManifest PROVE (Books /\ OpBooks)'
<1> USE DEF Credited
<1>1. op # Absent /\ op.phase = "manifest" /\ UNCHANGED <<disk, links, conn, label, notes, touched, spent>>
  BY DEF WriteManifest, Phase
<1>0. PICK w : w = [file |-> Manifest(Me), before |-> op.found, after |-> op.regs]
  OBVIOUS
<1> DEFINE j == [MyJournal EXCEPT !.writes = Append(@, w)]
<1>2. op' = [op EXCEPT !.phase = "apply", !.then = "commit", !.write = w] /\ Save(j)
  BY <1>0 DEF WriteManifest, Write
<1>3. /\ op' # Absent /\ op'.phase = "apply" /\ op'.then = "commit" /\ op'.write = w
      /\ op'.todo = op.todo /\ op'.product = op.product /\ op'.issued = op.issued
      /\ op'.found = op.found /\ op'.regs = op.regs /\ op'.retired = op.retired
      /\ op'.left = op.left /\ op'.failed = op.failed /\ op'.writes = op.writes
  BY <1>1, <1>2, OpIsThere DEF Types, OpTypes, OpFields
<1>4. w \in Writings(Me)
  BY <1>3 DEF Types, OpKnows, Me
<1>5. w.file = Manifest(Me) /\ w.before = op.found /\ w.after = op.regs
  BY <1>0
<1>6. MyJournal \in Journals(Me)
  BY <1>1, MyJournalType DEF Types
<1>7. /\ DOMAIN j = DOMAIN MyJournal /\ j.writes = Append(MyJournal.writes, w)
      /\ j.issued = MyJournal.issued /\ j.retired = MyJournal.retired /\ j.committed = MyJournal.committed
  BY <1>6 DEF Journals
<1> HIDE DEF j
<1>8. ToSet(j.writes) = ToSet(MyJournal.writes) \cup {w}
  <2>1. MyJournal.writes \in Seq(Writings(Me))
    BY <1>6 DEF Journals
  <2>2. QED
    BY <1>4, <1>7, <2>1, AppendTo
<1>9. PICK p \in Products : p = Me /\ MyJournal = Book(p)
  BY <1>1, OwnBook
<1>10. Book(p)' = j /\ OthersKept /\ MyJournal' = j /\ Me' = p
  <2>1. Book(p)' = j /\ OthersKept
    BY <1>1, <1>2, <1>7, <1>9, SavedBook DEF OthersKept
  <2>2. QED
    BY <1>3, <1>9, <2>1 DEF MyJournal, Book, Me
<1>11. PICK f, r, i, R, d : f = op.found /\ r = op.regs /\ i = op.issued /\ R = CredsIn(op.retired) /\ d = InFlight
  OBVIOUS
<1>12. /\ ~MyJournal.committed /\ MyJournal.issued \subseteq i /\ i \subseteq MyJournal.issued
       /\ \A c \in i : conn[c] = "live" /\ MadeFor(p, c)
       /\ Sound(p, f) /\ CredsOf(f) \cap i = {}
       /\ Sound(p, r) /\ CredsOf(r) \subseteq CredsOf(f) \cup i
       /\ R \subseteq CredsOf(f) \cup i /\ R \cap CredsOf(r) = {}
       /\ CredsOf(f) \cup i \subseteq CredsOf(r) \cup R \cup d
       /\ op.left = {} /\ op.failed = {}
       /\ disk[Manifest(p)] = f
       /\ \A x \in ManifestWrites(p, MyJournal.writes) : IsOn("commit")
       /\ ToSet(op.writes) \subseteq ToSet(MyJournal.writes)
       /\ ManifestWrites(p, op.writes) = {}
  BY <1>1, <1>9, <1>11, WorkFacts DEF Works
<1>13. d = {} /\ InFlight' = {}
  BY <1>1, <1>3, <1>11 DEF InFlight, IsOn
<1>14. ManifestWrites(p, j.writes) = {w}
  <2>1. ~IsOn("commit")
    BY <1>1 DEF IsOn
  <2>2. ManifestWrites(p, MyJournal.writes) = {}
    BY <1>12, <2>1
  <2>3. QED
    BY <1>5, <1>8, <1>9, <2>2 DEF ManifestWrites
<1>15. \A x : (Sound(p, x) => Sound(p, x)') /\ \A c : (MadeFor(p, c) => MadeFor(p, c)')
  BY <1>1 DEF Sound, MadeFor
<1>16. AtWork'
  <2>1. op'.found = f /\ op'.regs = r /\ op'.issued = i /\ CredsIn(op'.retired) = R
    BY <1>3, <1>11
  <2>2. QED
    BY <1>1, <1>3, <1>7, <1>10, <1>12, <1>13, <1>15, <2>1 DEF AtWork
<1>17. ManifestWrites(p, MyJournal.writes)' = {w} /\ ManifestWrites(p, op.writes)' = {}
  BY <1>3, <1>10, <1>12, <1>14 DEF ManifestWrites
<1>18. WorkWrites'
  <2>1. IsOn("commit")'
    BY <1>3 DEF IsOn
  <2>2. ToSet(op'.writes) \subseteq ToSet(MyJournal'.writes) /\ op'.write \in ToSet(MyJournal'.writes)
    BY <1>3, <1>8, <1>10, <1>12
  <2>3. disk'[Manifest(p)] = op'.found
    BY <1>1, <1>3, <1>11, <1>12
  <2>4. QED
    <3>1. w.before = op'.found /\ w.after = op'.regs /\ op'.write = w /\ w.file = Manifest(p)
      BY <1>3, <1>5, <1>9
    <3>2. op'.phase # "commit" /\ op'.then = "commit"
      BY <1>3
    <3>3. QED
      BY <1>10, <1>17, <2>1, <2>2, <2>3, <3>1, <3>2 DEF WorkWrites
<1>19. BookSafe(Me)'
  <2>1. Sound(p, disk[Manifest(p)])'
    BY <1>1, <1>12, <1>15
  <2>2. Book(p)'.retired = {} /\ ~Book(p)'.committed /\ Book(p)'.issued = i
    <3>1. MyJournal.retired = {} /\ MyJournal.issued = i
      BY <1>9, <1>12 DEF Books, BookSafe, UndoSafe
    <3>2. QED
      BY <1>7, <1>10, <1>12, <3>1
  <2>3. \A c \in i : conn'[c] # "none" /\ MadeFor(p, c)'
    BY <1>1, <1>12, <1>15
  <2>4. ManifestWrites(p, Book(p).writes)' = {w}
    BY <1>10, <1>14 DEF ManifestWrites
  <2>5. Sound(p, w.before)' /\ CredsOf(w.before) \cap i = {} /\ CredsOf(w.after) \subseteq CredsOf(w.before) \cup i
        /\ disk'[Manifest(p)] = w.before
    BY <1>1, <1>5, <1>11, <1>12, <1>15
  <2>6. UndoSafe(p)' /\ FinishSafe(p)'
    BY <2>2, <2>3, <2>4, <2>5 DEF UndoSafe, FinishSafe
  <2>7. QED
    BY <1>10, <2>1, <2>6 DEF BookSafe
<1>20. OpNames \subseteq OpNames'
  <2>1. InManifest(p)' = InManifest(p)
    BY <1>1 DEF InManifest
  <2>2. Befores(p) = {}
    <3>1. ~IsOn("commit")
      BY <1>1 DEF IsOn
    <3>2. ManifestWrites(p, Book(p).writes) = {}
      BY <1>9, <1>12, <3>1
    <3>3. QED
      BY <3>2 DEF Befores
  <2>3. QED
    BY <1>3, <1>9, <1>10, <2>1, <2>2 DEF OpNames
<1>21. \A q \in Products : CalmFor(q)
  BY <1>1, CalmForAll
<1>22. \A c \in Creds : conn'[c] = conn[c] /\ label'[c] = label[c]
  BY <1>1
<1>23. op.phase \in Works /\ op'.phase \in Works
  BY <1>1, <1>3 DEF Works
<1>24. QED
  BY <1>1, <1>3, <1>10, <1>16, <1>18, <1>19, <1>20, <1>21, <1>22, <1>23, WorkGoesOn
LEMMA AppliedWorks ==
    ASSUME Credited, Types', Apply
    PROVE  (Books /\ OpBooks)'
<1> USE DEF Credited
<1>1. /\ op # Absent /\ op.phase = "apply" /\ UNCHANGED <<links, conn, label, journal, notes, spent>>
      /\ op' = [op EXCEPT !.phase = op.then, !.writes = Append(@, op.write), !.write = <<>>,
                           !.seen = <<>>]
  BY DEF Apply, Phase
<1>2. PICK w, then : w = op.write /\ then = op.then
  OBVIOUS
<1>3. /\ op' # Absent /\ op'.phase = then /\ op'.todo = op.todo /\ op'.product = op.product
      /\ op'.issued = op.issued /\ op'.found = op.found /\ op'.regs = op.regs /\ op'.cred = op.cred
      /\ op'.retired = op.retired /\ op'.left = op.left /\ op'.failed = op.failed
      /\ op'.writes = Append(op.writes, w)
  BY <1>1, <1>2, OpIsThere DEF Types, OpTypes, OpFields
<1>4. PICK p \in Products : p = Me /\ MyJournal = Book(p) /\ Me' = p
  BY <1>1, <1>3, OwnBook DEF Me
<1>5. /\ w \in Writings(p) /\ then \in OnTarget \cup {"target", "commit"} /\ op.writes \in Seq(Writings(p))
  BY <1>1, <1>2, <1>4 DEF Types, OpTypes, OpKnows
<1>6. PICK f, r, i, R, d : f = op.found /\ r = op.regs /\ i = op.issued /\ R = CredsIn(op.retired) /\ d = InFlight
  OBVIOUS
<1>7. PICK mine : mine = ManifestWrites(p, MyJournal.writes)
  OBVIOUS
<1>8. op.phase \in Works
  BY <1>1 DEF Works
<1>9. /\ ~MyJournal.committed /\ MyJournal.issued \subseteq i /\ i \subseteq MyJournal.issued
      /\ \A c \in i : conn[c] = "live" /\ MadeFor(p, c)
      /\ Sound(p, f) /\ CredsOf(f) \cap i = {}
      /\ Sound(p, r) /\ CredsOf(r) \subseteq CredsOf(f) \cup i
      /\ R \subseteq CredsOf(f) \cup i /\ R \cap CredsOf(r) = {}
      /\ CredsOf(f) \cup i \subseteq CredsOf(r) \cup R \cup d
      /\ d \subseteq i /\ d \cap (CredsOf(r) \cup R) = {}
      /\ \A c \in d : label[c] = <<p, Todo>>
      /\ op.left = {} /\ op.failed = {}
      /\ disk[Manifest(p)] = f
      /\ \A x \in mine : IsOn("commit") /\ x.before = f /\ x.after = r
      /\ ToSet(op.writes) \subseteq ToSet(MyJournal.writes)
      /\ ManifestWrites(p, op.writes) = {}
  BY <1>1, <1>4, <1>6, <1>7, <1>8, WorkFacts
<1>10. /\ w \in ToSet(MyJournal.writes) /\ then \notin {"create", "issue"}
       /\ (then = "commit") <=> (w.file = Manifest(p))
  BY <1>1, <1>2, <1>4, <1>8 DEF OpBooks, WorkWrites
<1>11. MyJournal' = MyJournal /\ mine' = mine /\ ManifestWrites(p, MyJournal.writes)' = mine /\ Book(p)' = Book(p)
  BY <1>1, <1>3, <1>7 DEF MyJournal, Book, Me, ManifestWrites
<1>12. ToSet(op'.writes) = ToSet(op.writes) \cup {w}
  BY <1>3, <1>5, AppendTo
<1>13. disk' = [disk EXCEPT ![w.file] = w.after]
  BY <1>2 DEF Apply, Put
<1>14. /\ \A q \in Products \ {p} : disk'[Manifest(q)] = disk[Manifest(q)]
       /\ disk'[Manifest(p)] = IF then = "commit" THEN r ELSE f
  <2>1. \A q \in Products : q # p => w.file # Manifest(q)
    BY <1>5 DEF Writings
  <2>2. \A q \in Products : Manifest(q) \in DOMAIN disk
    BY FilesOf DEF Types, DiskTypes
  <2>3. CASE then = "commit"
    <3>1. w \in mine /\ w.file = Manifest(p)
      BY <1>7, <1>10, <2>3 DEF ManifestWrites
    <3>2. w.after = r
      BY <1>9, <3>1
    <3>3. QED
      BY <1>13, <2>1, <2>2, <2>3, <3>1, <3>2
  <2>4. CASE then # "commit"
    BY <1>9, <1>10, <1>13, <2>1, <2>2, <2>4
  <2>5. QED
    BY <2>3, <2>4
<1>15. OthersKept
  BY <1>1, <1>4, <1>14 DEF OthersKept, Book
<1>16. InFlight' = d /\ (IsOn("commit"))' = IsOn("commit") /\ Todo' = Todo
  <2>1. \A step \in {"issue", "secret", "newEntry", "registered", "commit"} :
           (step = op'.phase \/ (op'.phase = "apply" /\ op'.then = step)) <=> step = then
    BY <1>3, <1>5 DEF OnTarget
  <2>2. \A step \in {"issue", "secret", "newEntry", "registered", "commit"} :
           (step = op.phase \/ (op.phase = "apply" /\ op.then = step)) <=> step = then
    BY <1>1, <1>2
  <2>3. QED
    BY <1>3, <1>6, <2>1, <2>2 DEF InFlight, IsOn, Todo
<1>17. \A x : (Sound(p, x) => Sound(p, x)') /\ \A c : (MadeFor(p, c) => MadeFor(p, c)')
  BY <1>1 DEF Sound, MadeFor
<1>18. AtWork'
  <2>1. op'.found = f /\ op'.regs = r /\ op'.issued = i /\ CredsIn(op'.retired) = R
    BY <1>3, <1>6
  <2>2. op'.phase \notin {"create", "issue"}
    BY <1>3, <1>10
  <2>3. QED
    BY <1>1, <1>3, <1>4, <1>9, <1>11, <1>16, <1>17, <2>1, <2>2 DEF AtWork
<1>19. WorkWrites'
  <2>1. ManifestWrites(p, op'.writes) = IF then = "commit" THEN {w} ELSE {}
    BY <1>9, <1>10, <1>12 DEF ManifestWrites
  <2>2. ToSet(op'.writes) \subseteq ToSet(MyJournal'.writes)
    BY <1>9, <1>10, <1>11, <1>12
  <2>3. op'.phase # "apply"
    BY <1>3, <1>5 DEF OnTarget
  <2>4. op'.found = f /\ op'.regs = r
    BY <1>3, <1>6
  <2>5. \A x \in mine : IsOn("commit")' /\ x.before = f /\ x.after = r
    BY <1>9, <1>16
  <2>6. (op'.phase = "commit") <=> (ManifestWrites(p, op'.writes) # {})
    BY <1>3, <2>1
  <2>7. disk'[Manifest(p)] = IF op'.phase = "commit" THEN r ELSE f
    BY <1>3, <1>14
  <2>8. QED
    BY <1>4, <1>11, <2>2, <2>3, <2>4, <2>5, <2>6, <2>7 DEF WorkWrites
<1>20. \A q \in Products : CalmFor(q)
  BY <1>1, CalmForAll
<1>21. BookSafe(Me)'
  <2>1. CASE then # "commit"
    <3>1. SameBook(p)
      BY <1>7, <1>9, <1>11, <1>14, <2>1, <1>4 DEF SameBook
    <3>2. QED
      BY <1>4, <1>20, <3>1, BookKept DEF Books
  <2>2. CASE then = "commit"
    <3>1. Sound(p, disk[Manifest(p)])'
      BY <1>9, <1>14, <1>17, <2>2
    <3>2. UndoSafe(p)
      BY DEF Books, BookSafe
    <3>3. w \in mine
      BY <1>7, <1>10, <2>2 DEF ManifestWrites
    <3>4. /\ Book(p).retired = {}
          /\ \A c \in Book(p).issued : conn[c] # "none" /\ MadeFor(p, c)
          /\ \A x \in mine : x.before = f /\ x.after = r
          /\ CredsOf(f) \cap Book(p).issued = {} /\ CredsOf(r) \subseteq CredsOf(f) \cup Book(p).issued
      BY <1>4, <1>7, <1>9, <3>2, <3>3 DEF UndoSafe
    <3>5. UndoSafe(p)'
      <4>1. \A x \in mine : /\ Sound(p, x.before)' /\ CredsOf(x.before) \cap Book(p).issued = {}
                            /\ CredsOf(x.after) \subseteq CredsOf(x.before) \cup Book(p).issued
                            /\ disk'[Manifest(p)] \in {x.before, x.after}
        BY <1>9, <1>14, <1>17, <2>2, <3>4
      <4>2. ManifestWrites(p, Book(p).writes)' = mine /\ mine # {}
        BY <1>4, <1>7, <1>11, <3>3 DEF ManifestWrites
      <4>3. \A c \in Book(p).issued : conn'[c] # "none" /\ MadeFor(p, c)'
        BY <1>1, <1>17, <3>4
      <4>4. \A x, y \in mine : x.before = y.before /\ x.after = y.after
        BY <3>4
      <4>5. QED
        BY <1>11, <3>4, <4>1, <4>2, <4>3, <4>4 DEF UndoSafe
    <3>6. FinishSafe(p)'
      BY <1>4, <1>9, <1>11 DEF FinishSafe
    <3>7. QED
      BY <1>4, <3>1, <3>5, <3>6 DEF BookSafe
  <2>3. QED
    BY <2>1, <2>2
<1>22. OpNames \subseteq OpNames'
  <2>1. Befores(p)' = Befores(p)
    BY <1>11 DEF Befores, ManifestWrites
  <2>2. InManifest(p) \subseteq InManifest(p)' \cup Befores(p)
    <3>1. CASE then # "commit"
      BY <1>9, <1>14, <3>1 DEF InManifest
    <3>2. CASE then = "commit"
      <4>1. w \in mine /\ w.before = f
        BY <1>7, <1>9, <1>10, <3>2 DEF ManifestWrites
      <4>2. QED
        BY <1>4, <1>7, <1>9, <4>1 DEF InManifest, Befores
    <3>3. QED
      BY <3>1, <3>2
  <2>3. QED
    BY <1>3, <1>4, <2>1, <2>2 DEF OpNames
<1>23. Warned' = Warned /\ \A c \in Creds : conn'[c] = conn[c] /\ label'[c] = label[c]
  BY <1>1 DEF Warned
<1>24. op'.phase \in Works
  BY <1>3, <1>5 DEF Works
<1>25. QED
  BY <1>1, <1>3, <1>8, <1>15, <1>18, <1>19, <1>20, <1>21, <1>22, <1>23, <1>24, WorkGoesOn

\* What the journal is to finish once it is committed.
LEMMA CommitWorks == ASSUME Credited, Types', Commit PROVE (Books /\ OpBooks)'
<1> USE DEF Credited
<1>1. /\ op # Absent /\ op.phase = "commit" /\ Goto("cleanup") /\ op.phase \in Works
      /\ UNCHANGED <<disk, links, conn, label, notes, touched, spent>>
  BY DEF Commit, Phase, Works
<1> DEFINE gone == IF NoneLeft THEN {<<Skill(Me), <<"skill">>>>} ELSE {}
           j == [MyJournal EXCEPT !.retired = op.retired, !.committed = TRUE, !.cleanup = gone]
<1>2. Save(j)
  BY DEF Commit
<1> HIDE DEF gone
<1>3. /\ op' # Absent /\ op'.phase = "cleanup" /\ op'.product = op.product
      /\ op'.issued = op.issued /\ op'.retired = op.retired /\ op'.left = op.left /\ op'.failed = op.failed
  BY <1>1, GoneTo
<1>4. /\ DOMAIN j = DOMAIN MyJournal /\ j.writes = MyJournal.writes /\ j.issued = MyJournal.issued
      /\ j.retired = op.retired /\ j.committed = TRUE
  <2>1. MyJournal \in Journals(Me)
    BY <1>1, MyJournalType DEF Types
  <2>2. QED
    BY <2>1 DEF Journals
<1> HIDE DEF j
<1>5. PICK p \in Products : p = Me /\ MyJournal = Book(p)
  BY <1>1, OwnBook
<1>6. Book(p)' = j /\ OthersKept /\ MyJournal' = j /\ Me' = p
  <2>1. Book(p)' = j /\ OthersKept
    BY <1>1, <1>2, <1>4, <1>5, SavedBook DEF OthersKept
  <2>2. QED
    BY <1>3, <1>5, <2>1 DEF MyJournal, Book, Me
<1>7. PICK f, r, i, R, d : f = op.found /\ r = op.regs /\ i = op.issued /\ R = CredsIn(op.retired) /\ d = InFlight
  OBVIOUS
<1>8. /\ MyJournal.issued \subseteq i
      /\ \A c \in i : conn[c] = "live" /\ MadeFor(p, c)
      /\ Sound(p, f) /\ Sound(p, r)
      /\ R \subseteq CredsOf(f) \cup i /\ R \cap CredsOf(r) = {}
      /\ CredsOf(f) \cup i \subseteq CredsOf(r) \cup R \cup d
      /\ op.left = {} /\ op.failed = {}
      /\ disk[Manifest(p)] = r
      /\ \A w \in ManifestWrites(p, MyJournal.writes) : w.before = f
  BY <1>1, <1>5, <1>7, WorkFacts
<1>9. d = {} /\ CredsOf(r) = InManifest(p) /\ InManifest(p)' = InManifest(p)
  BY <1>1, <1>7, <1>8 DEF InFlight, IsOn, InManifest
<1>10. Befores(p)' = Befores(p) /\ Befores(p) \subseteq CredsOf(f)
  <2>1. Book(p)'.writes = Book(p).writes
    BY <1>4, <1>5, <1>6
  <2>2. Befores(p)' = Befores(p)
    BY <2>1 DEF Befores, ManifestWrites
  <2>3. Befores(p) \subseteq CredsOf(f)
    BY <1>5, <1>8 DEF Befores
  <2>4. QED
    BY <2>2, <2>3
<1>11. \A c \in CredsOf(f) \cup i : /\ conn[c] = "live" /\ MadeFor(p, c)
                                    /\ c \in InManifest(p) \cup R
  BY <1>8, <1>9, SoundCreds
<1>12. \A x : (Sound(p, x) => Sound(p, x)') /\ \A c : (MadeFor(p, c) => MadeFor(p, c)')
  BY <1>1 DEF Sound, MadeFor
<1>13. BookSafe(p)'
  <2>1. Book(p)'.committed /\ CredsIn(Book(p)'.retired) = R /\ Book(p)'.issued \subseteq i
    BY <1>4, <1>6, <1>7, <1>8
  <2>2. \A c \in R : conn'[c] # "none" /\ MadeFor(p, c)' /\ c \notin InManifest(p)'
    BY <1>1, <1>8, <1>9, <1>11, <1>12
  <2>3. \A c \in i \cup Befores(p)' : conn'[c] # "none" /\ c \in InManifest(p)' \cup R
    BY <1>1, <1>9, <1>10, <1>11
  <2>4. UndoSafe(p)' /\ FinishSafe(p)'
    BY <2>1, <2>2, <2>3 DEF UndoSafe, FinishSafe
  <2>5. Sound(p, disk[Manifest(p)])'
    BY <1>1, <1>8, <1>12
  <2>6. QED
    BY <2>4, <2>5 DEF BookSafe
<1>14. Books'
  <2>1. ASSUME NEW q \in Products, q # p PROVE BookSafe(q)'
    <3>1. Book(q)' = Book(q) /\ disk'[Manifest(q)] = disk[Manifest(q)]
      BY <1>5, <1>6, <2>1 DEF OthersKept
    <3>2. SameBook(q) /\ CalmFor(q)
      BY <1>1, <3>1, CalmForAll DEF SameBook, ManifestWrites
    <3>3. QED
      BY <3>2, BookKept DEF Books
  <2>2. QED
    BY <1>13, <2>1 DEF Books
<1>15. Finishing'
  <2>1. \A c \in op'.issued : conn'[c] # "none" /\ c \in InManifest(p)' \cup CredsIn(op'.retired)
    BY <1>1, <1>3, <1>7, <1>9, <1>11
  <2>2. QED
    BY <1>3, <1>4, <1>6, <1>8, <2>1 DEF Finishing
<1>16. AtWork' /\ WorkWrites' /\ Undoing' /\ RollingBack' /\ Recovering'
  BY <1>3 DEF AtWork, WorkWrites, Undoing, UndoesOwn, RollingBack, Recovering, Works, OnTarget
<1>17. Traced'
  <2>1. OpNames' = OpNames
    BY <1>3, <1>5, <1>6, <1>9, <1>10 DEF OpNames
  <2>2. op.phase \notin Unrecovered /\ op'.phase \notin Unrecovered
    BY <1>1, <1>3 DEF Unrecovered
  <2>3. \A c \in Creds : conn'[c] = conn[c] /\ label'[c] = label[c]
    BY <1>1
  <2>4. QED
    BY <1>1, <1>3, <1>6, <2>1, <2>2, <2>3, TracedKept
<1>18. QED
  BY <1>14, <1>15, <1>16, <1>17 DEF OpBooks
-----------------------------------------------------------------------------
(* The end of an operation                                                 *)

\* What an operation knows of a credential is on disk too.
LEMMA OwnAccounts ==
    ASSUME Credited, op # Absent, op.phase \notin Unrecovered, NEW c \in OpNames, conn[c] = "live"
    PROVE  Accounts(Me, c)
<1> USE DEF Credited
<1>1. PICK p \in Products : p = Me /\ MyJournal = Book(p)
  BY OwnBook
<1>2. CASE c \in InManifest(p) \cup Befores(p)
  BY <1>1, <1>2 DEF Accounts
<1>3. ASSUME c \in op.issued \cup CredsIn(op.retired) PROVE Accounts(p, c)
  <2>1. CASE op.phase \in Works
    <3>1. PICK f, r, i, R, d : f = op.found /\ r = op.regs /\ i = op.issued /\ R = CredsIn(op.retired) /\ d = InFlight
      OBVIOUS
    <3>2. PICK mine : mine = ManifestWrites(p, MyJournal.writes)
      OBVIOUS
    <3>3. /\ i \subseteq MyJournal.issued \cup (IF op.phase = "issue" THEN {op.cred} ELSE {})
          /\ op.phase = "issue" => Todo \in MyJournal.issuing
          /\ R \subseteq CredsOf(f) \cup i
          /\ \A e \in d : label[e] = <<p, Todo>>
          /\ disk[Manifest(p)] = IF op.phase = "commit" THEN r ELSE f
          /\ \A w \in mine : w.before = f
          /\ ToSet(op.writes) \subseteq ToSet(MyJournal.writes)
          /\ (op.phase = "commit") <=> (ManifestWrites(p, op.writes) # {})
      BY <1>1, <2>1, <3>1, <3>2, WorkFacts
    <3>4. i \subseteq MyJournal.issued \/ (op.phase = "issue" /\ i \subseteq MyJournal.issued \cup d)
      BY <3>1, <3>3 DEF InFlight, IsOn
    <3>5. ASSUME c \in i PROVE Accounts(p, c)
      BY <1>1, <3>3, <3>4, <3>5 DEF Accounts
    <3>6. ASSUME c \in CredsOf(f) PROVE Accounts(p, c)
      <4>1. CASE op.phase # "commit"
        BY <3>3, <3>6, <4>1 DEF Accounts, InManifest
      <4>2. CASE op.phase = "commit"
        <5>1. PICK w \in mine : w.before = f
          BY <3>2, <3>3, <4>2 DEF ManifestWrites
        <5>2. c \in Befores(p)
          BY <1>1, <3>2, <3>6, <5>1 DEF Befores
        <5>3. QED
          BY <5>2 DEF Accounts
      <4>3. QED
        BY <4>1, <4>2
    <3>7. QED
      BY <1>3, <3>1, <3>3, <3>5, <3>6
  <2>2. CASE op.phase \in {"plan"}
    BY <1>3, <2>2 DEF OpBooks, Recovering, CredsIn
  <2>3. CASE op.phase # "plan" /\ UndoesOwn
    <3>1. /\ \A e \in op.issued : Issued(e)
          /\ CredsIn(op.retired) \subseteq op.issued \cup InManifest(p) \cup Befores(p)
      BY <1>1, <2>3 DEF OpBooks, RollingBack
    <3>2. Issued(c) => Accounts(p, c)
      BY <1>1 DEF Issued, Accounts
    <3>3. QED
      BY <1>2, <1>3, <3>1, <3>2, <1>1
  <2>4. CASE op.phase = "cleanup" \/ (op.phase = "revoke" /\ MyJournal.committed)
    <3>1. /\ MyJournal.retired = op.retired
          /\ \A e \in op.issued : e \in InManifest(p) \cup CredsIn(op.retired) \/ conn[e] = "revoked"
      BY <1>1, <2>4 DEF OpBooks, Finishing
    <3>2. QED
      BY <1>1, <1>3, <3>1 DEF Accounts
  <2>5. QED
    BY <2>1, <2>2, <2>3, <2>4 DEF Types, OpTypes, Phases, Unrecovered, UndoesOwn
<1>4. QED
  BY <1>1, <1>2, <1>3 DEF OpNames

\* Whatever the operation holds, its end leaves every credential accounted for.
LEMMA AllAccounted ==
    ASSUME Credited, NEW c \in Creds, conn[c] = "live"
    PROVE  c \in Warned \/ \E p \in Products : Accounts(p, c)
<1> USE DEF Credited
<1>1. CASE op = Absent \/ op.phase \in Unrecovered
  BY <1>1 DEF OpBooks, Traced
<1>2. CASE op # Absent /\ op.phase \notin Unrecovered
  <2>1. Elsewhere(c) \/ c \in OpNames
    BY <1>2 DEF OpBooks, Traced, OpNames
  <2>2. Me \in Products
    BY <1>2, OwnBook
  <2>3. QED
    BY <1>2, <2>1, <2>2, OwnAccounts DEF Elsewhere
<1>3. QED
  BY <1>1, <1>2

LEMMA EndWarns == ASSUME Types, Recovered \/ End \/ Returns("told") PROVE Warned \subseteq Warned'
<1>1. notes \in Notes
  BY DEF Types, OtherTypes
<1>2. notes = [pending |-> notes.pending, told |-> notes.told, lost |-> notes.lost]
  BY <1>1 DEF Notes
<1>3. CASE Recovered
  BY <1>2, <1>3 DEF Recovered, Warned
<1>4. CASE End
  BY <1>2, <1>4 DEF End, Returns, Warned
<1>5. CASE Returns("told")
  BY <1>2, <1>5 DEF Returns, Warned
<1>6. QED
  BY <1>3, <1>4, <1>5

\* An operation that is over, and whose journal is as it was.
LEMMA OperationEnds ==
    ASSUME Credited, End, UNCHANGED <<disk, conn, label, journal>>
    PROVE  (Books /\ OpBooks)'
<1>1. op' = Absent /\ Warned \subseteq Warned'
  BY EndWarns DEF End, Credited
<1>2. AtWork' /\ WorkWrites' /\ Undoing' /\ RollingBack' /\ Finishing' /\ Recovering'
  BY <1>1 DEF AtWork, WorkWrites, Undoing, RollingBack, Finishing, Recovering
<1>3. \A p \in Products : Book(p)' = Book(p) /\ SameBook(p)
  BY DEF Book, SameBook, ManifestWrites
<1>4. Books'
  BY <1>3, BooksKept
<1>5. ASSUME NEW c \in Creds, conn'[c] = "live" PROVE c \in Warned' \/ \E p \in Products : Accounts(p, c)'
  <2>1. c \in Warned \/ \E p \in Products : Accounts(p, c)
    BY <1>5, AllAccounted
  <2>2. \A p \in Products : Accounts(p, c) => Accounts(p, c)'
    BY <1>3, AccountsKept
  <2>3. QED
    BY <1>1, <2>1, <2>2
<1>6. Traced'
  BY <1>1, <1>5 DEF Traced
<1>7. QED
  BY <1>2, <1>4, <1>6 DEF OpBooks

LEMMA CrashWorks == ASSUME Credited, Types', Crash PROVE (Books /\ OpBooks)'
BY OperationEnds DEF Crash

LEMMA FailWorks == ASSUME Credited, Types', Fail PROVE (Books /\ OpBooks)'
<1>1. op # Absent /\ UNCHANGED <<disk, links, conn, label, journal>>
  BY DEF Fail
<1>2. CASE op.phase \in Working /\ Rollback /\ UNCHANGED notes
  BY <1>1, <1>2, WorkGivenUp DEF Working, Works, OnTarget
<1>3. CASE End
  BY <1>1, <1>3, OperationEnds
<1>4. QED
  BY <1>2, <1>3 DEF Fail

\* A journal that is cleared has nothing to undo or to finish.
LEMMA ClearedBook ==
    ASSUME Types, op # Absent, ClearJournal, NEW p, p = Me
    PROVE  /\ Book(p)' = EmptyJournal /\ \A q \in Products \ {p} : Book(q)' = Book(q)
           /\ ManifestWrites(p, Book(p).writes)' = {} /\ Befores(p)' = {}
           /\ UndoSafe(p)' /\ FinishSafe(p)' /\ (p \in Products => journal'[p] = Absent)
<1>1. p \in Products
  BY OwnBook
<1>2. journal' = [journal EXCEPT ![p] = Absent] /\ DOMAIN journal = Products
  BY DEF ClearJournal, Save, Types, JournalTypes
<1>3. journal'[p] = Absent /\ \A q \in Products \ {p} : journal'[q] = journal[q]
  BY <1>1, <1>2
<1>4. Book(p)' = EmptyJournal /\ \A q \in Products \ {p} : Book(q)' = Book(q)
  BY <1>3 DEF Book
<1>5. Book(p)'.writes = <<>> /\ Book(p)'.issued = {} /\ Book(p)'.retired = {} /\ Book(p)'.committed = FALSE
  BY <1>4 DEF EmptyJournal
<1>6. ToSet(<<>>) = {}
  BY DEF ToSet
<1>7. ManifestWrites(p, Book(p).writes)' = {}
  BY <1>5, <1>6 DEF ManifestWrites
<1>8. Befores(p)' = {}
  BY <1>7 DEF Befores
<1>9. UndoSafe(p)' /\ FinishSafe(p)'
  BY <1>5, <1>7 DEF UndoSafe, FinishSafe
<1>10. QED
  BY <1>3, <1>4, <1>7, <1>8, <1>9

LEMMA DoneWorks == ASSUME Credited, Types', Done PROVE (Books /\ OpBooks)'
<1> USE DEF Credited
<1>1. /\ op # Absent /\ op.phase = "revoke" /\ op.left = {} /\ op' = Absent
      /\ Warned \subseteq Warned' /\ UNCHANGED <<disk, links, conn, label, touched, spent>>
  BY EndWarns DEF Done, Phase, End
<1>2. CASE op.failed # {}
  BY <1>1, <1>2, OperationEnds DEF Done, End
<1>3. CASE op.failed = {}
  <2>1. PICK p \in Products : p = Me /\ MyJournal = Book(p)
    BY <1>1, OwnBook
  <2>2. ClearJournal
    BY <1>3 DEF Done
  <2>3. /\ Book(p)' = EmptyJournal /\ \A q \in Products \ {p} : Book(q)' = Book(q)
        /\ UndoSafe(p)' /\ FinishSafe(p)'
    BY <1>1, <2>1, <2>2, ClearedBook
  <2>4. Books'
    <3>1. Sound(p, disk[Manifest(p)])'
      BY <1>1 DEF Books, BookSafe, Sound
    <3>2. BookSafe(p)'
      BY <2>3, <3>1 DEF BookSafe
    <3>3. ASSUME NEW q \in Products, q # p PROVE BookSafe(q)'
      <4>1. Book(q)' = Book(q) /\ disk'[Manifest(q)] = disk[Manifest(q)]
        BY <1>1, <2>3, <3>3
      <4>2. SameBook(q) /\ CalmFor(q)
        BY <1>1, <4>1, CalmForAll DEF SameBook, ManifestWrites
      <4>3. QED
        BY <4>2, BookKept DEF Books
    <3>4. QED
      BY <3>2, <3>3 DEF Books
  <2>5. AtWork' /\ WorkWrites' /\ Undoing' /\ RollingBack' /\ Finishing' /\ Recovering'
    BY <1>1 DEF AtWork, WorkWrites, Undoing, RollingBack, Finishing, Recovering
  <2>6. ASSUME NEW c \in OpNames, conn[c] = "live" PROVE c \in InManifest(p)
    <3>1. CASE ~MyJournal.committed
      <4>1. \A e \in op.issued : conn[e] = "revoked"
        BY <1>1, <1>3, <3>1 DEF OpBooks, RollingBack, UndoesOwn
      <4>2. CredsIn(op.retired) \subseteq op.issued \cup InManifest(p) \cup Befores(p)
        BY <1>1, <2>1, <3>1 DEF OpBooks, RollingBack, UndoesOwn
      <4>3. op.writes = <<>> /\ ToSet(<<>>) = {}
        BY <1>1, <3>1 DEF OpBooks, Undoing, UndoesOwn, ToSet
      <4>4. \A w \in ManifestWrites(p, MyJournal.writes) : disk[Manifest(p)] = w.before
        BY <1>1, <2>1, <3>1, <4>3 DEF OpBooks, Undoing, UndoesOwn, ManifestWrites
      <4>5. Befores(p) \subseteq InManifest(p)
        BY <2>1, <4>4 DEF Befores, InManifest
      <4>6. QED
        BY <2>1, <2>6, <4>1, <4>2, <4>5 DEF OpNames
    <3>2. CASE MyJournal.committed
      <4>1. /\ MyJournal.retired = op.retired
            /\ \A e \in CredsIn(MyJournal.retired) : conn[e] = "revoked"
            /\ \A e \in op.issued : e \in InManifest(p) \cup CredsIn(op.retired) \/ conn[e] = "revoked"
        BY <1>1, <1>3, <2>1, <3>2 DEF OpBooks, Finishing
      <4>2. \A e \in Befores(p) : e \in InManifest(p) \cup CredsIn(MyJournal.retired) \/ conn[e] = "revoked"
        BY <2>1, <3>2 DEF Books, BookSafe, FinishSafe
      <4>3. QED
        BY <2>1, <2>6, <4>1, <4>2 DEF OpNames
    <3>3. QED
      BY <3>1, <3>2
  <2>7. ASSUME NEW c \in Creds, conn'[c] = "live" PROVE c \in Warned' \/ \E q \in Products : Accounts(q, c)'
    <3>1. conn[c] = "live" /\ Warned \subseteq Warned'
      BY <1>1, <2>7
    <3>2. Elsewhere(c) \/ c \in OpNames
      BY <1>1, <3>1 DEF OpBooks, Traced, OpNames, Unrecovered
    <3>3. CASE c \in OpNames
      <4>1. c \in InManifest(p)
        BY <2>6, <3>1, <3>3
      <4>2. c \in InManifest(p)'
        BY <1>1, <4>1 DEF InManifest
      <4>3. QED
        BY <4>2 DEF Accounts
    <3>4. CASE Elsewhere(c)
      <4>1. ASSUME NEW q \in Products \ {Me}, Accounts(q, c) PROVE Accounts(q, c)'
        <5>1. Book(q)' = Book(q) /\ disk'[Manifest(q)] = disk[Manifest(q)] /\ label'[c] = label[c]
          BY <1>1, <2>1, <2>3
        <5>2. QED
          BY <4>1, <5>1, AccountsKept
      <4>2. QED
        BY <3>1, <3>4, <4>1 DEF Elsewhere
    <3>5. QED
      BY <3>2, <3>3, <3>4
  <2>8. Traced'
    BY <1>1, <2>7 DEF Traced
  <2>9. QED
    BY <2>4, <2>5, <2>8 DEF OpBooks
<1>4. QED
  BY <1>2, <1>3
-----------------------------------------------------------------------------
(* Revocations                                                             *)

\* A credential made for a product that its manifest does not name can be revoked.
LEMMA RevokedCalm ==
    ASSUME Credited, NEW p \in Products, NEW c \in Creds, MadeFor(p, c), c \notin InManifest(p),
           Book(p).committed \/ c \notin Befores(p),
           conn' = [conn EXCEPT ![c] = "revoked"], label' = label
    PROVE  \A q \in Products : CalmFor(q)
<1>1. ASSUME NEW q \in Products, q # p PROVE c \notin InManifest(q) /\ (Book(q).committed \/ c \notin Befores(q))
  <2>1. ~MadeFor(q, c)
    BY <1>1, MadeForOne
  <2>2. c \notin InManifest(q)
    BY <2>1, SoundCreds DEF Credited, Books, BookSafe, InManifest
  <2>3. ~Book(q).committed => \A w \in ManifestWrites(q, Book(q).writes) : Sound(q, w.before)
    BY DEF Credited, Books, BookSafe, UndoSafe
  <2>4. ~Book(q).committed => c \notin Befores(q)
    BY <2>1, <2>3, SoundCreds DEF Befores
  <2>5. QED
    BY <2>2, <2>4
<1>2. \A d \in Creds : conn'[d] = conn[d] \/ (d = c /\ conn'[d] = "revoked")
  BY DEF Credited, Types, OtherTypes
<1>3. \A q \in Products : c \notin InManifest(q) /\ (Book(q).committed \/ c \notin Befores(q))
  BY <1>1
<1>4. QED
  BY <1>2, <1>3 DEF CalmFor

LEMMA Revoked ==
    ASSUME Types, NEW c \in Creds, conn' = [conn EXCEPT ![c] = "revoked"]
    PROVE  /\ conn'[c] = "revoked"
           /\ \A d : conn[d] = "revoked" /\ d \in Creds => conn'[d] = "revoked"
           /\ \A d \in Creds : conn[d] # "none" => conn'[d] # "none"
           /\ \A d \in Creds : conn'[d] = "live" => conn[d] = "live"
BY DEF Types, OtherTypes

\* What an operation gives back it may revoke what it issued of.
LEMMA IssuedCalm ==
    ASSUME Credited, op # Absent, ~MyJournal.committed, op.writes = <<>>,
           UndoesOwn \/ op.phase \in {"undoLinks", "undoIssued"},
           NEW i, i = MyJournal.issued \/ (UndoesOwn /\ i = op.issued), NEW c \in i, c \in Creds
    PROVE  MadeFor(Me, c) /\ c \notin InManifest(Me) /\ c \notin Befores(Me)
<1> USE DEF Credited
<1>1. PICK p \in Products : p = Me /\ MyJournal = Book(p)
  BY OwnBook
<1>2. PICK mine : mine = ManifestWrites(p, MyJournal.writes)
  OBVIOUS
<1>3. ManifestWrites(p, op.writes) = {}
  <2>1. ToSet(<<>>) = {}
    BY DEF ToSet
  <2>2. QED
    BY <2>1 DEF ManifestWrites
<1>4. \A w \in mine : disk[Manifest(p)] = w.before
  BY <1>1, <1>2, <1>3 DEF OpBooks, Undoing
<1>5. MadeFor(p, c) /\ (\A w \in mine : c \notin CredsOf(w.before)) /\ (mine = {} => c \notin InManifest(p))
  <2>1. CASE i = MyJournal.issued
    BY <1>1, <1>2, <2>1 DEF Books, BookSafe, UndoSafe
  <2>2. CASE UndoesOwn /\ i = op.issued
    BY <1>1, <1>2, <2>2 DEF OpBooks, RollingBack
  <2>3. QED
    BY <2>1, <2>2
<1>6. c \notin InManifest(p)
  BY <1>4, <1>5 DEF InManifest
<1>7. c \notin Befores(p)
  BY <1>1, <1>2, <1>5 DEF Befores
<1>8. QED
  BY <1>1, <1>5, <1>6, <1>7

\* The books that a revocation leaves alone.
LEMMA BooksRevoked ==
    ASSUME Credited, \A q \in Products : CalmFor(q), \A q \in Products : SameBook(q)
    PROVE  Books'
BY BookKept DEF Credited, Books

LEMMA RevokeWorks == ASSUME Credited, Types', Revoke PROVE (Books /\ OpBooks)'
<1> USE DEF Credited
<1>1. op # Absent /\ op.phase = "revoke" /\ UNCHANGED <<disk, links, label, journal, notes, touched>>
  BY DEF Revoke, Phase
<1>2. PICK c \in op.left :
        \/ /\ conn' = [conn EXCEPT ![c] = "revoked"] /\ op' = [op EXCEPT !.left = @ \ {c}]
        \/ /\ op' = [op EXCEPT !.left = @ \ {c}, !.failed = @ \cup {c}] /\ UNCHANGED conn
  BY DEF Revoke
<1>3. c \in Creds
  BY <1>1, <1>2 DEF Types, OpTypes
<1>4. /\ op' # Absent /\ op'.phase = "revoke" /\ op'.product = op.product /\ op'.writes = op.writes
      /\ op'.issued = op.issued /\ op'.retired = op.retired /\ op'.left = op.left \ {c}
      /\ \/ op'.failed = op.failed /\ conn' = [conn EXCEPT ![c] = "revoked"]
         \/ op'.failed = op.failed \cup {c} /\ conn' = conn
  <2> USE DEF Types, OpTypes, OpFields
  <2>1. CASE conn' = [conn EXCEPT ![c] = "revoked"] /\ op' = [op EXCEPT !.left = @ \ {c}]
    BY <1>1, <2>1, OpIsThere
  <2>2. CASE op' = [op EXCEPT !.left = @ \ {c}, !.failed = @ \cup {c}] /\ UNCHANGED conn
    BY <1>1, <2>2, OpIsThere
  <2>3. QED
    BY <1>2, <2>1, <2>2
<1>5. PICK p \in Products : p = Me /\ MyJournal = Book(p) /\ Me' = p
  BY <1>1, <1>4, OwnBook DEF Me
<1>6. OthersKept /\ (\A q \in Products : SameBook(q)) /\ MyJournal' = MyJournal
  BY <1>1, <1>4, SameJournal
<1>7. MadeFor(p, c) /\ c \notin InManifest(p) /\ (MyJournal.committed \/ c \notin Befores(p))
  <2>1. CASE MyJournal.committed
    <3>1. c \in CredsIn(MyJournal.retired)
      BY <1>1, <2>1 DEF OpBooks, Finishing
    <3>2. QED
      BY <1>5, <2>1, <3>1 DEF Books, BookSafe, FinishSafe
  <2>2. CASE ~MyJournal.committed
    <3>1. UndoesOwn /\ c \in op.issued /\ op.writes = <<>>
      BY <1>1, <2>2 DEF OpBooks, RollingBack, Undoing, UndoesOwn
    <3>2. QED
      BY <1>1, <1>3, <1>5, <2>2, <3>1, IssuedCalm
  <2>3. QED
    BY <2>1, <2>2
<1>8. \A q \in Products : CalmFor(q)
  <2>1. CASE conn' = conn
    BY <1>1, <2>1, CalmForAll
  <2>2. CASE conn' = [conn EXCEPT ![c] = "revoked"]
    BY <1>1, <1>3, <1>5, <1>7, <2>2, RevokedCalm
  <2>3. QED
    BY <1>4, <2>1, <2>2
<1>9. Books'
  BY <1>6, <1>8, BooksRevoked
<1>10. /\ \A d \in Creds : conn[d] = "revoked" => conn'[d] = "revoked"
       /\ \A d \in Creds : conn[d] # "none" => conn'[d] # "none"
       /\ \A d \in Creds : conn'[d] = "live" => conn[d] = "live"
       /\ c \in op'.failed \/ conn'[c] = "revoked"
       /\ op.failed \subseteq op'.failed
  BY <1>3, <1>4, Revoked
<1>11. InManifest(p)' = InManifest(p) /\ Befores(p)' = Befores(p)
       /\ ManifestWrites(p, MyJournal.writes)' = ManifestWrites(p, MyJournal.writes)
       /\ ManifestWrites(p, op.writes)' = ManifestWrites(p, op.writes)
  <2>1. Book(p)' = Book(p)
    BY <1>1 DEF Book
  <2>2. QED
    BY <1>1, <1>4, <1>6, <2>1 DEF InManifest, Befores, ManifestWrites
<1>12. op.issued \subseteq Creds /\ CredsIn(MyJournal.retired) \subseteq Creds
  BY <1>1, <1>5, KnownCreds DEF Types, OpTypes
<1>13. Undoing'
  <2>1. Undoing
    BY DEF OpBooks
  <2>2. CASE MyJournal.committed
    BY <1>4, <1>6, <2>2 DEF Undoing, UndoesOwn
  <2>3. CASE ~MyJournal.committed
    BY <1>1, <1>4, <1>5, <1>6, <1>11, <2>1, <2>3 DEF Undoing, UndoesOwn
  <2>4. QED
    BY <2>2, <2>3
<1>14. RollingBack'
  <2>1. CASE MyJournal.committed
    BY <1>4, <1>6, <2>1 DEF RollingBack, UndoesOwn
  <2>2. CASE ~MyJournal.committed
    <3>1. PICK mine : mine = ManifestWrites(p, MyJournal.writes)
      OBVIOUS
    <3>2. /\ MyJournal.issued \subseteq op.issued
          /\ \A e \in op.issued : conn[e] # "none" /\ MadeFor(p, e) /\ Issued(e)
          /\ \A w \in mine : /\ CredsOf(w.before) \cap op.issued = {}
                             /\ CredsOf(w.after) \subseteq CredsOf(w.before) \cup op.issued
          /\ mine = {} => InManifest(p) \cap op.issued = {}
          /\ CredsIn(op.retired) \subseteq op.issued \cup InManifest(p) \cup Befores(p)
          /\ op.left \subseteq op.issued
          /\ \A e \in op.issued : e \in op.left \cup op.failed \/ conn[e] = "revoked"
      BY <1>1, <1>5, <2>2, <3>1 DEF OpBooks, RollingBack, UndoesOwn
    <3>3. \A e \in op.issued : conn'[e] # "none" /\ MadeFor(p, e)' /\ Issued(e)'
      <4>1. \A e : (MadeFor(p, e) => MadeFor(p, e)') /\ (Issued(e) => Issued(e)')
        BY <1>1, <1>5, <1>6 DEF MadeFor, Issued
      <4>2. QED
        BY <1>10, <1>12, <3>2, <4>1
    <3>4. \A e \in op.issued : e \in op'.left \cup op'.failed \/ conn'[e] = "revoked"
      BY <1>4, <1>10, <1>12, <3>2
    <3>5. QED
      BY <1>4, <1>5, <1>6, <1>11, <3>1, <3>2, <3>3, <3>4 DEF RollingBack
  <2>3. QED
    BY <2>1, <2>2
<1>15. Finishing'
  <2>1. CASE ~MyJournal.committed
    BY <1>4, <1>6, <2>1 DEF Finishing
  <2>2. CASE MyJournal.committed
    <3>1. /\ MyJournal.retired = op.retired /\ op.left \subseteq CredsIn(MyJournal.retired)
          /\ \A e \in CredsIn(MyJournal.retired) : e \in op.left \cup op.failed \/ conn[e] = "revoked"
          /\ \A e \in op.issued : /\ conn[e] # "none"
                                  /\ e \in InManifest(p) \cup CredsIn(op.retired) \/ conn[e] = "revoked"
      BY <1>1, <1>5, <2>2 DEF OpBooks, Finishing
    <3>2. \A e \in CredsIn(MyJournal.retired) : e \in op'.left \cup op'.failed \/ conn'[e] = "revoked"
      BY <1>4, <1>10, <1>12, <3>1
    <3>3. \A e \in op.issued : /\ conn'[e] # "none"
                               /\ e \in InManifest(p) \cup CredsIn(op.retired) \/ conn'[e] = "revoked"
      BY <1>10, <1>12, <3>1
    <3>4. QED
      BY <1>4, <1>5, <1>6, <1>11, <2>2, <3>1, <3>2, <3>3 DEF Finishing
  <2>3. QED
    BY <2>1, <2>2
<1>16. AtWork' /\ WorkWrites' /\ Recovering'
  BY <1>4 DEF AtWork, WorkWrites, Recovering, Works, OnTarget
<1>17. Traced'
  <2>1. OpNames' = OpNames
    BY <1>4, <1>5, <1>11 DEF OpNames
  <2>2. op.phase \notin Unrecovered /\ op'.phase \notin Unrecovered
    BY <1>1, <1>4 DEF Unrecovered
  <2>3. QED
    BY <1>1, <1>4, <1>6, <1>10, <2>1, <2>2, TracedKept
<1>18. QED
  BY <1>9, <1>13, <1>14, <1>15, <1>16, <1>17 DEF OpBooks

\* Before an operation has begun, or recovered, all is on disk.
LEMMA TracedOnDisk ==
    ASSUME Credited, op' = Absent \/ op'.phase \in Unrecovered,
           \A c \in Creds : conn'[c] = "live" => conn[c] = "live" /\ label'[c] = label[c],
           notes' = notes \/ Warned \subseteq Warned',
           \A q \in Products : Book(q)' = Book(q) /\ disk'[Manifest(q)] = disk[Manifest(q)]
    PROVE  Traced'
<1>1. ASSUME NEW c \in Creds, conn'[c] = "live" PROVE c \in Warned' \/ \E p \in Products : Accounts(p, c)'
  <2>1. c \in Warned \/ \E p \in Products : Accounts(p, c)
    BY <1>1, AllAccounted
  <2>2. \A p \in Products : Accounts(p, c) => Accounts(p, c)'
    BY <1>1, AccountsKept
  <2>3. Warned \subseteq Warned'
    BY DEF Warned
  <2>4. QED
    BY <2>1, <2>2, <2>3
<1>2. QED
  BY <1>1 DEF Traced

LEMMA UndoIssuedWorks == ASSUME Credited, Types', UndoIssued PROVE (Books /\ OpBooks)'
<1> USE DEF Credited
<1>1. op # Absent /\ op.phase = "undoIssued" /\ UNCHANGED <<disk, links, label, journal, touched>>
  BY DEF UndoIssued, Phase
<1>2. PICK c \in op.left :
        \/ /\ conn' = [conn EXCEPT ![c] = "revoked"] /\ op' = [op EXCEPT !.left = @ \ {c}]
           /\ notes' = notes
        \/ End /\ UNCHANGED conn
  BY DEF UndoIssued
<1>3. CASE End /\ UNCHANGED conn
  BY <1>1, <1>3, OperationEnds
<1>4. CASE conn' = [conn EXCEPT ![c] = "revoked"] /\ op' = [op EXCEPT !.left = @ \ {c}] /\ notes' = notes
  <2>1. /\ op' # Absent /\ op'.phase = "undoIssued" /\ op'.product = op.product /\ op'.writes = op.writes
        /\ op'.issued = op.issued /\ op'.retired = op.retired /\ op'.left = op.left \ {c}
        /\ op'.failed = op.failed
    BY <1>1, <1>4, OpIsThere DEF Types, OpTypes, OpFields
  <2>2. PICK p \in Products : p = Me /\ MyJournal = Book(p) /\ Me' = p
    BY <1>1, <2>1, OwnBook DEF Me
  <2>3. OthersKept /\ (\A q \in Products : SameBook(q)) /\ MyJournal' = MyJournal
    BY <1>1, <2>1, SameJournal
  <2>4. /\ op.issued = {} /\ op.retired = {} /\ op.left \subseteq MyJournal.issued /\ op.failed = {}
        /\ \A e \in MyJournal.issued : e \in op.left \/ conn[e] = "revoked"
        /\ op.writes = <<>> /\ ~MyJournal.committed
    BY <1>1 DEF OpBooks, Recovering, Undoing
  <2>5. c \in Creds /\ c \in MyJournal.issued /\ MyJournal.issued \subseteq Creds
    BY <1>1, <1>2, <2>2, <2>4, KnownCreds DEF Types, OpTypes
  <2>6. MadeFor(p, c) /\ c \notin InManifest(p) /\ c \notin Befores(p)
    BY <1>1, <2>2, <2>4, <2>5, IssuedCalm
  <2>7. \A q \in Products : CalmFor(q)
    BY <1>1, <1>4, <2>2, <2>5, <2>6, RevokedCalm
  <2>8. Books'
    BY <2>3, <2>7, BooksRevoked
  <2>9. Recovering'
    <3>1. \A e \in MyJournal.issued : e \in op'.left \/ conn'[e] = "revoked"
      BY <1>4, <2>1, <2>4, <2>5, Revoked
    <3>2. QED
      BY <2>1, <2>3, <2>4, <3>1 DEF Recovering
  <2>10. Undoing'
    <3>1. Undoing
      BY DEF OpBooks
    <3>2. /\ ManifestWrites(p, MyJournal.writes)' = ManifestWrites(p, MyJournal.writes)
          /\ ManifestWrites(p, op.writes)' = ManifestWrites(p, op.writes)
      BY <2>1, <2>3 DEF ManifestWrites
    <3>3. QED
      BY <1>1, <2>1, <2>2, <2>3, <3>1, <3>2 DEF Undoing
  <2>11. AtWork' /\ WorkWrites' /\ RollingBack' /\ Finishing'
    BY <2>1 DEF AtWork, WorkWrites, RollingBack, UndoesOwn, Finishing, Works, OnTarget
  <2>12. Traced'
    <3>1. \A q \in Products : Book(q)' = Book(q) /\ disk'[Manifest(q)] = disk[Manifest(q)]
      BY <1>1 DEF Book
    <3>2. \A d \in Creds : conn'[d] = "live" => conn[d] = "live"
      BY <1>4, <2>5, Revoked
    <3>3. QED
      BY <1>1, <1>4, <2>1, <3>1, <3>2, TracedOnDisk DEF Unrecovered, Warned
  <2>13. QED
    BY <2>8, <2>9, <2>10, <2>11, <2>12 DEF OpBooks
<1>5. QED
  BY <1>2, <1>3, <1>4
LEMMA FinishOneWorks == ASSUME Credited, Types', FinishOne PROVE (Books /\ OpBooks)'
<1> USE DEF Credited
<1>1. op # Absent /\ op.phase = "finish" /\ UNCHANGED <<links, label, journal, notes, touched>>
  BY DEF FinishOne, Phase
<1>2. PICK p \in Products : p = Me /\ MyJournal = Book(p) /\ MyJournal = journal[p]
  <2>1. journal[Me] # Absent
    BY <1>1 DEF Types, OpKnows
  <2>2. QED
    BY <1>1, <2>1, OwnBook DEF MyJournal
<1>3. PICK c : c \in op.left /\ c \in CredsIn(MyJournal.retired) /\
        \/ /\ conn' = [conn EXCEPT ![c] = "revoked"] /\ op' = [op EXCEPT !.left = @ \ {c}]
           /\ \E v : RemoveIfUnchanged({<<Secret(c), v>>})
        \/ /\ op' = [op EXCEPT !.left = @ \ {c}, !.failed = @ \cup {c}] /\ UNCHANGED <<conn, disk>>
  <2>1. PICK reg \in journal[Me].retired :
          /\ reg.cred \in op.left
          /\ \/ /\ conn' = [conn EXCEPT ![reg.cred] = "revoked"]
                /\ RemoveIfUnchanged({<<Secret(reg.cred), <<reg.version>>>>})
                /\ op' = [op EXCEPT !.left = @ \ {reg.cred}]
             \/ /\ op' = [op EXCEPT !.left = @ \ {reg.cred}, !.failed = @ \cup {reg.cred}]
                /\ UNCHANGED <<disk, conn>>
    BY DEF FinishOne
  <2>2. PICK c : c = reg.cred
    OBVIOUS
  <2>3. c \in CredsIn(MyJournal.retired)
    BY <1>2, <2>1, <2>2 DEF CredsIn
  <2>4. QED
    BY <2>1, <2>2, <2>3
<1>4. c \in Creds
  BY <1>1, <1>3 DEF Types, OpTypes
<1>5. /\ op' # Absent /\ op'.phase = "finish" /\ op'.product = op.product /\ op'.writes = op.writes
      /\ op'.issued = op.issued /\ op'.retired = op.retired /\ op'.left = op.left \ {c}
      /\ \/ op'.failed = op.failed /\ conn' = [conn EXCEPT ![c] = "revoked"]
         \/ op'.failed = op.failed \cup {c} /\ conn' = conn
  <2> USE DEF Types, OpTypes, OpFields
  <2>1. CASE conn' = [conn EXCEPT ![c] = "revoked"] /\ op' = [op EXCEPT !.left = @ \ {c}]
    BY <1>1, <2>1, OpIsThere
  <2>2. CASE op' = [op EXCEPT !.left = @ \ {c}, !.failed = @ \cup {c}] /\ UNCHANGED conn
    BY <1>1, <2>2, OpIsThere
  <2>3. QED
    BY <1>3, <2>1, <2>2
<1>6. \A q \in Products : disk'[Manifest(q)] = disk[Manifest(q)]
  <2>1. CASE UNCHANGED disk
    BY <2>1
  <2>2. ASSUME NEW v, RemoveIfUnchanged({<<Secret(c), v>>}), NEW q \in Products
        PROVE  disk'[Manifest(q)] = disk[Manifest(q)]
    <3>1. <<Manifest(q), disk[Manifest(q)]>> \notin {<<Secret(c), v>>}
      BY FilesDiffer
    <3>2. QED
      BY <2>2, <3>1, FilesOf DEF RemoveIfUnchanged
  <2>3. QED
    BY <1>3, <2>1, <2>2
<1>7. OthersKept /\ (\A q \in Products : SameBook(q)) /\ MyJournal' = MyJournal /\ Me' = p
  BY <1>1, <1>2, <1>5, <1>6, SameJournal DEF Me
<1>8. /\ MyJournal.committed /\ op.left \subseteq CredsIn(MyJournal.retired) /\ op.issued = {} /\ op.retired = {}
      /\ op.writes = <<>>
      /\ \A e \in CredsIn(MyJournal.retired) : e \in op.left \cup op.failed \/ conn[e] = "revoked"
  BY <1>1 DEF OpBooks, Finishing, Recovering
<1>9. MadeFor(p, c) /\ c \notin InManifest(p)
  BY <1>2, <1>3, <1>8 DEF Books, BookSafe, FinishSafe
<1>10. \A q \in Products : CalmFor(q)
  <2>1. CASE conn' = conn
    BY <1>1, <2>1, CalmForAll
  <2>2. CASE conn' = [conn EXCEPT ![c] = "revoked"]
    BY <1>1, <1>2, <1>4, <1>8, <1>9, <2>2, RevokedCalm
  <2>3. QED
    BY <1>5, <2>1, <2>2
<1>11. Books'
  BY <1>7, <1>10, BooksRevoked
<1>12. /\ \A d \in Creds : conn[d] = "revoked" => conn'[d] = "revoked"
       /\ \A d \in Creds : conn'[d] = "live" => conn[d] = "live"
       /\ c \in op'.failed \/ conn'[c] = "revoked"
       /\ op.failed \subseteq op'.failed
  BY <1>4, <1>5, Revoked
<1>13. Finishing'
  <2>1. CredsIn(MyJournal.retired) \subseteq Creds
    BY <1>2, KnownCreds
  <2>2. \A e \in CredsIn(MyJournal.retired) : e \in op'.left \cup op'.failed \/ conn'[e] = "revoked"
    BY <1>5, <1>8, <1>12, <2>1
  <2>3. QED
    BY <1>5, <1>7, <1>8, <2>2 DEF Finishing
<1>14. Recovering'
  BY <1>5, <1>8 DEF Recovering
<1>15. AtWork' /\ WorkWrites' /\ Undoing' /\ RollingBack'
  BY <1>5 DEF AtWork, WorkWrites, Undoing, RollingBack, UndoesOwn, Works, OnTarget
<1>16. Traced'
  <2>1. \A q \in Products : Book(q)' = Book(q)
    BY <1>1 DEF Book
  <2>2. QED
    BY <1>1, <1>5, <1>6, <1>12, <2>1, TracedOnDisk DEF Unrecovered
<1>17. QED
  BY <1>11, <1>13, <1>14, <1>15, <1>16 DEF OpBooks

-----------------------------------------------------------------------------
(* After the commit, and the undoing of links                              *)

LEMMA CleanupWorks == ASSUME Credited, Types', Cleanup PROVE (Books /\ OpBooks)'
<1> USE DEF Credited
<1>1. op # Absent /\ op.phase = "cleanup" /\ UNCHANGED <<links, conn, label, journal, notes, touched>>
  BY DEF Cleanup, Phase
<1>2. PICK pairs \in SUBSET Leftovers : RemoveIfUnchanged(pairs)
  BY DEF Cleanup
<1>3. op' = [op EXCEPT !.phase = "revoke", !.left = {reg.cred : reg \in op.retired}]
  BY DEF Cleanup
<1>4. /\ op' # Absent /\ op'.phase = "revoke" /\ op'.product = op.product
      /\ op'.issued = op.issued /\ op'.retired = op.retired /\ op'.left = CredsIn(op.retired)
      /\ op'.failed = op.failed
  BY <1>1, <1>3, OpIsThere DEF Types, OpTypes, OpFields, CredsIn
<1>5. PICK p \in Products : p = Me /\ MyJournal = Book(p) /\ Me' = p
  BY <1>1, <1>4, OwnBook DEF Me
<1>6. MyJournal' = MyJournal /\ \A q \in Products : Book(q)' = Book(q)
  BY <1>1, <1>4 DEF MyJournal, Me, Book
<1>7. \A q \in Products : q # p => disk'[Manifest(q)] = disk[Manifest(q)]
  <2>1. ASSUME NEW q \in Products, q # p, NEW x PROVE <<Manifest(q), x>> \notin Leftovers
    BY <1>5, <2>1, FilesDiffer DEF Leftovers
  <2>2. QED
    BY <1>2, <2>1, FilesOf DEF RemoveIfUnchanged
<1>8. \/ disk'[Manifest(p)] = disk[Manifest(p)]
      \/ disk'[Manifest(p)] = Absent /\ InManifest(p) = {}
  <2>1. CASE <<Manifest(p), disk[Manifest(p)]>> \notin pairs
    BY <1>2, <2>1, FilesOf DEF RemoveIfUnchanged
  <2>2. CASE <<Manifest(p), disk[Manifest(p)]>> \in pairs
    <3>1. disk'[Manifest(p)] = Absent
      BY <1>2, <2>2, FilesOf DEF RemoveIfUnchanged
    <3>2. NoneLeft /\ disk[Manifest(p)] = op.regs
      BY <1>5, <2>2, FilesDiffer DEF Leftovers
    <3>3. CredsOf(op.regs) = {}
      BY <3>2 DEF NoneLeft, Registered, CredsOf
    <3>4. QED
      BY <3>1, <3>2, <3>3 DEF InManifest
  <2>3. QED
    BY <2>1, <2>2
<1>9. InManifest(p)' = InManifest(p)
  BY <1>8 DEF InManifest, CredsOf
<1>10. OthersKept
  BY <1>5, <1>6, <1>7 DEF OthersKept
<1>11. /\ MyJournal.committed /\ MyJournal.retired = op.retired /\ op.failed = {}
       /\ \A c \in op.issued : /\ conn[c] # "none"
                               /\ c \in InManifest(p) \cup CredsIn(op.retired) \/ conn[c] = "revoked"
  BY <1>1, <1>5 DEF OpBooks, Finishing
<1>12. BookSafe(p)'
  <2>1. Sound(p, disk[Manifest(p)])'
    BY <1>1, <1>8 DEF Sound, Books, BookSafe
  <2>2. UndoSafe(p)'
    BY <1>5, <1>6, <1>11 DEF UndoSafe
  <2>3. FinishSafe(p)'
    <3>1. Befores(p)' = Befores(p)
      BY <1>6 DEF Befores, ManifestWrites
    <3>2. FinishSafe(p) /\ Book(p)' = Book(p)
      BY <1>6 DEF Books, BookSafe
    <3>3. QED
      BY <1>1, <1>9, <3>1, <3>2 DEF FinishSafe, MadeFor
  <2>4. QED
    BY <2>1, <2>2, <2>3 DEF BookSafe
<1>13. Books'
  <2>1. ASSUME NEW q \in Products, q # p PROVE BookSafe(q)'
    <3>1. SameBook(q) /\ CalmFor(q)
      BY <1>1, <1>6, <1>7, <2>1, CalmForAll DEF SameBook, ManifestWrites
    <3>2. QED
      BY <3>1, BookKept DEF Books
  <2>2. QED
    BY <1>12, <2>1 DEF Books
<1>14. Finishing'
  BY <1>1, <1>4, <1>5, <1>6, <1>9, <1>11 DEF Finishing
<1>15. AtWork' /\ WorkWrites' /\ Undoing' /\ RollingBack' /\ Recovering'
  BY <1>4, <1>6, <1>11 DEF AtWork, WorkWrites, Undoing, RollingBack, UndoesOwn, Recovering, Works, OnTarget
<1>16. Traced'
  <2>1. OpNames' = OpNames
    <3>1. Befores(p)' = Befores(p)
      BY <1>6 DEF Befores, ManifestWrites
    <3>2. QED
      BY <1>4, <1>5, <1>9, <3>1 DEF OpNames
  <2>2. op.phase \notin Unrecovered /\ op'.phase \notin Unrecovered
    BY <1>1, <1>4 DEF Unrecovered
  <2>3. \A c \in Creds : conn'[c] = conn[c] /\ label'[c] = label[c]
    BY <1>1
  <2>4. QED
    BY <1>1, <1>4, <1>10, <2>1, <2>2, <2>3, TracedKept
<1>17. QED
  BY <1>13, <1>14, <1>15, <1>16 DEF OpBooks

LEMMA UndoLinksWorks == ASSUME Credited, Types', UndoLinks PROVE (Books /\ OpBooks)'
<1> USE DEF Credited
<1>1. op # Absent /\ op.phase = "undoLinks" /\ UNCHANGED <<disk, conn, label, journal, notes, touched, spent>>
  BY DEF UndoLinks, Phase
<1>2. PICK p \in Products : p = Me /\ MyJournal = Book(p) /\ MyJournal = journal[p]
  <2>1. journal[Me] # Absent
    BY <1>1 DEF Types, OpKnows
  <2>2. QED
    BY <1>1, <2>1, OwnBook DEF MyJournal
<1>3. /\ op' # Absent /\ op'.phase = "undoIssued" /\ op'.product = op.product /\ op'.writes = op.writes
      /\ op'.issued = op.issued /\ op'.retired = op.retired /\ op'.left = MyJournal.issued
      /\ op'.failed = op.failed
  BY <1>1, <1>2, OpIsThere DEF UndoLinks, Types, OpTypes, OpFields
<1>4. OthersKept /\ (\A q \in Products : SameBook(q)) /\ MyJournal' = MyJournal /\ Me' = p
  BY <1>1, <1>2, <1>3, SameJournal DEF Me
<1>5. /\ op.issued = {} /\ op.retired = {} /\ op.failed = {} /\ op.writes = <<>> /\ ~MyJournal.committed
  BY <1>1 DEF OpBooks, Recovering, Undoing
<1>6. Recovering'
  BY <1>3, <1>4, <1>5 DEF Recovering
<1>7. Undoing'
  <2>1. Undoing
    BY DEF OpBooks
  <2>2. /\ ManifestWrites(p, MyJournal.writes)' = ManifestWrites(p, MyJournal.writes)
        /\ ManifestWrites(p, op.writes)' = ManifestWrites(p, op.writes)
    BY <1>3, <1>4 DEF ManifestWrites
  <2>3. QED
    BY <1>1, <1>2, <1>3, <1>4, <1>5, <2>1, <2>2 DEF Undoing
<1>8. AtWork' /\ WorkWrites' /\ RollingBack' /\ Finishing'
  BY <1>3 DEF AtWork, WorkWrites, RollingBack, UndoesOwn, Finishing, Works, OnTarget
<1>9. Books'
  BY <1>1, <1>4, BooksKept
<1>10. Traced'
  <2>1. \A q \in Products : Book(q)' = Book(q) /\ disk'[Manifest(q)] = disk[Manifest(q)]
    BY <1>1 DEF Book
  <2>2. QED
    BY <1>1, <1>3, <2>1, TracedOnDisk DEF Unrecovered
<1>11. QED
  BY <1>6, <1>7, <1>8, <1>9, <1>10 DEF OpBooks

LEMMA RollbackLinksWorks == ASSUME Credited, Types', RollbackLinks PROVE (Books /\ OpBooks)'
<1> USE DEF Credited
<1>1. op # Absent /\ op.phase = "rollbackLinks" /\ UNCHANGED <<disk, conn, label, journal, notes, touched, spent>>
  BY DEF RollbackLinks, Phase
<1>2. PICK p \in Products : p = Me /\ MyJournal = Book(p)
  BY <1>1, OwnBook
<1>3. /\ op' # Absent /\ op'.phase = "revoke" /\ op'.product = op.product /\ op'.writes = op.writes
      /\ op'.issued = op.issued /\ op'.retired = op.retired /\ op'.left = op.issued
      /\ op'.failed = op.failed
  BY <1>1, <1>2, OpIsThere DEF RollbackLinks, Types, OpTypes, OpFields
<1>4. OthersKept /\ (\A q \in Products : SameBook(q)) /\ MyJournal' = MyJournal /\ Me' = p
  BY <1>1, <1>2, <1>3, SameJournal DEF Me
<1>5. UndoesOwn /\ op.writes = <<>> /\ ~MyJournal.committed /\ op.failed = {}
  BY <1>1 DEF OpBooks, Undoing, UndoesOwn
<1>6. /\ ManifestWrites(p, MyJournal.writes)' = ManifestWrites(p, MyJournal.writes)
      /\ ManifestWrites(p, op.writes)' = ManifestWrites(p, op.writes)
      /\ InManifest(p)' = InManifest(p) /\ Befores(p)' = Befores(p)
  <2>1. Book(p)' = Book(p)
    BY <1>1 DEF Book
  <2>2. QED
    BY <1>1, <1>3, <1>4, <2>1 DEF ManifestWrites, InManifest, Befores
<1>7. Undoing'
  <2>1. Undoing
    BY DEF OpBooks
  <2>2. QED
    BY <1>1, <1>2, <1>3, <1>4, <1>5, <1>6, <2>1 DEF Undoing
<1>8. RollingBack'
  <2>1. PICK mine : mine = ManifestWrites(p, MyJournal.writes)
    OBVIOUS
  <2>2. /\ MyJournal.issued \subseteq op.issued
        /\ \A e \in op.issued : conn[e] # "none" /\ MadeFor(p, e) /\ Issued(e)
        /\ \A w \in mine : /\ CredsOf(w.before) \cap op.issued = {}
                           /\ CredsOf(w.after) \subseteq CredsOf(w.before) \cup op.issued
        /\ mine = {} => InManifest(p) \cap op.issued = {}
        /\ CredsIn(op.retired) \subseteq op.issued \cup InManifest(p) \cup Befores(p)
    BY <1>1, <1>2, <1>5, <2>1 DEF OpBooks, RollingBack
  <2>3. \A e \in op.issued : conn'[e] # "none" /\ MadeFor(p, e)' /\ Issued(e)'
    <3>1. \A e : (MadeFor(p, e) => MadeFor(p, e)') /\ (Issued(e) => Issued(e)')
      BY <1>1, <1>2, <1>4 DEF MadeFor, Issued
    <3>2. QED
      BY <1>1, <2>2, <3>1
  <2>4. QED
    BY <1>3, <1>4, <1>6, <2>1, <2>2, <2>3 DEF RollingBack
<1>9. AtWork' /\ WorkWrites' /\ Recovering' /\ Finishing'
  BY <1>3, <1>4, <1>5 DEF AtWork, WorkWrites, Recovering, Finishing, Works, OnTarget
<1>10. Books'
  BY <1>1, <1>4, BooksKept
<1>11. Traced'
  <2>1. OpNames' = OpNames
    BY <1>2, <1>3, <1>4, <1>6 DEF OpNames
  <2>2. op.phase \notin Unrecovered /\ op'.phase \notin Unrecovered
    BY <1>1, <1>3 DEF Unrecovered
  <2>3. QED
    BY <1>1, <1>3, <1>4, <2>1, <2>2, TracedKept
<1>12. QED
  BY <1>7, <1>8, <1>9, <1>10, <1>11 DEF OpBooks
\* What happens to the configuration files, or was seen in a file, does not matter to the books.
LEMMA ManifestsSame ==
    ASSUME Credited, UNCHANGED <<conn, label, journal, notes>>,
           op' = op \/ (op # Absent /\ \E s : op' = [op EXCEPT !.seen = s]),
           \A q \in Products : disk'[Manifest(q)] = disk[Manifest(q)]
    PROVE  (Books /\ OpBooks)'
<1> USE DEF Credited
<1>1. \A q \in Products : Book(q)' = Book(q) /\ SameBook(q) /\ InManifest(q)' = InManifest(q)
         /\ Befores(q)' = Befores(q)
  BY DEF Book, SameBook, ManifestWrites, InManifest, Befores
<1>2. Books'
  BY <1>1, BooksKept
<1> Warned' = Warned
  BY DEF Warned
<1>3. CASE op = Absent
  <2> op' = Absent
    BY <1>3
  <2>1. AtWork' /\ WorkWrites' /\ Undoing' /\ RollingBack' /\ Finishing' /\ Recovering'
    BY <1>3 DEF AtWork, WorkWrites, Undoing, RollingBack, UndoesOwn, Finishing, Recovering
  <2>2. Traced'
    BY <1>1, <1>3, TracedOnDisk
  <2>3. QED
    BY <1>2, <2>1, <2>2 DEF OpBooks
<1>4. CASE op # Absent
  <2>1. PICK p \in Products : p = Me
    BY <1>4, OwnBook
  <2> /\ op' # Absent /\ op'.product = op.product /\ op'.todo = op.todo /\ op'.phase = op.phase
      /\ op'.then = op.then /\ op'.write = op.write /\ op'.cred = op.cred /\ op'.writes = op.writes
      /\ op'.found = op.found /\ op'.regs = op.regs /\ op'.issued = op.issued
      /\ op'.retired = op.retired /\ op'.left = op.left /\ op'.failed = op.failed
    BY <1>4, OpIsThere DEF Types, OpTypes, OpFields
  <2>2. Me' = p /\ MyJournal' = MyJournal /\ Todo' = Todo /\ InFlight' = InFlight
    BY <2>1 DEF Me, MyJournal, Todo, InFlight, IsOn
  <2>3. \A x : (Sound(p, x) <=> Sound(p, x)') /\ \A c : (MadeFor(p, c) <=> MadeFor(p, c)')
    BY DEF Sound, MadeFor
  <2>4. \A c : Issued(c) <=> Issued(c)'
    BY <2>1, <2>2 DEF Issued
  <2>5. /\ ManifestWrites(p, MyJournal.writes)' = ManifestWrites(p, MyJournal.writes)
        /\ ManifestWrites(p, op.writes)' = ManifestWrites(p, op.writes)
    BY <2>2 DEF ManifestWrites
  <2>6. AtWork'
    <3>1. AtWork
      BY DEF OpBooks
    <3>2. QED
      BY <2>1, <2>2, <2>3, <3>1 DEF AtWork
  <2>7. WorkWrites'
    <3>1. WorkWrites
      BY DEF OpBooks
    <3>2. QED
      BY <2>1, <2>2, <2>5, <3>1 DEF WorkWrites, IsOn
  <2>8. Undoing'
    <3>1. Undoing
      BY DEF OpBooks
    <3>2. QED
      BY <2>1, <2>2, <2>5, <3>1 DEF Undoing, UndoesOwn
  <2>9. RollingBack'
    <3>1. RollingBack
      BY DEF OpBooks
    <3>2. QED
      BY <1>1, <2>1, <2>2, <2>3, <2>4, <2>5, <3>1 DEF RollingBack, UndoesOwn
  <2>10. Finishing' /\ Recovering'
    <3>1. Finishing /\ Recovering
      BY DEF OpBooks
    <3>2. QED
      BY <1>1, <2>1, <2>2, <3>1 DEF Finishing, Recovering
  <2>11. Traced'
    <3>1. CASE op.phase \in Unrecovered
      BY <1>1, <3>1, TracedOnDisk
    <3>2. CASE op.phase \notin Unrecovered
      <4>1. OthersKept /\ OpNames' = OpNames
        BY <1>1, <2>1, <2>2 DEF OthersKept, OpNames
      <4>2. QED
        BY <1>4, <3>2, <4>1, TracedKept
    <3>3. QED
      BY <3>1, <3>2
  <2>12. QED
    BY <1>2, <2>6, <2>7, <2>8, <2>9, <2>10, <2>11 DEF OpBooks
<1>5. QED
  BY <1>3, <1>4

-----------------------------------------------------------------------------
(* Undoing writes                                                          *)

\* The last write is taken back, or left to whoever changed the file since, or none is left.
TakesBack(last) ==
    \E ph, ws, s :
        /\ op' = [op EXCEPT !.phase = ph, !.writes = ws, !.seen = s] /\ notes' = notes
        /\ \/ op.writes = <<>> /\ ph = last /\ ws = <<>> /\ UNCHANGED <<disk, touched>>
           \/ /\ op.writes # <<>> /\ ph = op.phase /\ ws = Front(op.writes)
              /\ \/ disk[Written.file] # Written.after /\ UNCHANGED <<disk, touched>>
                 \/ StillIn(Written.file, Written.after) /\ Put(Written.file, Written.before, {Me})

LEMMA UndoWriteSteps ==
    ASSUME Types, Looked, NEW last, op # Absent, op.phase # "apply", UndoWrite(last)
    PROVE  \/ End /\ UNCHANGED <<disk, touched>>
           \/ (\E s : op' = [op EXCEPT !.seen = s]) /\ UNCHANGED <<disk, notes, touched>>
           \/ TakesBack(last)
<1>1. DOMAIN op = OpFields
  BY DEF Types, OpTypes
<1>2. CASE CompareWritten
  <2>1. CASE disk[Written.file] = Written.after
    BY <1>2, <2>1 DEF CompareWritten
  <2>2. CASE disk[Written.file] # Written.after
    <3>1. op' = [op EXCEPT !.phase = op.phase, !.writes = Front(op.writes), !.seen = op.seen]
      BY <1>1, <1>2, <2>2 DEF CompareWritten, OpFields
    <3>2. QED
      BY <1>2, <2>2, <3>1 DEF CompareWritten, TakesBack
  <2>3. QED
    BY <2>1, <2>2
<1>3. CASE PutBefore /\ ~End
  <2>1. op' = [op EXCEPT !.phase = op.phase, !.writes = Front(op.writes), !.seen = <<>>]
    BY <1>1, <1>3 DEF PutBefore, OpFields
  <2>2. StillIn(Written.file, Written.after)
    BY <1>3 DEF PutBefore, Looked, Facing, Faced
  <2>3. QED
    BY <1>3, <2>1, <2>2 DEF PutBefore, TakesBack
<1>4. CASE PutBefore /\ End
  BY <1>1, <1>4, OpIsThere DEF PutBefore, End, Types
<1>5. CASE op.writes = <<>> /\ Goto(last) /\ UNCHANGED <<disk, notes, touched>>
  <2>1. op' = [op EXCEPT !.phase = last, !.writes = <<>>, !.seen = op.seen]
    BY <1>1, <1>5 DEF Goto, OpFields
  <2>2. QED
    BY <1>5, <2>1 DEF TakesBack
<1>6. QED
  BY <1>2, <1>3, <1>4, <1>5 DEF UndoWrite

LEMMA TakenBackWorks ==
    ASSUME Credited, Types', op # Absent, UNCHANGED <<links, conn, label, journal>>,
           NEW last, NEW next, op.phase = next, TakesBack(last),
           \/ last = "undoLinks" /\ next = "undo"
           \/ last = "rollbackLinks" /\ next = "rollback"
    PROVE  (Books /\ OpBooks)'
<1> USE DEF Credited
<1>1. \/ last = "undoLinks" /\ next = "undo"
      \/ last = "rollbackLinks" /\ next = "rollback"
  OBVIOUS
<1>2. op # Absent /\ UNCHANGED <<links, conn, label, journal, notes>>
  BY DEF TakesBack
<1>3. PICK p \in Products : p = Me /\ MyJournal = Book(p)
  BY <1>2, OwnBook
<1>4. op.writes \in Seq(Writings(p)) /\ MyJournal \in Journals(p)
  BY <1>2, <1>3, MyJournalType DEF Types, OpTypes
<1>5. PICK mine : mine = ManifestWrites(p, MyJournal.writes)
  OBVIOUS
<1>6. /\ ~MyJournal.committed /\ ToSet(op.writes) \subseteq ToSet(MyJournal.writes)
      /\ ManifestWrites(p, op.writes) = {} => \A v \in mine : disk[Manifest(p)] = v.before
      /\ op.left = {} /\ op.failed = {}
  BY <1>1, <1>2, <1>3, <1>5 DEF OpBooks, Undoing, UndoesOwn
<1>7. /\ Book(p).retired = {} /\ Sound(p, disk[Manifest(p)])
      /\ \A c \in Book(p).issued : conn[c] # "none" /\ MadeFor(p, c)
      /\ \A w \in mine :
          /\ Sound(p, w.before) /\ CredsOf(w.before) \cap Book(p).issued = {}
          /\ CredsOf(w.after) \subseteq CredsOf(w.before) \cup Book(p).issued
          /\ disk[Manifest(p)] \in {w.before, w.after}
      /\ \A w, x \in mine : w.before = x.before /\ w.after = x.after
      /\ mine = {} => InManifest(p) \cap Book(p).issued = {}
  BY <1>3, <1>5, <1>6 DEF Books, BookSafe, UndoSafe
<1>8. /\ op' # Absent /\ op'.product = op.product /\ op'.issued = op.issued /\ op'.retired = op.retired
      /\ op'.left = op.left /\ op'.failed = op.failed
      /\ \/ op.writes = <<>> /\ op'.phase = last /\ op'.writes = op.writes
         \/ op.writes # <<>> /\ op'.phase = next /\ op'.writes = Front(op.writes)
  <2>1. PICK ph, ws, x : op' = [op EXCEPT !.phase = ph, !.writes = ws, !.seen = x]
                         /\ \/ op.writes = <<>> /\ ph = last /\ ws = <<>>
                            \/ op.writes # <<>> /\ ph = op.phase /\ ws = Front(op.writes)
    BY DEF TakesBack
  <2>2. QED
    BY <1>2, <2>1, OpIsThere DEF Types, OpTypes, OpFields
<1>9. Me' = p
  BY <1>3, <1>8 DEF Me
<1>10. MyJournal' = MyJournal /\ \A q \in Products : Book(q)' = Book(q)
  BY <1>2, <1>8 DEF MyJournal, Me, Book
<1>11. /\ mine' = mine /\ ManifestWrites(p, MyJournal.writes)' = mine
       /\ ManifestWrites(p, Book(p).writes)' = mine /\ Befores(p)' = Befores(p)
  BY <1>3, <1>5, <1>10 DEF ManifestWrites, Befores
<1>12. /\ \A q \in Products : q # p => disk'[Manifest(q)] = disk[Manifest(q)]
       /\ \/ disk'[Manifest(p)] = disk[Manifest(p)]
          \/ \E w \in mine : disk[Manifest(p)] = w.after /\ disk'[Manifest(p)] = w.before
       /\ ManifestWrites(p, op'.writes) = {} => \A v \in mine : disk'[Manifest(p)] = v.before
       /\ ToSet(op'.writes) \subseteq ToSet(op.writes)
  <2>1. CASE op.writes = <<>>
    <3>1. disk' = disk /\ op'.writes = op.writes
      BY <1>8, <2>1 DEF TakesBack
    <3>2. QED
      BY <1>6, <3>1
  <2>2. CASE op.writes # <<>>
    <3>1. PICK w : w = Last(op.writes)
      OBVIOUS
    <3>2. /\ w \in Writings(p) /\ w \in ToSet(op.writes) /\ op'.writes = Front(op.writes)
          /\ ToSet(op'.writes) \subseteq ToSet(op.writes)
          /\ \A x \in ToSet(op.writes) : x \in ToSet(op'.writes) \/ x = w
      BY <1>4, <1>8, <2>2, <3>1, LastOf
    <3>3. \/ disk[w.file] # w.after /\ disk' = disk
          \/ StillIn(w.file, w.after) /\ disk' = [disk EXCEPT ![w.file] = w.before]
      BY <2>2, <3>1 DEF TakesBack, Put, Written
    <3>4. \A q \in Products : Manifest(q) \in DOMAIN disk /\ (q # p => w.file # Manifest(q))
      BY <3>2, FilesOf DEF Writings, Types, DiskTypes
    <3>5. CASE w.file # Manifest(p)
      <4>1. \A q \in Products : disk'[Manifest(q)] = disk[Manifest(q)]
        BY <3>3, <3>4, <3>5
      <4>2. ManifestWrites(p, op'.writes) = ManifestWrites(p, op.writes)
        BY <3>2, <3>5 DEF ManifestWrites
      <4>3. QED
        BY <1>6, <3>2, <4>1, <4>2
    <3>6. CASE w.file = Manifest(p)
      <4>1. w \in mine
        BY <1>5, <1>6, <3>2, <3>6 DEF ManifestWrites
      <4>2. disk'[Manifest(p)] = w.before
        BY <1>7, <3>3, <3>4, <3>6, <4>1
      <4>3. disk'[Manifest(p)] = disk[Manifest(p)] \/ disk[Manifest(p)] = w.after
        BY <3>3, <3>6, FilesDiffer DEF StillIn
      <4>4. \A q \in Products : q # p => disk'[Manifest(q)] = disk[Manifest(q)]
        BY <3>3, <3>4
      <4>5. \A v \in mine : disk'[Manifest(p)] = v.before
        BY <1>7, <4>1, <4>2
      <4>6. QED
        BY <3>2, <4>1, <4>2, <4>3, <4>4, <4>5
    <3>7. QED
      BY <3>5, <3>6
  <2>3. QED
    BY <2>1, <2>2
<1>13. OthersKept
  BY <1>3, <1>10, <1>12 DEF OthersKept
<1>14. \A x : (Sound(p, x) => Sound(p, x)') /\ \A c : (MadeFor(p, c) => MadeFor(p, c)')
  BY <1>2 DEF Sound, MadeFor
<1>15. BookSafe(p)'
  <2>1. CASE disk'[Manifest(p)] = disk[Manifest(p)]
    <3>1. SameBook(p) /\ CalmFor(p)
      BY <1>2, <1>3, <1>5, <1>10, <1>11, <2>1, CalmForAll DEF SameBook
    <3>2. QED
      BY <3>1, BookKept DEF Books
  <2>2. ASSUME NEW w \in mine, disk'[Manifest(p)] = w.before PROVE BookSafe(p)'
    <3>1. Sound(p, disk[Manifest(p)])'
      BY <1>7, <1>14, <2>2
    <3>2. \A x \in mine : /\ Sound(p, x.before)' /\ CredsOf(x.before) \cap Book(p).issued = {}
                          /\ CredsOf(x.after) \subseteq CredsOf(x.before) \cup Book(p).issued
                          /\ disk'[Manifest(p)] \in {x.before, x.after}
      BY <1>7, <1>14, <2>2
    <3>3. \A c \in Book(p).issued : conn'[c] # "none" /\ MadeFor(p, c)'
      BY <1>2, <1>7, <1>14
    <3>4. UndoSafe(p)'
      BY <1>7, <1>10, <1>11, <2>2, <3>2, <3>3 DEF UndoSafe
    <3>5. FinishSafe(p)'
      BY <1>3, <1>6, <1>10 DEF FinishSafe
    <3>6. QED
      BY <3>1, <3>4, <3>5 DEF BookSafe
  <2>3. QED
    BY <1>12, <2>1, <2>2
<1>16. Books'
  <2>1. ASSUME NEW q \in Products, q # p PROVE BookSafe(q)'
    <3>1. SameBook(q) /\ CalmFor(q)
      BY <1>2, <1>10, <1>12, <2>1, CalmForAll DEF SameBook, ManifestWrites
    <3>2. QED
      BY <3>1, BookKept DEF Books
  <2>2. QED
    BY <1>15, <2>1 DEF Books
\* What the manifest named it still names, or was issued.
<1>17. InManifest(p) \subseteq InManifest(p)' \cup Book(p).issued
  BY <1>7, <1>12 DEF InManifest
<1>18. Undoing'
  <2>1. op'.phase \notin {"undo", "rollback"} => op'.writes = <<>>
    BY <1>1, <1>8
  <2>2. ToSet(op'.writes) \subseteq ToSet(MyJournal.writes)
    BY <1>6, <1>12
  <2>3. QED
    BY <1>6, <1>8, <1>9, <1>10, <1>11, <1>12, <2>1, <2>2 DEF Undoing
<1>19. RollingBack'
  <2>1. CASE next = "undo"
    BY <1>1, <1>8, <2>1 DEF RollingBack, UndoesOwn
  <2>2. CASE next = "rollback"
    <3>1. /\ MyJournal.issued \subseteq op.issued
          /\ \A e \in op.issued : conn[e] # "none" /\ MadeFor(p, e) /\ Issued(e)
          /\ \A w \in mine : /\ CredsOf(w.before) \cap op.issued = {}
                             /\ CredsOf(w.after) \subseteq CredsOf(w.before) \cup op.issued
          /\ mine = {} => InManifest(p) \cap op.issued = {}
          /\ CredsIn(op.retired) \subseteq op.issued \cup InManifest(p) \cup Befores(p)
      BY <1>1, <1>2, <1>3, <1>5, <2>2 DEF OpBooks, RollingBack, UndoesOwn
    <3>2. \A e \in op.issued : conn'[e] # "none" /\ MadeFor(p, e)' /\ Issued(e)'
      <4>1. \A e : (MadeFor(p, e) => MadeFor(p, e)') /\ (Issued(e) => Issued(e)')
        BY <1>2, <1>3, <1>9, <1>10 DEF MadeFor, Issued
      <4>2. QED
        BY <1>2, <3>1, <4>1
    <3>3. mine = {} => InManifest(p)' \cap op.issued = {}
      BY <1>12, <3>1 DEF InManifest
    <3>4. CredsIn(op.retired) \subseteq op.issued \cup InManifest(p)' \cup Befores(p)
      BY <1>3, <1>17, <3>1
    <3>5. op'.phase # "revoke" /\ op'.left = {}
      BY <1>1, <1>6, <1>8
    <3>6. QED
      BY <1>8, <1>9, <1>10, <1>11, <3>1, <3>2, <3>3, <3>4, <3>5 DEF RollingBack
  <2>3. QED
    BY <1>1, <2>1, <2>2
<1>20. Recovering'
  <2>1. CASE next = "undo"
    <3>1. op.issued = {} /\ op.retired = {} /\ op.failed = {} /\ op'.phase \in {"undo", "undoLinks"}
      BY <1>1, <1>2, <1>8, <2>1 DEF OpBooks, Recovering
    <3>2. QED
      BY <1>8, <3>1 DEF Recovering
  <2>2. CASE next = "rollback"
    BY <1>1, <1>8, <2>2 DEF Recovering
  <2>3. QED
    BY <1>1, <2>1, <2>2
<1>21. AtWork' /\ WorkWrites' /\ Finishing'
  BY <1>1, <1>8 DEF AtWork, WorkWrites, Finishing, Works, OnTarget
<1>22. Traced'
  <2>1. CASE next = "rollback"
    <3>1. MyJournal.issued \subseteq op.issued
      BY <1>1, <1>2, <2>1 DEF OpBooks, RollingBack, UndoesOwn
    <3>2. OpNames \subseteq OpNames'
      BY <1>3, <1>8, <1>9, <1>11, <1>17, <3>1 DEF OpNames
    <3>3. op.phase \notin Unrecovered /\ op'.phase \notin Unrecovered
      BY <1>1, <1>8, <2>1 DEF Unrecovered
    <3>4. Warned' = Warned /\ \A c \in Creds : conn'[c] = conn[c] /\ label'[c] = label[c]
      BY <1>2 DEF Warned
    <3>5. QED
      BY <1>2, <1>8, <1>13, <3>2, <3>3, <3>4, TracedKept
  <2>2. CASE next = "undo"
    <3> Warned' = Warned
      BY <1>2 DEF Warned
    <3>1. ASSUME NEW c \in Creds, conn'[c] = "live" PROVE c \in Warned' \/ \E q \in Products : Accounts(q, c)'
      <4>1. c \in Warned \/ \E q \in Products : Accounts(q, c)
        BY <1>2, <3>1, AllAccounted
      <4>2. ASSUME NEW q \in Products, q # p, Accounts(q, c) PROVE Accounts(q, c)'
        BY <1>2, <1>10, <1>12, <4>2, AccountsKept
      <4>3. ASSUME Accounts(p, c) PROVE Accounts(p, c)'
        BY <1>2, <1>10, <1>11, <1>17, <4>3 DEF Accounts
      <4>4. QED
        BY <1>2, <4>1, <4>2, <4>3
    <3>2. op'.phase \in Unrecovered
      BY <1>1, <1>8, <2>2 DEF Unrecovered
    <3>3. QED
      BY <3>1, <3>2 DEF Traced
  <2>3. QED
    BY <1>1, <2>1, <2>2
<1>23. QED
  BY <1>16, <1>18, <1>19, <1>20, <1>21, <1>22 DEF OpBooks

LEMMA UndoWriteWorks ==
    ASSUME Credited, Types', Undo \/ RollbackWrite
    PROVE  (Books /\ OpBooks)'
<1>1. PICK last, next :
        /\ UndoWrite(last) /\ op # Absent /\ op.phase = next /\ UNCHANGED <<links, conn, label, journal>>
        /\ \/ last = "undoLinks" /\ next = "undo"
           \/ last = "rollbackLinks" /\ next = "rollback"
  BY DEF Undo, RollbackWrite, Phase
<1>2. CASE End /\ UNCHANGED <<disk, touched>>
  BY <1>1, <1>2, OperationEnds
<1>3. CASE (\E s : op' = [op EXCEPT !.seen = s]) /\ UNCHANGED <<disk, notes, touched>>
  BY <1>1, <1>3, ManifestsSame
<1>4. CASE TakesBack(last)
  BY <1>1, <1>4, TakenBackWorks
<1>5. QED
  BY <1>1, <1>2, <1>3, <1>4, UndoWriteSteps DEF Credited
-----------------------------------------------------------------------------
(* Recoveries, beginnings, and what the user does                          *)

\* An operation that has recovered: the journal is gone, and it plans.
LEMMA RecoveredWorks ==
    ASSUME Credited, op # Absent, op.phase \in {"finish", "undoIssued"}, Recovered, UNCHANGED <<conn, label>>,
           \A q \in Products : disk'[Manifest(q)] = disk[Manifest(q)],
           op.issued = {}, op.retired = {}, op.left = {}, op.failed = {}, op.writes = <<>>,
           \A c \in Creds : Accounts(Me, c) /\ conn[c] = "live" =>
               c \in InManifest(Me) \/ \E t \in Book(Me).issuing : label[c] = <<Me, t>>
    PROVE  (Books /\ OpBooks)'
<1> USE DEF Credited
<1>1. PICK p \in Products : p = Me /\ Book(p) = journal[p]
  <2>1. journal[Me] # Absent
    BY DEF Types, OpKnows
  <2>2. QED
    BY <2>1, OwnBook DEF Book
<1>2. /\ ClearJournal /\ Goto("plan")
      /\ Warned' = Warned \cup {c \in Creds : label[c] \in {<<p, t>> : t \in Book(p).issuing}}
  BY <1>1 DEF Recovered, Warned, Types, OtherTypes, Notes
<1>3. /\ op' # Absent /\ op'.phase = "plan" /\ op'.product = op.product /\ op'.issued = {} /\ op'.retired = {}
      /\ op'.left = {} /\ op'.failed = {} /\ op'.writes = <<>>
  BY <1>2, GoneTo
<1>4. Me' = p
  BY <1>1, <1>3 DEF Me
<1>5. /\ Book(p)' = EmptyJournal /\ \A q \in Products \ {p} : Book(q)' = Book(q)
      /\ UndoSafe(p)' /\ FinishSafe(p)' /\ journal'[p] = Absent
  BY <1>1, <1>2, ClearedBook
<1>6. Books'
  <2>1. Sound(p, disk[Manifest(p)])'
    BY <1>1 DEF Books, BookSafe, Sound
  <2>2. BookSafe(p)'
    BY <1>5, <2>1 DEF BookSafe
  <2>3. ASSUME NEW q \in Products, q # p PROVE BookSafe(q)'
    <3>1. SameBook(q) /\ CalmFor(q)
      BY <1>5, <2>3, CalmForAll DEF SameBook, ManifestWrites
    <3>2. QED
      BY <3>1, BookKept DEF Books
  <2>4. QED
    BY <2>2, <2>3 DEF Books
<1>7. Recovering'
  BY <1>3, <1>4, <1>5 DEF Recovering
<1>8. AtWork' /\ WorkWrites' /\ Undoing' /\ RollingBack' /\ Finishing'
  BY <1>3 DEF AtWork, WorkWrites, Undoing, RollingBack, UndoesOwn, Finishing, Works, OnTarget
<1>9. ASSUME NEW c \in Creds, conn'[c] = "live" PROVE Elsewhere(c)' \/ c \in InManifest(p)'
  <2>1. conn[c] = "live" /\ (c \in Warned \/ \E q \in Products : Accounts(q, c))
    BY <1>9, AllAccounted
  <2>2. CASE c \in Warned
    BY <1>2, <2>2 DEF Elsewhere
  <2>3. ASSUME NEW q \in Products, q # p, Accounts(q, c) PROVE Elsewhere(c)'
    <3>1. Accounts(q, c)'
      BY <1>5, <2>3, AccountsKept
    <3>2. QED
      BY <1>4, <2>3, <3>1 DEF Elsewhere
  <2>4. CASE Accounts(p, c)
    <3>1. c \in InManifest(p) \/ \E t \in Book(p).issuing : label[c] = <<p, t>>
      BY <1>1, <2>1, <2>4
    <3>2. CASE c \in InManifest(p)
      BY <3>2 DEF InManifest
    <3>3. CASE \E t \in Book(p).issuing : label[c] = <<p, t>>
      BY <1>2, <3>3 DEF Elsewhere
    <3>4. QED
      BY <3>1, <3>2, <3>3
  <2>5. QED
    BY <2>1, <2>2, <2>3, <2>4
<1>10. Traced'
  BY <1>3, <1>4, <1>9 DEF Traced, Unrecovered
<1>11. QED
  BY <1>6, <1>7, <1>8, <1>10 DEF OpBooks

LEMMA UndoneWorks == ASSUME Credited, Types', Undone PROVE (Books /\ OpBooks)'
<1> USE DEF Credited
<1>1. op # Absent /\ op.phase = "undoIssued" /\ op.left = {} /\ Recovered /\ UNCHANGED <<disk, conn, label>>
  BY DEF Undone, Phase
<1>2. PICK p \in Products : p = Me /\ MyJournal = Book(p)
  BY <1>1, OwnBook
<1>3. /\ op.issued = {} /\ op.retired = {} /\ op.failed = {} /\ op.writes = <<>> /\ ~MyJournal.committed
      /\ \A e \in MyJournal.issued : conn[e] = "revoked"
  BY <1>1 DEF OpBooks, Recovering, Undoing
<1>4. Befores(p) \subseteq InManifest(p)
  <2>1. ManifestWrites(p, op.writes) = {}
    <3>1. ToSet(<<>>) = {}
      BY DEF ToSet
    <3>2. QED
      BY <1>3, <3>1 DEF ManifestWrites
  <2>2. \A w \in ManifestWrites(p, Book(p).writes) : disk[Manifest(p)] = w.before
    BY <1>1, <1>2, <2>1 DEF OpBooks, Undoing
  <2>3. QED
    BY <2>2 DEF Befores, InManifest
<1>5. CredsIn(Book(p).retired) = {}
  BY <1>2, <1>3 DEF Books, BookSafe, UndoSafe, CredsIn
<1>6. \A c \in Creds : Accounts(Me, c) /\ conn[c] = "live" =>
         c \in InManifest(Me) \/ \E t \in Book(Me).issuing : label[c] = <<Me, t>>
  BY <1>2, <1>3, <1>4, <1>5 DEF Accounts
<1>7. \A q \in Products : disk'[Manifest(q)] = disk[Manifest(q)]
  BY <1>1
<1>8. QED
  BY <1>1, <1>3, <1>6, <1>7, RecoveredWorks

LEMMA FinishedWorks == ASSUME Credited, Types', Finished PROVE (Books /\ OpBooks)'
<1> USE DEF Credited
<1>1. op # Absent /\ op.phase = "finish" /\ op.left = {} /\ UNCHANGED <<links, conn, label, touched, spent>>
  BY DEF Finished, Phase
<1>2. CASE op.failed # {}
  BY <1>1, <1>2, OperationEnds DEF Finished
<1>3. CASE op.failed = {}
  <2>1. Recovered /\ RemoveIfUnchanged(journal[Me].cleanup)
    BY <1>3 DEF Finished
  <2>2. PICK p \in Products : p = Me /\ MyJournal = Book(p) /\ Book(p) = journal[p] /\ journal[p] \in Journals(p)
    <3>1. journal[Me] # Absent
      BY <1>1 DEF Types, OpKnows
    <3>2. QED
      BY <1>1, <3>1, OwnBook DEF MyJournal, Types, JournalTypes
  <2>3. /\ op.issued = {} /\ op.retired = {} /\ op.writes = <<>> /\ MyJournal.committed
        /\ \A e \in CredsIn(MyJournal.retired) : conn[e] = "revoked"
    BY <1>1, <1>3 DEF OpBooks, Recovering, Finishing
  <2>4. \A c \in Book(p).issued \cup Befores(p) :
           c \in InManifest(p) \cup CredsIn(Book(p).retired) \/ conn[c] = "revoked"
    BY <2>2, <2>3 DEF Books, BookSafe, FinishSafe
  <2>5. \A c \in Creds : Accounts(Me, c) /\ conn[c] = "live" =>
           c \in InManifest(Me) \/ \E t \in Book(Me).issuing : label[c] = <<Me, t>>
    BY <2>2, <2>3, <2>4 DEF Accounts
  <2>6. \A q \in Products : disk'[Manifest(q)] = disk[Manifest(q)]
    <3>1. journal[Me].cleanup \subseteq {<<Skill(p), <<"skill">>>>}
      BY <2>2 DEF Journals
    <3>2. \A q, x : <<Manifest(q), x>> \notin journal[Me].cleanup
      BY <3>1, FilesDiffer
    <3>3. QED
      BY <2>1, <3>2, FilesOf DEF RemoveIfUnchanged
  <2>7. QED
    BY <1>1, <1>3, <2>1, <2>3, <2>5, <2>6, RecoveredWorks
<1>4. QED
  BY <1>2, <1>3

LEMMA RecoverWorks == ASSUME Credited, Types', Recover PROVE (Books /\ OpBooks)'
<1> USE DEF Credited
<1>1. op # Absent /\ op.phase = "recover" /\ UNCHANGED <<disk, links, conn, label, journal, notes, touched, spent>>
  BY DEF Recover, Phase
<1>2. PICK p \in Products : p = Me /\ MyJournal = Book(p)
  BY <1>1, OwnBook
<1>3. op.issued = {} /\ op.retired = {} /\ op.left = {} /\ op.failed = {} /\ op.writes = <<>>
  BY <1>1 DEF OpBooks, Recovering
<1>4. /\ op' # Absent /\ op'.product = op.product /\ op'.issued = {} /\ op'.retired = {} /\ op'.failed = {}
      /\ \/ journal[p] = Absent /\ op'.phase = "plan" /\ op'.left = {} /\ op'.writes = <<>>
         \/ /\ journal[p] # Absent /\ journal[p].committed /\ op'.phase = "finish"
            /\ op'.left = CredsIn(journal[p].retired) /\ op'.writes = <<>>
         \/ /\ journal[p] # Absent /\ ~journal[p].committed /\ op'.phase = "undo"
            /\ op'.left = {} /\ op'.writes = journal[p].writes
  <2>1. CASE journal[p] = Absent
    <3>1. Goto("plan")
      BY <1>2, <2>1 DEF Recover
    <3>2. QED
      BY <1>1, <1>3, <2>1, <3>1, GoneTo
  <2>2. CASE journal[p] # Absent /\ journal[p].committed
    <3>1. op' = [op EXCEPT !.phase = "finish", !.left = {reg.cred : reg \in journal[p].retired}]
      BY <1>2, <2>2 DEF Recover
    <3>2. QED
      BY <1>1, <1>3, <2>2, <3>1, OpIsThere DEF Types, OpTypes, OpFields, CredsIn
  <2>3. CASE journal[p] # Absent /\ ~journal[p].committed
    <3>1. op' = [op EXCEPT !.phase = "undo", !.writes = journal[p].writes]
      BY <1>2, <2>3 DEF Recover
    <3>2. QED
      BY <1>1, <1>3, <2>3, <3>1, OpIsThere DEF Types, OpTypes, OpFields
  <2>4. QED
    BY <2>1, <2>2, <2>3
<1>5. OthersKept /\ (\A q \in Products : SameBook(q)) /\ MyJournal' = MyJournal /\ Me' = p
  BY <1>1, <1>2, <1>4, SameJournal DEF Me
<1>6. Books'
  BY <1>1, <1>5, BooksKept
<1>7. AtWork' /\ WorkWrites' /\ RollingBack'
  BY <1>4 DEF AtWork, WorkWrites, RollingBack, UndoesOwn, Works, OnTarget
<1>8. MyJournal = IF journal[p] = Absent THEN EmptyJournal ELSE journal[p]
  BY <1>2 DEF MyJournal
<1>9. ManifestWrites(p, MyJournal.writes)' = ManifestWrites(p, MyJournal.writes)
      /\ ManifestWrites(p, op.writes)' = ManifestWrites(p, op'.writes)
  BY <1>5 DEF ManifestWrites
<1>10. Undoing'
  <2>1. CASE op'.phase = "undo"
    <3>1. op'.writes = MyJournal.writes /\ ~MyJournal.committed /\ op'.left = {}
      BY <1>4, <1>8, <2>1
    <3>2. QED
      BY <1>4, <1>5, <1>9, <2>1, <3>1 DEF Undoing
  <2>2. CASE op'.phase # "undo"
    BY <1>4, <2>2 DEF Undoing, UndoesOwn
  <2>3. QED
    BY <2>1, <2>2
<1>11. Finishing'
  <2>1. CASE op'.phase = "finish"
    <3>1. MyJournal.committed /\ op'.left = CredsIn(MyJournal.retired)
      BY <1>4, <1>8, <2>1
    <3>2. QED
      BY <1>4, <1>5, <2>1, <3>1 DEF Finishing
  <2>2. CASE op'.phase # "finish"
    BY <1>4, <2>2 DEF Finishing
  <2>3. QED
    BY <2>1, <2>2
<1>12. Recovering'
  BY <1>1, <1>4, <1>5 DEF Recovering
<1>13. Traced'
  <2>1. \A q \in Products : Book(q)' = Book(q) /\ disk'[Manifest(q)] = disk[Manifest(q)]
    BY <1>1 DEF Book
  <2>2. CASE op'.phase \in Unrecovered
    BY <1>1, <2>1, <2>2, TracedOnDisk
  <2>3. CASE op'.phase = "plan"
    <3>1. ASSUME NEW c \in Creds, conn'[c] = "live"
          PROVE  Elsewhere(c)' \/ c \in InManifest(p)'
      <4>1. c \in Warned \/ \E q \in Products : Accounts(q, c)
        BY <1>1, <3>1, AllAccounted
      <4>2. CASE c \in Warned
        BY <1>1, <4>2 DEF Elsewhere, Warned
      <4>3. ASSUME NEW q \in Products, q # p, Accounts(q, c) PROVE Elsewhere(c)'
        <5>1. Accounts(q, c)'
          BY <1>1, <2>1, <4>3, AccountsKept
        <5>2. QED
          BY <1>5, <4>3, <5>1 DEF Elsewhere
      <4>4. CASE Accounts(p, c)
        <5>1. Book(p) = EmptyJournal
          BY <1>4, <2>3 DEF Book
        <5>2. Book(p).issued = {} /\ Book(p).retired = {} /\ Book(p).issuing = {} /\ Book(p).writes = <<>>
          BY <5>1 DEF EmptyJournal
        <5>3. Befores(p) = {} /\ CredsIn(Book(p).retired) = {}
          BY <5>2 DEF Befores, ManifestWrites, ToSet, CredsIn
        <5>4. c \in InManifest(p)
          BY <4>4, <5>2, <5>3 DEF Accounts
        <5>5. QED
          BY <1>1, <5>4 DEF InManifest
      <4>5. QED
        BY <4>1, <4>2, <4>3, <4>4
    <3>2. QED
      BY <1>4, <1>5, <2>3, <3>1 DEF Traced, Unrecovered
  <2>4. QED
    BY <1>4, <2>2, <2>3 DEF Unrecovered
<1>14. QED
  BY <1>6, <1>7, <1>10, <1>11, <1>12, <1>13 DEF OpBooks

LEMMA StartWorks ==
    ASSUME Credited, Types', NEW p \in Products, NEW kind, NEW v, NEW todo, Start(p, kind, v, todo)
    PROVE  (Books /\ OpBooks)'
<1> USE DEF Credited
<1>1. /\ op = Absent /\ UNCHANGED <<disk, links, conn, label, journal, notes, touched>>
      /\ op'.phase = "recover" /\ op'.issued = {} /\ op'.retired = {} /\ op'.left = {} /\ op'.failed = {}
      /\ op'.writes = <<>>
  BY DEF Start
<1>2. AtWork' /\ WorkWrites' /\ Undoing' /\ RollingBack' /\ Finishing'
  BY <1>1 DEF AtWork, WorkWrites, Undoing, RollingBack, UndoesOwn, Finishing, Works, OnTarget
<1>3. Recovering'
  BY <1>1 DEF Recovering
<1>4. \A q \in Products : Book(q)' = Book(q) /\ SameBook(q) /\ disk'[Manifest(q)] = disk[Manifest(q)]
  BY <1>1 DEF Book, SameBook, ManifestWrites
<1>5. Books'
  BY <1>1, <1>4, BooksKept
<1>6. Traced'
  BY <1>1, <1>4, TracedOnDisk DEF Unrecovered
<1>7. QED
  BY <1>2, <1>3, <1>5, <1>6 DEF OpBooks

LEMMA LookWorks == ASSUME Credited, Types', Look PROVE (Books /\ OpBooks)'
<1>1. op # Absent /\ op.phase \in Works /\ UNCHANGED <<disk, links, conn, label, journal, notes>>
  BY DEF Look, Phase, Works
<1>2. CASE Rollback
  BY <1>1, <1>2, WorkGivenUp
<1>3. CASE ~Rollback
  BY <1>1, <1>3, ManifestsSame DEF Look
<1>4. QED
  BY <1>2, <1>3

LEMMA UserEditWorks == ASSUME Credited, Types', NEW t \in Targets, UserEdit(t) PROVE (Books /\ OpBooks)'
<1>1. UNCHANGED <<conn, label, journal, op, notes>>
  BY DEF UserEdit
<1>2. \A q \in Products : disk'[Manifest(q)] = disk[Manifest(q)]
  <2>1. \A q \in Products : Config(t) # Manifest(q)
    BY FilesDiffer
  <2>2. \E x : disk' = [disk EXCEPT ![Config(t)] = x]
    <3>1. CASE Put(Config(t), [disk[Config(t)] EXCEPT !.user = @ + 1], {})
      BY <3>1 DEF Put
    <3>2. ASSUME NEW p \in Products, NEW entry, disk' = [disk EXCEPT ![Config(t)].entry[p] = entry]
          PROVE  \E x : disk' = [disk EXCEPT ![Config(t)] = x]
      <4>1. disk' = [disk EXCEPT ![Config(t)] = [disk[Config(t)] EXCEPT !.entry[p] = entry]]
        BY <3>2, FilesOf DEF Credited, Types, DiskTypes
      <4>2. QED
        BY <4>1
    <3>3. QED
      BY <3>1, <3>2 DEF UserEdit
  <2>3. QED
    BY <2>1, <2>2, FilesOf DEF Credited, Types, DiskTypes
<1>3. QED
  BY <1>1, <1>2, ManifestsSame

-----------------------------------------------------------------------------
(* The theorems                                                            *)

LEMMA InitCredited == AgentInit => Credited
<1> SUFFICES ASSUME AgentInit PROVE Credited
  OBVIOUS
<1>1. Types
  BY InitAgentTypes
<1>2. \A p \in Products : disk[Manifest(p)] = Absent /\ journal[p] = Absent
  BY FilesOf, FilesDiffer DEF AgentInit
<1>3. ASSUME NEW p \in Products PROVE BookSafe(p)
  <2>1. Book(p) = EmptyJournal
    BY <1>2 DEF Book
  <2>2. Book(p).issued = {} /\ Book(p).retired = {} /\ Book(p).committed = FALSE /\ Book(p).writes = <<>>
    BY <2>1 DEF EmptyJournal
  <2>3. ManifestWrites(p, Book(p).writes) = {}
    BY <2>2 DEF ManifestWrites, ToSet
  <2>4. QED
    BY <1>2, <2>2, <2>3 DEF BookSafe, UndoSafe, FinishSafe, Sound
<1>4. OpBooks /\ Looked
  BY DEF AgentInit, Looked, OpBooks, AtWork, WorkWrites, Undoing, RollingBack, Finishing, Recovering, Traced
<1>5. QED
  BY <1>1, <1>3, <1>4 DEF Credited, Books

LEMMA NextCredited == Credited /\ [AgentNext]_agentVars => Credited'
<1> SUFFICES ASSUME Credited, [AgentNext]_agentVars PROVE Credited'
  OBVIOUS
<1>1. Types' /\ Looked'
  BY NextAgentTypes, NextLooked DEF Credited
<1> SUFFICES (Books /\ OpBooks)'
  BY <1>1 DEF Credited
<1>2. CASE UNCHANGED agentVars
  BY <1>2, ManifestsSame DEF agentVars
<1>3. CASE \E p \in Products, r \in Commands : Start(p, r.kind, r.version, r.todo)
  BY <1>1, <1>3, StartWorks
<1>4. CASE Recovery
  BY <1>1, <1>4, RecoverWorks, FinishOneWorks, FinishedWorks, UndoWriteWorks, UndoLinksWorks,
     UndoIssuedWorks, UndoneWorks DEF Recovery
<1>5. CASE Plan \/ Target \/ Look \/ Apply
  BY <1>1, <1>5, PlanWorks, UnrecordedStepsWork, LookWorks, AppliedWorks
<1>6. CASE Install
  BY <1>1, <1>6, WriteStepsWork, RecordStepsWork, UnrecordedStepsWork, RefreshWorks, RegisteredStepsWork,
     CreateWorks, RecordIssuedWorks DEF Install
<1>7. CASE Uninstall
  BY <1>1, <1>7, WriteStepsWork, RecordStepsWork, UnrecordedStepsWork, RegisteredStepsWork DEF Uninstall
<1>8. CASE Ending
  BY <1>1, <1>8, WriteManifestWorks, CommitWorks, CleanupWorks, RevokeWorks, DoneWorks, UndoWriteWorks,
     RollbackLinksWorks DEF Ending
<1>9. CASE Fail \/ Crash \/ \E t \in Targets : UserEdit(t)
  BY <1>1, <1>9, FailWorks, CrashWorks, UserEditWorks
<1>10. QED
  BY <1>2, <1>3, <1>4, <1>5, <1>6, <1>7, <1>8, <1>9 DEF AgentNext

LEMMA AlwaysCredited == AgentSpec => []Credited
BY InitCredited, NextCredited, PTL DEF AgentSpec

LEMMA RegistryOf == ASSUME NEW p PROVE RegistryNames(p) = InManifest(p)
<1>1. CASE disk[Manifest(p)] = Absent
  <2>1. \A t \in Targets : Regs(p)[t] = NoEntry
    BY <1>1 DEF Regs, NoRegs
  <2>2. RegistryNames(p) = {}
    BY <2>1 DEF RegistryNames, Registered
  <2>3. QED
    BY <1>1, <2>2 DEF InManifest, CredsOf
<1>2. CASE disk[Manifest(p)] # Absent
  BY <1>2 DEF RegistryNames, Registered, Regs, InManifest, CredsOf
<1>3. QED
  BY <1>1, <1>2

\* No rollback, recovery or cleanup leaves a manifest with a credential that was revoked.
THEOREM RegisteredCredentialsWork == AgentSpec => []RegisteredWorks
<1>1. Credited => RegisteredWorks
  <2> SUFFICES ASSUME Credited, NEW p \in Products, NEW c \in RegistryNames(p) PROVE conn[c] = "live"
    BY DEF RegisteredWorks
  <2>1. Sound(p, disk[Manifest(p)]) /\ c \in CredsOf(disk[Manifest(p)])
    BY RegistryOf DEF Credited, Books, BookSafe, InManifest
  <2>2. QED
    BY <2>1, SoundCreds
<1>2. QED
  BY <1>1, AlwaysCredited, PTL

\* A credential that still works is in a manifest, in a journal that revokes it or names its label,
\* or a recovery of that journal has warned of it; the warning itself is lost with an operation
\* that fails or dies after its recovery.
THEOREM CredentialsAreAccountedFor == AgentSpec => []LiveIsAccountedFor
<1>1. ASSUME Credited, NEW p \in Products, NEW c, Accounts(p, c)
      PROVE  c \in RegistryNames(p) \cup JournalNames(p) \/ label[c] \in Issuing(p)
  <2>1. CASE journal[p] = Absent
    <3>1. Book(p) = EmptyJournal
      BY <2>1 DEF Book
    <3>2. Book(p).issued = {} /\ Book(p).retired = {} /\ Book(p).issuing = {} /\ Book(p).writes = <<>>
      BY <3>1 DEF EmptyJournal
    <3>3. Befores(p) = {} /\ CredsIn(Book(p).retired) = {}
      BY <3>2 DEF Befores, ManifestWrites, ToSet, CredsIn
    <3>4. QED
      BY <1>1, <3>2, <3>3, RegistryOf DEF Accounts
  <2>2. CASE journal[p] # Absent
    <3>1. Book(p) = journal[p]
      BY <2>2 DEF Book
    <3>2. PICK mine : mine = ManifestWrites(p, Book(p).writes)
      OBVIOUS
    <3>3. ASSUME NEW w \in mine, c \in CredsOf(w.before) PROVE c \in JournalNames(p)
      <4>1. c \in Restored(w)
        BY <3>3 DEF CredsOf, Restored
      <4>2. w \in ToSet(journal[p].writes) /\ w.file = Manifest(p)
        BY <3>1, <3>2 DEF ManifestWrites
      <4>3. QED
        BY <2>2, <4>1, <4>2 DEF JournalNames
    <3>4. c \in Befores(p) => c \in JournalNames(p)
      BY <3>2, <3>3 DEF Befores
    <3>5. c \in Book(p).issued \cup CredsIn(Book(p).retired) => c \in JournalNames(p)
      BY <2>2, <3>1 DEF JournalNames, CredsIn
    <3>6. (\E t \in Book(p).issuing : label[c] = <<p, t>>) => label[c] \in Issuing(p)
      BY <2>2, <3>1 DEF Issuing
    <3>7. QED
      BY <1>1, <3>4, <3>5, <3>6, RegistryOf DEF Accounts
  <2>3. QED
    BY <2>1, <2>2
<1>2. Credited => LiveIsAccountedFor
  <2> SUFFICES ASSUME Credited, NEW c \in Creds, conn[c] = "live"
               PROVE  \/ c \in Warned
                      \/ \E p \in Products :
                           c \in RegistryNames(p) \cup JournalNames(p) \/ label[c] \in Issuing(p)
    BY DEF LiveIsAccountedFor, Warned
  <2>1. c \in Warned \/ \E p \in Products : Accounts(p, c)
    BY AllAccounted
  <2>2. QED
    BY <1>1, <2>1
<1>3. QED
  BY <1>2, AlwaysCredited, PTL

-----------------------------------------------------------------------------
(* What an interrupted operation gives back                                *)

\* The writes that an undoing of the files of a product still goes through.
Undoes(p) == IF op # Absent /\ Me = p /\ op.phase # "recover" THEN op.writes ELSE Book(p).writes
\* An undoing gives the file this content.
GoesBack(p, f, b) ==
    /\ \A w \in ToSet(Book(p).writes) : w.file = f => w.before = b
    /\ disk[f] = b \/ \E w \in ToSet(Undoes(p)) : w.file = f /\ disk[f] = w.after
LinksBack(p) == (links[p] \ Book(p).linked) \cup Book(p).removed

Table(m) == IF m = Absent THEN NoRegs ELSE m
\* An undoing gives a product the manifest m and, where nobody interfered, the files x of the
\* agents, and they agree with each other, with the credential files, the skill and its links.
Restores(p, m, x) ==
    /\ GoesBack(p, Manifest(p), m)
    /\ \E s \in {Absent, <<"skill">>} :
         GoesBack(p, Skill(p), s) /\ (Registered(Table(m)) # {} => s # Absent)
    /\ \A t \in Targets :
         /\ (Table(m)[t] # NoEntry) <=> (t \in LinksBack(p))
         /\ Table(m)[t] # NoEntry => GoesBack(p, Secret(Table(m)[t].cred), <<Table(m)[t].version>>)
         /\ <<p, t>> \notin touched => GoesBack(p, Config(t), x[t]) /\ x[t].entry[p] = Table(m)[t]
Restorable(p) == \E m \in Tables \cup {Absent}, x \in [Targets -> Texts] : Restores(p, m, x)

\* All parts of a product's registrations agree on disk, where nobody interfered.
Whole(p) ==
    \A t \in Targets :
        /\ (Regs(p)[t] # NoEntry) <=> (t \in links[p])
        /\ Regs(p)[t] # NoEntry => /\ disk[Secret(Regs(p)[t].cred)] = <<Regs(p)[t].version>>
                                   /\ disk[Skill(p)] # Absent
        /\ <<p, t>> \notin touched => EntryOf(p, t) = Regs(p)[t]
OwnSecrets(p) ==
    \A w \in ToSet(Book(p).writes), c \in Creds :
        w.file = Secret(c) => MadeFor(p, c) /\ conn[c] # "none"
PartsAgree(p) ==
    /\ OwnSecrets(p)
    /\ Book(p).committed => Whole(p) /\ (Book(p).cleanup # {} => Registered(Regs(p)) = {})
    /\ ~Book(p).committed => Restorable(p)

\* Where an operation is, and what the files hold once the write that is in the journal is made.
AtStep == IF op.phase = "apply" THEN op.then ELSE op.phase
Shown == [f \in Files |-> IF op.phase = "apply" /\ op.write.file = f THEN op.write.after ELSE disk[f]]
AfterLink == {"entry", "refreshSecret", "refreshed", "create", "issue", "secret", "newEntry",
              "registered"}
Halfway == (AfterLink \ {"entry"}) \cup {"removeEntry", "unlink", "dropLink"}

\* At step n of target u, with table r, the links l agree with the table but for u; they go back
\* to the same by the lists of the journal and by those of the operation.
LinksAgree(n, u, r, kind, l, j, linked, removed) ==
    /\ (l \ j.linked) \cup j.removed = (l \ linked) \cup removed
    /\ kind = "uninstall" => j.linked = {} /\ n \notin AfterLink \cup {"link", "makeLink"}
    /\ n \in {"link", "makeLink"} => u \notin l
    /\ n = "makeLink" => u \in j.linked
    /\ n = "dropLink" => u \in j.removed
    /\ n \in AfterLink => u \in l
    /\ \A t \in Targets : (n \in OnTarget /\ t = u) \/ ((r[t] # NoEntry) <=> (t \in l))
\* So do the credential files d, and those that were written hold the version v.
SecretsAgree(n, u, r, v, c, ws, d) ==
    /\ \A t \in Targets : r[t] # NoEntry /\ ~(n = "refreshed" /\ t = u) =>
         d[Secret(r[t].cred)] = <<r[t].version>>
    /\ n = "refreshed" => d[Secret(r[u].cred)] = <<v>>
    /\ n \in {"newEntry", "registered"} => d[Secret(c)] = <<v>>
    /\ \A w \in ws, e \in Creds : w.file = Secret(e) => d[Secret(e)] = <<v>>
    /\ n = "refreshSecret" => r[u].version # v
\* And the entries of product p, except where somebody else changed the file (g).
EntriesAgree(n, u, p, r, v, c, g, d) ==
    /\ \A t \in Targets : \/ n \in Halfway /\ t = u
                          \/ <<p, t>> \in g
                          \/ d[Config(t)].entry[p] = r[t]
    /\ n \in Halfway /\ <<p, u>> \notin g =>
         /\ n \in {"refreshSecret", "refreshed"} => d[Config(u)].entry[p] = Entry(r[u].cred, v)
         /\ n = "registered" => d[Config(u)].entry[p] = Entry(c, v)
         /\ n \in {"unlink", "dropLink"} => d[Config(u)].entry[p] = NoEntry
SkillAgrees(n, p, r, kind, d) ==
    Registered(r) # {} \/ (kind # "uninstall" /\ n # "skill") => d[Skill(p)] # Absent

AtWorkAgrees == op # Absent /\ op.phase \in Works =>
    /\ LinksAgree(AtStep, Todo, op.regs, op.kind, links[Me], MyJournal, op.linked, op.removed)
    /\ SecretsAgree(AtStep, Todo, op.regs, op.version, op.cred, ToSet(MyJournal.writes), Shown)
    /\ EntriesAgree(AtStep, Todo, Me, op.regs, op.version, op.cred, touched, Shown)
    /\ SkillAgrees(AtStep, Me, op.regs, op.kind, Shown)
    /\ op.kind = "uninstall" => \A t \in Targets : op.regs[t] \in {NoEntry, Table(op.found)[t]}
    /\ op.phase = "skill" => journal[Me] = Absent
AtWorkRestores == op # Absent /\ op.phase \in Works => Restores(Me, op.found, op.text)
Endings == op # Absent =>
    /\ op.phase \in {"rollback", "rollbackLinks"} =>
         LinksBack(Me) = (links[Me] \ op.linked) \cup op.removed
    /\ op.phase = "undoIssued" \/ (op.phase = "revoke" /\ ~MyJournal.committed) =>
         links[Me] = LinksBack(Me)
    /\ op.phase \in {"recover", "finish", "undo", "undoLinks", "undoIssued", "plan"} =>
         op.linked = {} /\ op.removed = {}
    /\ op.phase = "cleanup" /\ NoneLeft => MyJournal.cleanup # {}
Parts == \A p \in Products : PartsAgree(p)
OpParts == AtWorkRestores /\ AtWorkAgrees /\ Endings
Agreed == Credited /\ Parts /\ OpParts

LEMMA UndoesKnown ==
    ASSUME Credited, NEW p \in Products, ~Book(p).committed
    PROVE  ToSet(Undoes(p)) \subseteq ToSet(Book(p).writes)
<1> USE DEF Credited
<1>1. CASE op # Absent /\ Me = p /\ op.phase # "recover"
  <2>1. MyJournal = Book(p) /\ Undoes(p) = op.writes
    BY <1>1, OwnBook DEF Undoes
  <2>2. op.phase \in Phases
    BY <1>1 DEF Types, OpTypes
  <2>3. ToSet(<<>>) = {}
    BY DEF ToSet
  <2>4. CASE op.phase \in Works
    BY <1>1, <2>1, <2>4 DEF OpBooks, WorkWrites
  <2>5. CASE UndoesOwn \/ op.phase \in {"undo", "undoLinks", "undoIssued"}
    BY <1>1, <2>1, <2>5 DEF OpBooks, Undoing
  <2>6. CASE op.phase = "plan"
    BY <1>1, <2>1, <2>3, <2>6 DEF OpBooks, Recovering
  <2>7. CASE op.phase \in {"cleanup", "finish"}
    BY <1>1, <2>1, <2>7 DEF OpBooks, Finishing
  <2>8. QED
    BY <1>1, <2>1, <2>2, <2>4, <2>5, <2>6, <2>7 DEF Phases, UndoesOwn
<1>2. CASE ~(op # Absent /\ Me = p /\ op.phase # "recover")
  BY <1>2 DEF Undoes
<1>3. QED
  BY <1>1, <1>2

\* What a file goes back to when nothing was written to it.
LEMMA BackUnwritten ==
    ASSUME NEW p, NEW f, NEW b, ToSet(Undoes(p)) \subseteq ToSet(Book(p).writes),
           \A w \in ToSet(Book(p).writes) : w.file # f
    PROVE  GoesBack(p, f, b) <=> disk[f] = b
BY DEF GoesBack

LEMMA BackKept ==
    ASSUME NEW p, NEW f, NEW b, GoesBack(p, f, b), disk'[f] = disk[f],
           ToSet(Book(p)'.writes) \subseteq ToSet(Book(p).writes),
           ToSet(Undoes(p)) \subseteq ToSet(Undoes(p)')
    PROVE  GoesBack(p, f, b)'
BY DEF GoesBack

\* The manifest a product goes back to names credentials that work.
LEMMA BackSound ==
    ASSUME Credited, NEW p \in Products, ~Book(p).committed, NEW m, GoesBack(p, Manifest(p), m)
    PROVE  Sound(p, m)
<1>1. BookSafe(p)
  BY DEF Credited, Books
<1>2. CASE disk[Manifest(p)] = m
  BY <1>1, <1>2 DEF BookSafe
<1>3. ASSUME NEW w \in ToSet(Undoes(p)), w.file = Manifest(p), disk[Manifest(p)] = w.after PROVE Sound(p, m)
  <2>1. w \in ManifestWrites(p, Book(p).writes)
    BY <1>3, UndoesKnown DEF ManifestWrites
  <2>2. w.before = m
    BY <2>1, <1>3 DEF GoesBack, ManifestWrites
  <2>3. QED
    BY <1>1, <2>1, <2>2 DEF BookSafe, UndoSafe
<1>4. QED
  BY <1>2, <1>3 DEF GoesBack

LEMMA TablesOf ==
    ASSUME NEW m \in Tables \cup {Absent}
    PROVE  /\ Table(m) \in Tables
           /\ \A t \in Targets : Table(m)[t] # NoEntry => m # Absent /\ m[t] = Table(m)[t]
                                                          /\ Table(m)[t] \in Registrations
<1>1. NoRegs \in Tables /\ \A t \in Targets : NoRegs[t] = NoEntry
  BY DEF NoRegs, Tables
<1>2. QED
  BY <1>1 DEF Table, Tables

LEMMA RegsTable == ASSUME NEW p PROVE Regs(p) = Table(disk[Manifest(p)])
BY DEF Regs, Table

\* The credentials of a table that works are those of the product.
LEMMA SoundTable ==
    ASSUME NEW p \in Products, NEW m \in Tables \cup {Absent}, Sound(p, m), NEW t \in Targets,
           Table(m)[t] # NoEntry
    PROVE  /\ Table(m)[t].cred \in Creds /\ Table(m)[t].version \in Nat
           /\ MadeFor(p, Table(m)[t].cred) /\ conn[Table(m)[t].cred] = "live"
           /\ label[Table(m)[t].cred] = <<p, t>>
<1>1. m # Absent /\ m[t] = Table(m)[t] /\ Table(m)[t] \in Registrations
  BY TablesOf
<1>2. conn[m[t].cred] = "live" /\ label[m[t].cred] = <<p, t>>
  BY <1>1 DEF Sound
<1>3. QED
  BY <1>1, <1>2 DEF Registrations, MadeFor

\* With an empty journal what goes back is what is there.
LEMMA WholeIsRestorable ==
    ASSUME Types, NEW p \in Products, Book(p) = EmptyJournal, Undoes(p) = <<>>
    PROVE  Whole(p) <=> Restorable(p)
<1>1. /\ ToSet(Book(p).writes) = {} /\ ToSet(Undoes(p)) = {} /\ LinksBack(p) = links[p]
  BY DEF EmptyJournal, ToSet, LinksBack
<1>2. \A f, b : GoesBack(p, f, b) <=> disk[f] = b
  BY <1>1 DEF GoesBack
<1>3. PICK m : m = disk[Manifest(p)]
  OBVIOUS
<1>4. PICK x : x = [t \in Targets |-> disk[Config(t)]]
  OBVIOUS
<1>5. m \in Tables \cup {Absent} /\ x \in [Targets -> Texts] /\ disk[Skill(p)] \in {Absent, <<"skill">>}
  BY <1>3, <1>4, FilesOf, FitsEach DEF Types, DiskTypes
<1>6. Regs(p) = Table(m)
  BY <1>3, RegsTable
<1>7. ASSUME Whole(p) PROVE Restorable(p)
  <2>1. Restores(p, m, x)
    <3>1. GoesBack(p, Manifest(p), m)
      BY <1>2, <1>3
    <3>2. GoesBack(p, Skill(p), disk[Skill(p)]) /\ (Registered(Table(m)) # {} => disk[Skill(p)] # Absent)
      BY <1>2, <1>6, <1>7 DEF Whole, Registered
    <3>3. \A t \in Targets :
             /\ (Table(m)[t] # NoEntry) <=> (t \in LinksBack(p))
             /\ Table(m)[t] # NoEntry => GoesBack(p, Secret(Table(m)[t].cred), <<Table(m)[t].version>>)
             /\ <<p, t>> \notin touched => GoesBack(p, Config(t), x[t]) /\ x[t].entry[p] = Table(m)[t]
      BY <1>1, <1>2, <1>4, <1>6, <1>7 DEF Whole, EntryOf
    <3>4. QED
      BY <1>5, <3>1, <3>2, <3>3 DEF Restores
  <2>2. QED
    BY <1>5, <2>1 DEF Restorable
<1>8. ASSUME Restorable(p) PROVE Whole(p)
  <2>1. PICK n \in Tables \cup {Absent}, y \in [Targets -> Texts] : Restores(p, n, y)
    BY <1>8 DEF Restorable
  <2>2. n = m
    BY <1>2, <1>3, <2>1 DEF Restores
  <2>3. Registered(Table(m)) # {} => disk[Skill(p)] # Absent
    BY <1>2, <2>1, <2>2 DEF Restores
  <2>4. \A t \in Targets :
             /\ (Table(m)[t] # NoEntry) <=> (t \in links[p])
             /\ Table(m)[t] # NoEntry => disk[Secret(Table(m)[t].cred)] = <<Table(m)[t].version>>
             /\ <<p, t>> \notin touched => EntryOf(p, t) = Table(m)[t]
    <3> TAKE t \in Targets
    <3>1. /\ (Table(m)[t] # NoEntry) <=> (t \in links[p])
          /\ Table(m)[t] # NoEntry => GoesBack(p, Secret(Table(m)[t].cred), <<Table(m)[t].version>>)
          /\ <<p, t>> \notin touched => GoesBack(p, Config(t), y[t]) /\ y[t].entry[p] = Table(m)[t]
      BY <1>1, <2>1, <2>2 DEF Restores
    <3>2. QED
      BY <1>2, <3>1 DEF EntryOf
  <2>5. QED
    BY <1>6, <2>3, <2>4 DEF Whole, Registered
<1>9. QED
  BY <1>7, <1>8

LEMMA RestoresKept ==
    ASSUME NEW p \in Products, NEW m \in Tables \cup {Absent}, NEW x, Restores(p, m, x), Sound(p, m),
           ToSet(Book(p)'.writes) \subseteq ToSet(Book(p).writes), LinksBack(p)' = LinksBack(p),
           ToSet(Undoes(p)) \subseteq ToSet(Undoes(p)'), touched \subseteq touched',
           disk'[Manifest(p)] = disk[Manifest(p)], disk'[Skill(p)] = disk[Skill(p)],
           \A c \in Creds : MadeFor(p, c) => disk'[Secret(c)] = disk[Secret(c)],
           \A t \in Targets : <<p, t>> \notin touched' => disk'[Config(t)] = disk[Config(t)]
    PROVE  Restores(p, m, x)'
<1>1. GoesBack(p, Manifest(p), m)'
  BY BackKept DEF Restores
<1>2. (\E s \in {Absent, <<"skill">>} :
          GoesBack(p, Skill(p), s) /\ (Registered(Table(m)) # {} => s # Absent))'
  <2>1. PICK s \in {Absent, <<"skill">>} :
            GoesBack(p, Skill(p), s) /\ (Registered(Table(m)) # {} => s # Absent)
    BY DEF Restores
  <2>2. GoesBack(p, Skill(p), s)'
    BY <2>1, BackKept
  <2>3. (Registered(Table(m)) # {} => s # Absent)'
    BY <2>1
  <2>4. QED
    BY <2>2, <2>3
<1>3. ASSUME NEW t \in Targets
      PROVE  /\ (Table(m)[t] # NoEntry) <=> (t \in LinksBack(p)')
             /\ Table(m)[t] # NoEntry => GoesBack(p, Secret(Table(m)[t].cred), <<Table(m)[t].version>>)'
             /\ <<p, t>> \notin touched' => GoesBack(p, Config(t), x[t])' /\ x[t].entry[p] = Table(m)[t]
  <2>1. /\ (Table(m)[t] # NoEntry) <=> (t \in LinksBack(p))
        /\ Table(m)[t] # NoEntry => GoesBack(p, Secret(Table(m)[t].cred), <<Table(m)[t].version>>)
        /\ <<p, t>> \notin touched => GoesBack(p, Config(t), x[t]) /\ x[t].entry[p] = Table(m)[t]
    BY DEF Restores
  <2>2. Table(m)[t] # NoEntry => GoesBack(p, Secret(Table(m)[t].cred), <<Table(m)[t].version>>)'
    <3> SUFFICES ASSUME Table(m)[t] # NoEntry PROVE GoesBack(p, Secret(Table(m)[t].cred), <<Table(m)[t].version>>)'
      OBVIOUS
    <3>1. disk'[Secret(Table(m)[t].cred)] = disk[Secret(Table(m)[t].cred)]
      BY SoundTable
    <3>2. GoesBack(p, Secret(Table(m)[t].cred), <<Table(m)[t].version>>)
      BY <2>1
    <3>3. QED
      BY <3>1, <3>2, BackKept
  <2>3. <<p, t>> \notin touched' => GoesBack(p, Config(t), x[t])'
    BY <2>1, BackKept
  <2>4. QED
    BY <2>1, <2>2, <2>3
<1>4. QED
  BY <1>1, <1>2, <1>3 DEF Restores

LEMMA WholeKept ==
    ASSUME NEW p \in Products, Types, Sound(p, disk[Manifest(p)]), Whole(p),
           links'[p] = links[p], touched \subseteq touched',
           disk'[Manifest(p)] = disk[Manifest(p)], disk'[Skill(p)] = disk[Skill(p)],
           \A c \in Creds : MadeFor(p, c) => disk'[Secret(c)] = disk[Secret(c)],
           \A t \in Targets : <<p, t>> \notin touched' => EntryOf(p, t)' = EntryOf(p, t)
    PROVE  Whole(p)'
<1>1. Regs(p)' = Regs(p)
  BY DEF Regs
<1>2. disk[Manifest(p)] \in Tables \cup {Absent}
  BY FilesOf, FitsEach DEF Types, DiskTypes
<1>3. ASSUME NEW t \in Targets, Regs(p)[t] # NoEntry
      PROVE  disk'[Secret(Regs(p)[t].cred)] = disk[Secret(Regs(p)[t].cred)]
  BY <1>2, <1>3, RegsTable, SoundTable
<1>4. QED
  BY <1>1, <1>3 DEF Whole

\* What a step may do to the files of a product that it does not work for.
Spared(p) ==
    /\ Book(p)' = Book(p) /\ links'[p] = links[p] /\ touched \subseteq touched'
    /\ disk'[Manifest(p)] = disk[Manifest(p)] /\ disk'[Skill(p)] = disk[Skill(p)]
    /\ \A c \in Creds : MadeFor(p, c) => disk'[Secret(c)] = disk[Secret(c)]
    /\ \A t \in Targets : <<p, t>> \notin touched' =>
         /\ EntryOf(p, t)' = EntryOf(p, t)
         /\ disk'[Config(t)] = disk[Config(t)] \/ (Book(p) = EmptyJournal /\ Undoes(p)' = <<>>)
    /\ ToSet(Undoes(p)) \subseteq ToSet(Undoes(p)')
    /\ \A c \in Creds : conn[c] # "none" => label'[c] = label[c] /\ conn'[c] # "none"

LEMMA NothingWritten == ASSUME NEW p, Book(p) = EmptyJournal, Credited, p \in Products PROVE ToSet(Undoes(p)) = {}
<1>1. ToSet(Book(p).writes) = {} /\ ~Book(p).committed
  BY DEF EmptyJournal, ToSet
<1>2. QED
  BY <1>1, UndoesKnown

LEMMA PartsSpared ==
    ASSUME Credited, Types', NEW p \in Products, PartsAgree(p), Spared(p)
    PROVE  PartsAgree(p)'
<1>1. BookSafe(p) /\ Types
  BY DEF Credited, Books
<1>2. OwnSecrets(p)'
  BY DEF PartsAgree, OwnSecrets, Spared, MadeFor
<1>3. CASE Book(p).committed
  <2>1. Whole(p)'
    BY <1>1, <1>3, WholeKept DEF PartsAgree, Spared, BookSafe
  <2>2. Regs(p)' = Regs(p)
    BY DEF Regs, Spared
  <2>3. QED
    BY <1>2, <1>3, <2>1, <2>2 DEF PartsAgree, Spared
<1>4. CASE ~Book(p).committed
  <2>1. PICK m \in Tables \cup {Absent}, x \in [Targets -> Texts] : Restores(p, m, x)
    BY <1>4 DEF PartsAgree, Restorable
  <2>2. Sound(p, m)
    BY <1>4, <2>1, BackSound DEF Restores
  <2>3. CASE \A t \in Targets : <<p, t>> \notin touched' => disk'[Config(t)] = disk[Config(t)]
    <3>1. LinksBack(p)' = LinksBack(p)
      BY DEF Spared, LinksBack
    <3>2. Restores(p, m, x)'
      BY <2>1, <2>2, <2>3, <3>1, RestoresKept DEF Spared
    <3>3. Restorable(p)'
      BY <3>2 DEF Restorable
    <3>4. QED
      BY <1>2, <1>4, <3>3 DEF PartsAgree, Spared
  <2>4. CASE ~\A t \in Targets : <<p, t>> \notin touched' => disk'[Config(t)] = disk[Config(t)]
    <3>1. Book(p) = EmptyJournal /\ Book(p)' = EmptyJournal /\ Undoes(p)' = <<>>
      BY <2>4 DEF Spared
    <3>2. ToSet(Undoes(p)) = {} /\ LinksBack(p) = links[p] /\ ToSet(Book(p).writes) = {}
      BY <3>1, NothingWritten DEF LinksBack, EmptyJournal, ToSet
    <3>3. Whole(p)
      <4>1. \A f, b : GoesBack(p, f, b) <=> disk[f] = b
        BY <3>2 DEF GoesBack
      <4>2. disk[Manifest(p)] = m /\ Regs(p) = Table(m)
        BY <2>1, <4>1, RegsTable DEF Restores
      <4>3. Registered(Table(m)) # {} => disk[Skill(p)] # Absent
        BY <2>1, <4>1 DEF Restores
      <4>4. ASSUME NEW t \in Targets
            PROVE  /\ (Table(m)[t] # NoEntry) <=> (t \in links[p])
                   /\ Table(m)[t] # NoEntry => disk[Secret(Table(m)[t].cred)] = <<Table(m)[t].version>>
                   /\ <<p, t>> \notin touched => EntryOf(p, t) = Table(m)[t]
        <5>1. /\ (Table(m)[t] # NoEntry) <=> (t \in links[p])
              /\ Table(m)[t] # NoEntry => GoesBack(p, Secret(Table(m)[t].cred), <<Table(m)[t].version>>)
              /\ <<p, t>> \notin touched => GoesBack(p, Config(t), x[t]) /\ x[t].entry[p] = Table(m)[t]
          BY <2>1, <3>2 DEF Restores
        <5>2. QED
          BY <4>1, <5>1 DEF EntryOf
      <4>5. QED
        BY <4>2, <4>3, <4>4 DEF Whole, Registered
    <3>4. Whole(p)'
      BY <1>1, <3>3, WholeKept DEF Spared, BookSafe
    <3>5. Restorable(p)'
      <4>1. /\ Types' /\ p \in Products /\ Book(p)' = EmptyJournal /\ Undoes(p)' = <<>> /\ Whole(p)'
        BY <3>1, <3>4
      <4>2. (Types /\ p \in Products /\ Book(p) = EmptyJournal /\ Undoes(p) = <<>> => (Whole(p) <=> Restorable(p)))'
        BY WholeIsRestorable, PTL
      <4>3. QED
        BY <4>1, <4>2
    <3>6. QED
      BY <1>2, <1>4, <3>1, <3>5 DEF PartsAgree
  <2>5. QED
    BY <2>3, <2>4
<1>5. QED
  BY <1>3, <1>4

\* What an operation does to the files of others.
LEMMA OthersSpared ==
    ASSUME Types, NEW p \in Products, p = Me, op # Absent, op' = Absent \/ op'.product = p,
           NEW q \in Products, q # p, Book(q)' = Book(q), links'[q] = links[q], touched \subseteq touched',
           \A f \in Files : disk'[f] # disk[f] =>
              \/ f \in {Manifest(p), Skill(p)}
              \/ \E c \in Creds : f = Secret(c) /\ MadeFor(p, c)
              \/ \E t \in Targets : /\ f = Config(t)
                                    /\ \/ <<q, t>> \in touched'
                                       \/ journal[q] = Absent /\ EntryOf(q, t)' = EntryOf(q, t),
           \A c \in Creds : conn[c] # "none" => label'[c] = label[c] /\ conn'[c] # "none"
    PROVE  Spared(q)
<1>1. Manifest(q) \in Files /\ Skill(q) \in Files /\ (\A c \in Creds : Secret(c) \in Files)
      /\ \A t \in Targets : Config(t) \in Files
  BY FilesOf
<1>2. disk'[Manifest(q)] = disk[Manifest(q)] /\ disk'[Skill(q)] = disk[Skill(q)]
  <2>1. {Manifest(q), Skill(q)} \cap {Manifest(p), Skill(p)} = {}
    BY FilesDiffer
  <2>2. \A c \in Creds : Secret(c) \notin {Manifest(q), Skill(q)}
    BY FilesDiffer
  <2>3. \A t \in Targets : Config(t) \notin {Manifest(q), Skill(q)}
    BY FilesDiffer
  <2>4. QED
    BY <1>1, <2>1, <2>2, <2>3
<1>3. ASSUME NEW c \in Creds, MadeFor(q, c) PROVE disk'[Secret(c)] = disk[Secret(c)]
  <2>1. ~MadeFor(p, c)
    BY <1>3, MadeForOne
  <2>2. \A d \in Creds : Secret(c) = Secret(d) => d = c
    BY FilesDiffer
  <2>3. /\ Secret(c) \notin {Manifest(p), Skill(p)}
        /\ \A t \in Targets : Secret(c) # Config(t)
    BY FilesDiffer
  <2>4. QED
    BY <1>1, <2>1, <2>2, <2>3
<1>4. Undoes(q) = Book(q).writes /\ Undoes(q)' = Book(q).writes
  BY DEF Undoes, Me
<1>5. ASSUME NEW t \in Targets, <<q, t>> \notin touched'
      PROVE  /\ EntryOf(q, t)' = EntryOf(q, t)
             /\ disk'[Config(t)] = disk[Config(t)] \/ (Book(q) = EmptyJournal /\ Undoes(q)' = <<>>)
  <2>1. CASE disk'[Config(t)] = disk[Config(t)]
    BY <2>1 DEF EntryOf
  <2>2. CASE disk'[Config(t)] # disk[Config(t)]
    <3>1. /\ Config(t) \notin {Manifest(p), Skill(p)}
          /\ \A d \in Creds : Config(t) # Secret(d)
          /\ \A u \in Targets : Config(t) = Config(u) => u = t
      BY FilesDiffer
    <3>2. journal[q] = Absent /\ EntryOf(q, t)' = EntryOf(q, t)
      BY <1>1, <1>5, <2>2, <3>1
    <3>3. Book(q) = EmptyJournal
      BY <3>2 DEF Book
    <3>4. QED
      BY <1>4, <3>2, <3>3 DEF EmptyJournal
  <2>3. QED
    BY <2>1, <2>2
<1>6. QED
  BY <1>2, <1>3, <1>4, <1>5 DEF Spared

\* A write of an operation, made or undone.
LEMMA PutSpares ==
    ASSUME Credited, NEW p \in Products, p = Me, op # Absent, OwnSecrets(p),
           NEW w \in Writings(p), w \in ToSet(Book(p).writes), NEW x,
           \/ StillIn(w.file, w.before) /\ x = w.after
           \/ StillIn(w.file, w.after) /\ x = w.before,
           Put(w.file, x, {p}), NEW q \in Products, q # p
    PROVE  /\ touched \subseteq touched'
           /\ \A f \in Files : disk'[f] # disk[f] =>
              \/ f \in {Manifest(p), Skill(p)}
              \/ \E c \in Creds : f = Secret(c) /\ MadeFor(p, c)
              \/ \E t \in Targets : /\ f = Config(t)
                                    /\ \/ <<q, t>> \in touched'
                                       \/ journal[q] = Absent /\ EntryOf(q, t)' = EntryOf(q, t)
<1>1. /\ disk' = [disk EXCEPT ![w.file] = x] /\ touched' = touched \cup Touches(w.file, {p})
      /\ w.file \in Files /\ DOMAIN disk = Files
  BY DEF Put, Credited, Types, DiskTypes, Writings
<1>2. \A f \in Files : disk'[f] # disk[f] => f = w.file
  BY <1>1
<1>3. CASE \E r \in Products : w.file \in {Manifest(r), Skill(r)}
  BY <1>1, <1>2, <1>3 DEF Writings
<1>4. CASE \E c \in Creds : w.file = Secret(c)
  BY <1>1, <1>2, <1>4 DEF OwnSecrets
<1>5. ASSUME NEW t \in Targets, w.file = Config(t)
      PROVE  <<q, t>> \in touched' \/ (journal[q] = Absent /\ EntryOf(q, t)' = EntryOf(q, t))
  <2>1. CASE journal[q] # Absent
    <3>1. <<q, t>> \in Touches(w.file, {p})
      BY <1>5, <2>1 DEF Touches
    <3>2. QED
      BY <1>1, <3>1
  <2>2. CASE journal[q] = Absent /\ <<q, t>> \notin touched
    <3>1. OwnChange(p, w.before, w.after)
      BY <1>5 DEF Writings
    <3>2. disk'[Config(t)] = x
      BY <1>1, <1>5
    <3>3. disk'[Config(t)].entry[q] = disk[Config(t)].entry[q]
      BY <1>5, <2>2, <3>1, <3>2 DEF OwnChange, StillIn, EntryOf
    <3>4. QED
      BY <2>2, <3>3 DEF EntryOf
  <2>3. QED
    BY <1>1, <2>1, <2>2
<1>6. \/ \E r \in Products : w.file \in {Manifest(r), Skill(r)}
      \/ \E c \in Creds : w.file = Secret(c)
      \/ \E t \in Targets : w.file = Config(t)
  BY <1>1 DEF Files
<1>7. QED
  BY <1>1, <1>2, <1>3, <1>4, <1>5, <1>6

LEMMA RemoveSpares ==
    ASSUME Credited, NEW p \in Products, p = Me, op # Absent, NEW pairs, RemoveIfUnchanged(pairs),
           NEW R, \A c \in CredsIn(R) : MadeFor(p, c), CredsIn(R) \subseteq Creds, NEW y, NEW z,
           pairs \subseteq {<<Secret(reg.cred), <<reg.version>>>> : reg \in R}
                             \cup {<<Skill(p), y>>, <<Manifest(p), z>>}
    PROVE  \A f \in Files : disk'[f] # disk[f] =>
              \/ f \in {Manifest(p), Skill(p)}
              \/ \E c \in Creds : f = Secret(c) /\ MadeFor(p, c)
<1>1. ASSUME NEW f \in Files, disk'[f] # disk[f] PROVE \E v : <<f, v>> \in pairs
  BY <1>1 DEF RemoveIfUnchanged, Credited, Types, DiskTypes
<1>2. ASSUME NEW f \in Files, NEW v, <<f, v>> \in pairs
      PROVE  f \in {Manifest(p), Skill(p)} \/ \E c \in Creds : f = Secret(c) /\ MadeFor(p, c)
  <2>1. f \in {Manifest(p), Skill(p)} \/ \E reg \in R : f = Secret(reg.cred)
    BY <1>2
  <2>2. ASSUME NEW reg \in R, f = Secret(reg.cred) PROVE \E c \in Creds : f = Secret(c) /\ MadeFor(p, c)
    BY <2>2 DEF CredsIn
  <2>3. QED
    BY <2>1, <2>2
<1>3. QED
  BY <1>1, <1>2

\* The agreement of the next state, from what its parts are.
LEMMA AgreesNext ==
    ASSUME NEW p, p = Me', NEW n, n = AtStep', NEW u, u = Todo', NEW r, r = op'.regs, NEW k, k = op'.kind,
           NEW v, v = op'.version, NEW c, c = op'.cred, NEW l, l = links'[p], NEW j, j = MyJournal',
           NEW d, d = Shown',
           LinksAgree(n, u, r, k, l, j, op'.linked, op'.removed),
           SecretsAgree(n, u, r, v, c, ToSet(j.writes), d),
           EntriesAgree(n, u, p, r, v, c, touched', d), SkillAgrees(n, p, r, k, d),
           k = "uninstall" => \A t \in Targets : r[t] \in {NoEntry, Table(op'.found)[t]},
           op'.phase = "skill" => journal'[p] = Absent
    PROVE  AtWorkAgrees'
<1>1. LinksAgree(AtStep, Todo, op.regs, op.kind, links[Me], MyJournal, op.linked, op.removed)'
  BY DEF LinksAgree
<1>2. SecretsAgree(AtStep, Todo, op.regs, op.version, op.cred, ToSet(MyJournal.writes), Shown)'
  BY DEF SecretsAgree
<1>3. EntriesAgree(AtStep, Todo, Me, op.regs, op.version, op.cred, touched, Shown)'
  BY DEF EntriesAgree
<1>4. SkillAgrees(AtStep, Me, op.regs, op.kind, Shown)'
  BY DEF SkillAgrees
<1>5. QED
  BY <1>1, <1>2, <1>3, <1>4 DEF AtWorkAgrees, Table

\* Steps that write nothing and leave the table alone.
LEMMA SecretsQuiet ==
    ASSUME NEW n, NEW m, NEW u, NEW u2, NEW r, NEW v, NEW c, NEW c2, NEW ws, NEW d,
           SecretsAgree(n, u, r, v, c, ws, d), n # "refreshed",
           m \notin {"refreshSecret", "refreshed", "newEntry", "registered"}
    PROVE  SecretsAgree(m, u2, r, v, c2, ws, d)
BY DEF SecretsAgree

LEMMA EntriesQuiet ==
    ASSUME NEW n, NEW m, NEW u, NEW u2, NEW p, NEW r, NEW v, NEW c, NEW c2, NEW g, NEW d,
           EntriesAgree(n, u, p, r, v, c, g, d),
           m \notin {"refreshSecret", "refreshed", "registered"},
           n \in Halfway => m \in Halfway /\ u2 = u,
           m \in {"unlink", "dropLink"} => n \in {"unlink", "dropLink"}
                \/ <<p, u2>> \in g \/ d[Config(u2)].entry[p] = NoEntry
    PROVE  EntriesAgree(m, u2, p, r, v, c2, g, d)
<1>1. CASE n \in Halfway
  BY <1>1 DEF EntriesAgree, Halfway, AfterLink
<1>2. CASE n \notin Halfway
  BY <1>2 DEF EntriesAgree, Halfway, AfterLink
<1>3. QED
  BY <1>1, <1>2

LEMMA SkillQuiet ==
    ASSUME NEW n, NEW m, NEW p, NEW r, NEW k, NEW d, SkillAgrees(n, p, r, k, d), n # "skill"
    PROVE  SkillAgrees(m, p, r, k, d)
BY DEF SkillAgrees

\* Outside a write the files are what they show.
LEMMA ShownAtRest ==
    ASSUME op.phase # "apply"
    PROVE  AtStep = op.phase /\ \A f \in Files : Shown[f] = disk[f]
BY DEF AtStep, Shown

LEMMA ShownKept ==
    ASSUME op.phase # "apply", op'.phase # "apply", disk' = disk
    PROVE  Shown' = Shown /\ AtStep = op.phase /\ AtStep' = op'.phase
BY DEF Shown, AtStep

LEMMA ShownWritten ==
    ASSUME op.phase # "apply", op'.phase = "apply", disk' = disk, NEW f \in Files, op'.write.file = f
    PROVE  Shown' = [Shown EXCEPT ![f] = op'.write.after] /\ AtStep' = op'.then /\ AtStep = op.phase
BY DEF Shown, AtStep

LEMMA ShownMade ==
    ASSUME op.phase = "apply", op'.phase = op.then, op.then # "apply", DiskTypes,
           disk' = [disk EXCEPT ![op.write.file] = op.write.after]
    PROVE  Shown' = Shown /\ AtStep' = AtStep
BY DEF Shown, AtStep, DiskTypes

LEMMA AgreedParts ==
    ASSUME Agreed
    PROVE  Credited /\ Types /\ Parts /\ AtWorkRestores /\ AtWorkAgrees /\ Endings
BY DEF Agreed, OpParts, Credited

\* What is known while an operation works.
LEMMA AtWorkFacts ==
    ASSUME Agreed, op # Absent, op.phase \in Works, NEW p, p = Me
    PROVE  /\ p \in Products /\ Book(p) = MyJournal /\ ~Book(p).committed
           /\ op.found \in Tables \cup {Absent} /\ op.text \in [Targets -> Texts]
           /\ Sound(p, op.found) /\ Sound(p, op.regs) /\ Restores(p, op.found, op.text) /\ OwnSecrets(p)
           /\ Undoes(p) = op.writes
<1>1. p \in Products /\ Book(p) = MyJournal /\ PartsAgree(p)
  BY AgreedParts, OwnBook DEF Parts
<1>2. ~Book(p).committed /\ Sound(p, op.found) /\ Sound(p, op.regs)
  BY <1>1, AgreedParts DEF Credited, OpBooks, AtWork
<1>3. op.found \in Tables \cup {Absent} /\ op.text \in [Targets -> Texts]
  BY AgreedParts DEF Types, OpTypes
<1>4. Restores(p, op.found, op.text)
  BY AgreedParts DEF AtWorkRestores
<1>5. Undoes(p) = op.writes
  BY DEF Undoes, Works, OnTarget
<1>6. QED
  BY <1>1, <1>2, <1>3, <1>4, <1>5 DEF PartsAgree

\* A step of the work in which no file changes.
LEMMA WorkParts ==
    ASSUME Agreed, Types', op # Absent, op.phase \in Works, op' # Absent, op'.phase \in Works, NEW p, p = Me,
           op'.product = p, disk' = disk, touched' = touched,
           NEW m, m = op.found, NEW x, x = op.text, op'.found = m, op'.text = x,
           \A q \in Products \ {p} : Book(q)' = Book(q) /\ links'[q] = links[q],
           \A c \in Creds : conn[c] # "none" => label'[c] = label[c] /\ conn'[c] # "none",
           ~Book(p)'.committed, OwnSecrets(p)', Restores(p, m, x)'
    PROVE  Parts' /\ AtWorkRestores'
<1>1. p \in Products /\ m \in Tables \cup {Absent} /\ x \in [Targets -> Texts]
  BY AtWorkFacts
<1>2. ASSUME NEW q \in Products, q # p PROVE PartsAgree(q)'
  <2>1. Book(q)' = Book(q) /\ links'[q] = links[q]
    BY <1>2
  <2>2. Spared(q)
    BY <1>1, <1>2, <2>1, AgreedParts, OthersSpared
  <2>3. QED
    BY <1>2, <2>2, AgreedParts, PartsSpared DEF Parts
<1>3. PartsAgree(p)'
  <2>1. Restorable(p)'
    BY <1>1 DEF Restorable
  <2>2. QED
    BY <2>1 DEF PartsAgree
<1>4. Parts'
  BY <1>2, <1>3 DEF Parts
<1>5. AtWorkRestores'
  <2>1. Me' = p
    BY DEF Me
  <2>2. Restores(Me, op.found, op.text)'
    BY <2>1 DEF Restores
  <2>3. QED
    BY <2>2 DEF AtWorkRestores
<1>6. QED
  BY <1>4, <1>5

\* ... and nothing is written into the journal that an undoing of files goes by.
LEMMA QuietRestores ==
    ASSUME Agreed, op # Absent, op.phase \in Works, op' # Absent, op'.phase \in Works, NEW p, p = Me,
           op'.product = p, disk' = disk, touched' = touched, op'.writes = op.writes,
           Book(p)'.writes = Book(p).writes, LinksBack(p)' = LinksBack(p),
           \A c \in Creds : conn[c] # "none" => label'[c] = label[c] /\ conn'[c] # "none",
           NEW m, m = op.found, NEW x, x = op.text
    PROVE  OwnSecrets(p)' /\ Restores(p, m, x)'
<1>1. /\ p \in Products /\ m \in Tables \cup {Absent} /\ Restores(p, m, x) /\ Sound(p, m) /\ OwnSecrets(p)
      /\ Undoes(p) = op.writes
  BY AtWorkFacts
<1>2. Undoes(p)' = op.writes
  BY DEF Undoes, Me, Works, OnTarget
<1>3. Restores(p, m, x)'
  BY <1>1, <1>2, RestoresKept
<1>4. OwnSecrets(p)'
  BY <1>1 DEF OwnSecrets, MadeFor
<1>5. QED
  BY <1>3, <1>4

LEMMA BackWritten ==
    ASSUME NEW p, NEW f, NEW b, GoesBack(p, f, b), disk' = disk, NEW w,
           ToSet(Book(p)'.writes) \subseteq ToSet(Book(p).writes) \cup {w}, w.file = f => w.before = b,
           ToSet(Undoes(p)) \subseteq ToSet(Undoes(p)')
    PROVE  GoesBack(p, f, b)'
BY DEF GoesBack

\* A write goes into the journal before it is made.
LEMMA WriteRestores ==
    ASSUME Agreed, op # Absent, op.phase \in Works, op' # Absent, op'.phase \in Works, NEW p, p = Me,
           op'.product = p, disk' = disk, touched' = touched, op'.writes = op.writes, NEW w,
           ToSet(Book(p)'.writes) = ToSet(Book(p).writes) \cup {w}, LinksBack(p)' = LinksBack(p),
           label' = label, conn' = conn,
           \A c \in Creds : w.file = Secret(c) => MadeFor(p, c) /\ conn[c] # "none",
           NEW m, m = op.found, NEW x, x = op.text,
           w.file = Manifest(p) => w.before = m,
           \A s : w.file = Skill(p) /\ GoesBack(p, Skill(p), s) => w.before = s,
           \A t \in Targets : Table(m)[t] # NoEntry /\ w.file = Secret(Table(m)[t].cred)
              => w.before = <<Table(m)[t].version>>,
           \A t \in Targets : w.file = Config(t) => w.before = x[t]
    PROVE  OwnSecrets(p)' /\ Restores(p, m, x)'
<1>1. /\ p \in Products /\ m \in Tables \cup {Absent} /\ Restores(p, m, x) /\ Sound(p, m) /\ OwnSecrets(p)
      /\ Undoes(p) = op.writes
  BY AtWorkFacts
<1>2. Undoes(p)' = op.writes
  BY DEF Undoes, Me, Works, OnTarget
<1>3. GoesBack(p, Manifest(p), m)'
  BY <1>1, <1>2, BackWritten DEF Restores
<1>4. (\E s \in {Absent, <<"skill">>} :
          GoesBack(p, Skill(p), s) /\ (Registered(Table(m)) # {} => s # Absent))'
  <2>1. PICK s \in {Absent, <<"skill">>} :
            GoesBack(p, Skill(p), s) /\ (Registered(Table(m)) # {} => s # Absent)
    BY <1>1 DEF Restores
  <2>2. GoesBack(p, Skill(p), s)'
    BY <1>1, <1>2, <2>1, BackWritten
  <2>3. QED
    BY <2>1, <2>2
<1>5. ASSUME NEW t \in Targets
      PROVE  /\ (Table(m)[t] # NoEntry) <=> (t \in LinksBack(p)')
             /\ Table(m)[t] # NoEntry => GoesBack(p, Secret(Table(m)[t].cred), <<Table(m)[t].version>>)'
             /\ <<p, t>> \notin touched' => GoesBack(p, Config(t), x[t])' /\ x[t].entry[p] = Table(m)[t]
  <2>1. /\ (Table(m)[t] # NoEntry) <=> (t \in LinksBack(p))
        /\ Table(m)[t] # NoEntry => GoesBack(p, Secret(Table(m)[t].cred), <<Table(m)[t].version>>)
        /\ <<p, t>> \notin touched => GoesBack(p, Config(t), x[t]) /\ x[t].entry[p] = Table(m)[t]
    BY <1>1 DEF Restores
  <2>2. Table(m)[t] # NoEntry => GoesBack(p, Secret(Table(m)[t].cred), <<Table(m)[t].version>>)'
    BY <1>1, <1>2, <2>1, BackWritten
  <2>3. <<p, t>> \notin touched' => GoesBack(p, Config(t), x[t])'
    BY <1>1, <1>2, <2>1, BackWritten
  <2>4. QED
    BY <2>1, <2>2, <2>3
<1>6. Restores(p, m, x)'
  BY <1>3, <1>4, <1>5 DEF Restores
<1>7. OwnSecrets(p)'
  BY <1>1 DEF OwnSecrets, MadeFor
<1>8. QED
  BY <1>6, <1>7

LEMMA NotUndone == ASSUME op'.phase \in Works PROVE Endings'
BY DEF Endings, Works, OnTarget

\* A step of the work that writes no file and leaves the table of the operation as it is.
LEMMA QuietWorks ==
    ASSUME Agreed, Types', op # Absent, op.phase \in Works \ {"apply", "skill", "refreshed"},
           op' # Absent, op'.phase \in Works \ {"apply", "skill", "refreshSecret", "refreshed", "newEntry", "registered"},
           NEW p, p = Me, op'.product = p, disk' = disk, touched' = touched,
           op'.kind = op.kind, op'.version = op.version, op'.regs = op.regs, op'.found = op.found,
           op'.text = op.text, op'.writes = op.writes,
           \A q \in Products \ {p} : Book(q)' = Book(q) /\ links'[q] = links[q],
           NEW j, j = MyJournal', j = Book(p)', j.writes = MyJournal.writes, ~j.committed,
           \A c \in Creds : conn[c] # "none" => label'[c] = label[c] /\ conn'[c] # "none",
           (links'[p] \ j.linked) \cup j.removed = LinksBack(p),
           LinksAgree(op'.phase, Todo', op.regs, op.kind, links'[p], j, op'.linked, op'.removed),
           op.phase \in Halfway => op'.phase \in Halfway /\ Todo' = Todo,
           op'.phase \in {"unlink", "dropLink"} => op.phase \in {"unlink", "dropLink"}
                \/ <<p, Todo'>> \in touched \/ disk[Config(Todo')].entry[p] = NoEntry
    PROVE  Parts' /\ OpParts'
<1>1. PICK m, x : m = op.found /\ x = op.text
  OBVIOUS
<1>2. Book(p) = MyJournal /\ Book(p)'.writes = Book(p).writes /\ LinksBack(p)' = LinksBack(p)
  BY AtWorkFacts DEF LinksBack
<1>3. OwnSecrets(p)' /\ Restores(p, m, x)'
  BY <1>1, <1>2, QuietRestores
<1>4. Parts' /\ AtWorkRestores'
  BY <1>1, <1>3, WorkParts
<1>5. PICK n, u, r, k, v, d : n = op.phase /\ u = Todo /\ r = op.regs /\ k = op.kind /\ v = op.version /\ d = Shown
  OBVIOUS
<1>6. PICK s, u2, c : s = op'.phase /\ u2 = Todo' /\ c = op'.cred
  OBVIOUS
<1>7. Shown' = d /\ AtStep = n /\ AtStep' = s
  BY <1>5, <1>6, ShownKept
<1>8. /\ SecretsAgree(n, u, r, v, op.cred, ToSet(j.writes), d)
      /\ EntriesAgree(n, u, p, r, v, op.cred, touched, d) /\ SkillAgrees(n, p, r, k, d)
      /\ k = "uninstall" => \A t \in Targets : r[t] \in {NoEntry, Table(m)[t]}
  BY <1>1, <1>5, <1>7, AgreedParts DEF AtWorkAgrees
<1>9. SecretsAgree(s, u2, r, v, c, ToSet(j.writes), d)
  BY <1>5, <1>6, <1>8, SecretsQuiet
<1>10. EntriesAgree(s, u2, p, r, v, c, touched, d)
  <2>1. s \in {"unlink", "dropLink"} => n \in {"unlink", "dropLink"}
                \/ <<p, u2>> \in touched \/ d[Config(u2)].entry[p] = NoEntry
    <3>1. ASSUME s \in {"unlink", "dropLink"} PROVE d[Config(u2)] = disk[Config(u2)]
      <4>1. u2 \in Targets
        <5>1. op'.todo \in Seq(Targets) /\ op'.todo # <<>>
          BY <1>6, <3>1 DEF Types, OpTypes, OpKnows, IsOn, OnTarget
        <5>2. QED
          BY <1>6, <5>1 DEF Todo
      <4>2. QED
        BY <1>5, <4>1, ShownAtRest, FilesOf
    <3>2. QED
      BY <1>5, <1>6, <3>1
  <2>2. QED
    BY <1>5, <1>6, <1>8, <2>1, EntriesQuiet
<1>11. SkillAgrees(s, p, r, k, d)
  BY <1>5, <1>8, SkillQuiet
<1>12. AtWorkAgrees'
  <2>1. p = Me' /\ s = AtStep' /\ u2 = Todo' /\ r = op'.regs /\ k = op'.kind /\ v = op'.version /\ c = op'.cred /\ d = Shown'
    BY <1>5, <1>6, <1>7 DEF Me
  <2>2. PICK l : l = links'[p]
    OBVIOUS
  <2>3. LinksAgree(s, u2, r, k, l, j, op'.linked, op'.removed)
    BY <1>5, <1>6, <2>2
  <2>4. k = "uninstall" => \A t \in Targets : r[t] \in {NoEntry, Table(op'.found)[t]}
    BY <1>1, <1>8
  <2>5. touched' = touched /\ op'.phase # "skill"
    OBVIOUS
  <2>6. EntriesAgree(s, u2, p, r, v, c, touched', d)
    BY <1>10, <2>5
  <2>7. QED
    BY <1>9, <1>11, <2>1, <2>2, <2>3, <2>4, <2>5, <2>6, AgreesNext
<1>13. QED
  BY <1>4, <1>12, NotUndone DEF OpParts

LEMMA AgreesNow ==
    ASSUME Agreed, op # Absent, op.phase \in Works \ {"apply"}, NEW p, p = Me
    PROVE  /\ LinksAgree(op.phase, Todo, op.regs, op.kind, links[p], MyJournal, op.linked, op.removed)
           /\ SecretsAgree(op.phase, Todo, op.regs, op.version, op.cred, ToSet(MyJournal.writes), Shown)
           /\ EntriesAgree(op.phase, Todo, p, op.regs, op.version, op.cred, touched, Shown)
           /\ SkillAgrees(op.phase, p, op.regs, op.kind, Shown)
           /\ op.kind = "uninstall" => \A t \in Targets : op.regs[t] \in {NoEntry, Table(op.found)[t]}
           /\ LinksBack(p) = (links[p] \ MyJournal.linked) \cup MyJournal.removed
           /\ \A f \in Files : Shown[f] = disk[f]
<1>1. AtStep = op.phase /\ \A f \in Files : Shown[f] = disk[f]
  BY ShownAtRest
<1>2. LinksBack(p) = (links[p] \ MyJournal.linked) \cup MyJournal.removed
  BY AtWorkFacts DEF LinksBack
<1>3. QED
  BY <1>1, <1>2, AgreedParts DEF AtWorkAgrees

LEMMA NotedBook ==
    ASSUME Types, op # Absent, NEW j, Save(j), DOMAIN j = DOMAIN MyJournal, NEW p, p = Me, op'.product = p,
           links' = links \/ \E y : links' = [links EXCEPT ![p] = y]
    PROVE  /\ j = MyJournal' /\ j = Book(p)'
           /\ \A q \in Products \ {p} : Book(q)' = Book(q) /\ links'[q] = links[q]
<1>1. p \in Products /\ Book(p)' = j /\ \A q \in Products : q # p => Book(q)' = Book(q)
  BY SavedBook, OwnBook
<1>2. MyJournal' = Book(p)'
  BY DEF MyJournal, Book, Me
<1>3. \A q \in Products \ {p} : links'[q] = links[q]
  BY DEF Types, OtherTypes
<1>4. QED
  BY <1>1, <1>2, <1>3

LEMMA SameBooks ==
    ASSUME Types, op # Absent, journal' = journal, NEW p, p = Me, op'.product = p,
           links' = links \/ \E y : links' = [links EXCEPT ![p] = y]
    PROVE  /\ MyJournal' = MyJournal /\ MyJournal = Book(p)' /\ Book(p) = MyJournal
           /\ \A q \in Products \ {p} : Book(q)' = Book(q) /\ links'[q] = links[q]
<1>1. MyJournal' = MyJournal /\ MyJournal = Book(p)' /\ Book(p) = MyJournal
  BY DEF MyJournal, Book, Me
<1>2. \A q \in Products \ {p} : links'[q] = links[q]
  BY DEF Types, OtherTypes
<1>3. QED
  BY <1>1, <1>2 DEF Book

LEMMA LinkParts == ASSUME Agreed, Types', RecordLink \/ RecordUnlink PROVE Parts' /\ OpParts'
<1>1. PICK p, l, u, n, m : /\ p = Me /\ l = links[p] /\ u = Todo /\ n = op.phase
                           /\ m = (IF RecordLink THEN "makeLink" ELSE "dropLink")
  OBVIOUS
<1>2. PICK j : j = IF m = "makeLink" THEN [MyJournal EXCEPT !.linked = @ \cup {u}]
                                     ELSE [MyJournal EXCEPT !.removed = @ \cup {u}]
  OBVIOUS
<1>3. /\ Save(j) /\ Goto(m) /\ UNCHANGED <<disk, links, conn, label, notes, touched, spent>>
      /\ op # Absent /\ m \in {"makeLink", "dropLink"}
      /\ n = (IF m = "makeLink" THEN "link" ELSE "unlink")
      /\ m = "dropLink" => u \in l
  BY <1>1, <1>2 DEF RecordLink, RecordUnlink, Phase
<1>4. /\ op' # Absent /\ op'.phase = m /\ op'.product = p /\ Todo' = u
      /\ op'.kind = op.kind /\ op'.version = op.version /\ op'.regs = op.regs /\ op'.found = op.found
      /\ op'.text = op.text /\ op'.writes = op.writes /\ op'.linked = op.linked /\ op'.removed = op.removed
  <2>1. op' # Absent /\ op'.phase = m /\ op'.product = p
    BY <1>1, <1>3, GoneTo, AgreedParts DEF Me
  <2>2. QED
    BY <1>1, <1>3, <2>1, AgreedParts DEF Goto, Types, OpTypes, OpFields, Todo
<1>5. MyJournal \in Journals(p)
  BY <1>1, <1>3, MyJournalType, AgreedParts DEF Types
<1>6. /\ DOMAIN j = DOMAIN MyJournal /\ j.writes = MyJournal.writes /\ j.committed = MyJournal.committed
      /\ m = "makeLink" => j.linked = MyJournal.linked \cup {u} /\ j.removed = MyJournal.removed
      /\ m = "dropLink" => j.linked = MyJournal.linked /\ j.removed = MyJournal.removed \cup {u}
  BY <1>2, <1>3, <1>5 DEF Journals
<1>7. /\ j = MyJournal' /\ j = Book(p)'
      /\ \A q \in Products \ {p} : Book(q)' = Book(q) /\ links'[q] = links[q]
  BY <1>1, <1>3, <1>4, <1>6, NotedBook, AgreedParts
<1>8. op.phase \in Works \ {"apply", "skill", "refreshed"}
      /\ op'.phase \in Works \ {"apply", "skill", "refreshSecret", "refreshed", "newEntry", "registered"}
  BY <1>1, <1>3, <1>4 DEF Works, OnTarget
<1>9. /\ LinksAgree(n, u, op.regs, op.kind, l, MyJournal, op.linked, op.removed)
      /\ LinksBack(p) = (l \ MyJournal.linked) \cup MyJournal.removed /\ ~MyJournal.committed
  BY <1>1, <1>3, <1>8, AgreesNow, AtWorkFacts
<1>10. m = "dropLink" => op.kind = "uninstall"
  BY <1>1, <1>3, AgreedParts DEF Types, OpKnows, IsOn
<1>11. m \in OnTarget /\ n \in OnTarget /\ m \notin AfterLink
  BY <1>3 DEF OnTarget, AfterLink
<1>12. (l \ j.linked) \cup j.removed = LinksBack(p)
  BY <1>3, <1>6, <1>9, <1>10 DEF LinksAgree
<1>13. LinksAgree(m, u, op.regs, op.kind, l, j, op.linked, op.removed)
  <2>1. CASE m = "makeLink"
    BY <1>3, <1>6, <1>9, <1>11, <1>12, <2>1 DEF LinksAgree, AfterLink
  <2>2. CASE m = "dropLink"
    BY <1>3, <1>6, <1>9, <1>10, <1>11, <1>12, <2>2 DEF LinksAgree
  <2>3. QED
    BY <1>3, <2>1, <2>2
<1>14. op.phase \in Halfway => op'.phase \in Halfway /\ Todo' = Todo
  BY <1>1, <1>3, <1>4 DEF Halfway, AfterLink
<1>15. op'.phase \in {"unlink", "dropLink"} => op.phase \in {"unlink", "dropLink"}
  BY <1>1, <1>3, <1>4
<1>16. \A c \in Creds : conn[c] # "none" => label'[c] = label[c] /\ conn'[c] # "none"
  BY <1>3
<1>17. LinksAgree(op'.phase, Todo', op.regs, op.kind, links'[p], j, op'.linked, op'.removed)
       /\ (links'[p] \ j.linked) \cup j.removed = LinksBack(p)
  BY <1>1, <1>3, <1>4, <1>12, <1>13
<1>18. QED
  BY <1>1, <1>3, <1>4, <1>6, <1>7, <1>8, <1>9, <1>14, <1>15, <1>16, <1>17, QuietWorks

LEMMA LinkMadeParts == ASSUME Agreed, Types', MakeLink \/ DropLink PROVE Parts' /\ OpParts'
<1>1. PICK p, l, u, n, m, j : /\ p = Me /\ l = links[p] /\ u = Todo /\ n = op.phase /\ j = MyJournal
                              /\ m = (IF MakeLink THEN "entry" ELSE "unlink")
  OBVIOUS
<1>2. /\ UNCHANGED <<disk, conn, label, journal, notes, touched, spent>>
      /\ op # Absent /\ m \in {"entry", "unlink"}
      /\ n = (IF m = "entry" THEN "makeLink" ELSE "dropLink")
      /\ m = "entry" => /\ links' = [links EXCEPT ![p] = @ \cup {u}]
                        /\ op' = [op EXCEPT !.phase = "entry", !.linked = @ \cup {u}]
      /\ m = "unlink" => /\ links' = [links EXCEPT ![p] = @ \ {u}]
                         /\ op' = [op EXCEPT !.phase = "unlink", !.removed = @ \cup {u}]
  BY <1>1 DEF MakeLink, DropLink, Phase
<1>3. /\ op'.phase = m /\ op'.product = p /\ Todo' = u
      /\ op'.kind = op.kind /\ op'.version = op.version /\ op'.regs = op.regs /\ op'.found = op.found
      /\ op'.text = op.text /\ op'.writes = op.writes /\ DOMAIN op' = DOMAIN op
      /\ m = "entry" => op'.linked = op.linked \cup {u} /\ op'.removed = op.removed
      /\ m = "unlink" => op'.linked = op.linked /\ op'.removed = op.removed \cup {u}
  BY <1>1, <1>2, AgreedParts DEF Types, OpTypes, OpFields, Todo, Me
<1>4. op' # Absent
  BY <1>2, <1>3, OpIsThere, AgreedParts DEF Types
<1>5. op.phase \in Works \ {"apply", "skill", "refreshed"}
      /\ op'.phase \in Works \ {"apply", "skill", "refreshSecret", "refreshed", "newEntry", "registered"}
  BY <1>1, <1>2, <1>3 DEF Works, OnTarget
<1>6. links' = links \/ \E y : links' = [links EXCEPT ![p] = y]
  BY <1>2
<1>7. /\ j = MyJournal' /\ j = Book(p)'
      /\ \A q \in Products \ {p} : Book(q)' = Book(q) /\ links'[q] = links[q]
  BY <1>1, <1>2, <1>3, <1>6, SameBooks, AgreedParts
<1>8. /\ LinksAgree(n, u, op.regs, op.kind, l, j, op.linked, op.removed)
      /\ LinksBack(p) = (l \ j.linked) \cup j.removed /\ ~j.committed
  BY <1>1, <1>2, <1>5, AgreesNow, AtWorkFacts
<1>9. m = "unlink" => op.kind = "uninstall"
  BY <1>1, <1>2, AgreedParts DEF Types, OpKnows, IsOn
<1>10. n \in OnTarget /\ m \in OnTarget
  BY <1>2 DEF OnTarget
<1>11. p \in Products /\ links'[p] = (IF m = "entry" THEN l \cup {u} ELSE l \ {u})
  BY <1>1, <1>2, OwnBook, AgreedParts DEF Types, OtherTypes
<1>12. PICK l2, s, r : l2 = links'[p] /\ s = op'.linked /\ r = op'.removed
  OBVIOUS
<1>13. (l2 \ j.linked) \cup j.removed = LinksBack(p)
  BY <1>2, <1>8, <1>9, <1>11, <1>12 DEF LinksAgree
<1>14. LinksAgree(m, u, op.regs, op.kind, l2, j, s, r)
  <2>1. CASE m = "entry"
    BY <1>2, <1>3, <1>8, <1>10, <1>11, <1>12, <2>1 DEF LinksAgree, AfterLink
  <2>2. CASE m = "unlink"
    BY <1>2, <1>3, <1>8, <1>9, <1>10, <1>11, <1>12, <2>2 DEF LinksAgree, AfterLink
  <2>3. QED
    BY <1>2, <2>1, <2>2
<1>15. op.phase \in Halfway => op'.phase \in Halfway /\ Todo' = Todo
  BY <1>1, <1>2, <1>3 DEF Halfway, AfterLink
<1>16. op'.phase \in {"unlink", "dropLink"} => op.phase \in {"unlink", "dropLink"}
  BY <1>1, <1>2, <1>3
<1>17. \A c \in Creds : conn[c] # "none" => label'[c] = label[c] /\ conn'[c] # "none"
  BY <1>2
<1>18. LinksAgree(op'.phase, Todo', op.regs, op.kind, links'[p], j, op'.linked, op'.removed)
       /\ (links'[p] \ j.linked) \cup j.removed = LinksBack(p)
  BY <1>3, <1>12, <1>13, <1>14
<1>19. QED
  BY <1>1, <1>2, <1>3, <1>4, <1>5, <1>7, <1>8, <1>15, <1>16, <1>17, <1>18, QuietWorks

\* Steps in which the links, too, stay as they are.
LEMMA StillWorks ==
    ASSUME Agreed, Types', op # Absent, op.phase \in Works \ {"apply", "skill", "refreshed"},
           op' # Absent, op'.phase \in Works \ {"apply", "skill", "refreshSecret", "refreshed", "newEntry", "registered"},
           op'.product = op.product, disk' = disk, touched' = touched, links' = links,
           op'.kind = op.kind, op'.version = op.version, op'.regs = op.regs, op'.found = op.found,
           op'.text = op.text, op'.writes = op.writes, op'.linked = op.linked, op'.removed = op.removed,
           \/ journal' = journal
           \/ \E j : /\ Save(j) /\ DOMAIN j = DOMAIN MyJournal /\ j.writes = MyJournal.writes
                     /\ j.committed = MyJournal.committed /\ j.linked = MyJournal.linked
                     /\ j.removed = MyJournal.removed,
           \A c \in Creds : conn[c] # "none" => label'[c] = label[c] /\ conn'[c] # "none",
           NEW n, n = op.phase, NEW m, m = op'.phase, NEW u, u = Todo, NEW u2, u2 = Todo',
           m \notin {"makeLink", "dropLink"}, NEW l, l = links[Me],
           op.kind = "uninstall" => m \notin AfterLink \cup {"link"},
           m = "link" => u2 \notin l, m \in AfterLink => u2 \in l,
           n \in OnTarget => (m \in OnTarget /\ u2 = u) \/ ((op.regs[u] # NoEntry) <=> (u \in l)),
           n \in Halfway => m \in Halfway /\ u2 = u,
           m = "unlink" => <<Me, u2>> \in touched \/ disk[Config(u2)].entry[Me] = NoEntry
    PROVE  Parts' /\ OpParts'
<1>1. PICK p : p = Me
  OBVIOUS
<1>2. PICK j : j = MyJournal'
  OBVIOUS
<1>3. /\ j.writes = MyJournal.writes /\ j.committed = MyJournal.committed /\ j.linked = MyJournal.linked
      /\ j.removed = MyJournal.removed /\ j = Book(p)'
      /\ \A q \in Products \ {p} : Book(q)' = Book(q) /\ links'[q] = links[q]
  <2>1. CASE journal' = journal
    BY <1>1, <1>2, <2>1, SameBooks, AgreedParts DEF Me
  <2>3. QED
    BY <1>1, <1>2, <2>1, NotedBook, AgreedParts DEF Me
<1>4. /\ LinksAgree(n, u, op.regs, op.kind, l, MyJournal, op.linked, op.removed)
      /\ LinksBack(p) = (l \ MyJournal.linked) \cup MyJournal.removed /\ ~MyJournal.committed
  BY <1>1, AgreesNow, AtWorkFacts
<1>5. LinksAgree(m, u2, op.regs, op.kind, l, j, op.linked, op.removed)
  BY <1>3, <1>4 DEF LinksAgree
<1>6. (l \ j.linked) \cup j.removed = LinksBack(p)
  BY <1>3, <1>4
<1>7. /\ LinksAgree(op'.phase, Todo', op.regs, op.kind, links'[p], j, op'.linked, op'.removed)
      /\ (links'[p] \ j.linked) \cup j.removed = LinksBack(p)
  BY <1>1, <1>5, <1>6
<1>8. op'.product = p
  BY <1>1 DEF Me
<1>9. /\ op.phase \in Halfway => op'.phase \in Halfway /\ Todo' = Todo
      /\ op'.phase \in {"unlink", "dropLink"} => op.phase \in {"unlink", "dropLink"}
                \/ <<p, Todo'>> \in touched \/ disk[Config(Todo')].entry[p] = NoEntry
  BY <1>1
<1>10. QED
  BY <1>1, <1>2, <1>3, <1>4, <1>7, <1>8, <1>9, QuietWorks

LEMMA TargetParts == ASSUME Agreed, Types', Target PROVE Parts' /\ OpParts'
<1>1. /\ op # Absent /\ op.phase = "target" /\ UNCHANGED <<disk, links, conn, label, journal, notes, touched, spent>>
  BY DEF Target, Phase
<1>2. op.phase \in Works
  BY <1>1 DEF Works
<1>3. PICK p, r, u, l, x, k : /\ p = Me /\ r = op.regs /\ u = Todo /\ l = links[p] /\ x = op.text /\ k = op.kind
  OBVIOUS
<1>4. \/ op' = [op EXCEPT !.phase = "manifest"]
      \/ k # "uninstall" /\ op.todo # <<>> /\ u \in l /\ op' = [op EXCEPT !.phase = "entry"]
      \/ k # "uninstall" /\ op.todo # <<>> /\ u \notin l /\ op' = [op EXCEPT !.phase = "link"]
      \/ op' = [op EXCEPT !.todo = Tail(@)]
      \/ op' = [op EXCEPT !.phase = "removeEntry"]
      \/ /\ op.todo # <<>> /\ k = "uninstall" /\ r[u] # NoEntry /\ x[u].entry[p] # r[u]
         /\ op' = [op EXCEPT !.phase = "unlink"]
  BY <1>3 DEF Target, Goto, Previous
<1>5. /\ DOMAIN op' = DOMAIN op /\ op'.product = op.product
      /\ op'.kind = op.kind /\ op'.version = op.version /\ op'.regs = op.regs /\ op'.found = op.found
      /\ op'.text = op.text /\ op'.writes = op.writes /\ op'.linked = op.linked /\ op'.removed = op.removed
      /\ \/ op'.phase = "manifest" \/ op'.phase = "target"
         \/ k # "uninstall" /\ op.todo # <<>> /\ u \in l /\ op'.phase = "entry" /\ op'.todo = op.todo
         \/ k # "uninstall" /\ op.todo # <<>> /\ u \notin l /\ op'.phase = "link" /\ op'.todo = op.todo
         \/ op'.phase = "removeEntry"
         \/ /\ op.todo # <<>> /\ k = "uninstall" /\ r[u] # NoEntry /\ x[u].entry[p] # r[u]
            /\ op'.phase = "unlink" /\ op'.todo = op.todo
  BY <1>1, <1>4, AgreedParts DEF Types, OpTypes, OpFields
<1>6. op' # Absent
  BY <1>1, <1>5, OpIsThere, AgreedParts DEF Types
<1>7. PICK m, u2 : m = op'.phase /\ u2 = Todo'
  OBVIOUS
<1>8. op.phase \in Works \ {"apply", "skill", "refreshed"}
      /\ op'.phase \in Works \ {"apply", "skill", "refreshSecret", "refreshed", "newEntry", "registered"}
  BY <1>1, <1>5 DEF Works, OnTarget
<1>9. m = "unlink" => <<p, u2>> \in touched \/ disk[Config(u2)].entry[p] = NoEntry
  <2> SUFFICES ASSUME m = "unlink", <<p, u2>> \notin touched PROVE FALSE
    OBVIOUS
  <2>1. op.todo # <<>> /\ k = "uninstall" /\ r[u] # NoEntry /\ x[u].entry[p] # r[u] /\ u2 = u
    BY <1>5, <1>7, <1>3 DEF Todo
  <2>2. u \in Targets
    <3>1. op.todo \in Seq(Targets)
      BY <1>1, AgreedParts DEF Types, OpTypes
    <3>2. QED
      BY <1>3, <2>1, <3>1 DEF Todo
  <2>3. PICK f : f = op.found
    OBVIOUS
  <2>4. Restores(p, f, x)
    BY <1>1, <1>2, <1>3, <2>3, AtWorkFacts
  <2>5. r[u] \in {NoEntry, Table(f)[u]}
    BY <1>1, <1>2, <1>3, <2>1, <2>2, <2>3, AgreesNow
  <2>6. x[u].entry[p] = Table(f)[u]
    BY <2>1, <2>2, <2>4 DEF Restores
  <2>7. QED
    BY <2>1, <2>5, <2>6
<1>10. /\ k = "uninstall" => m \notin AfterLink \cup {"link"}
       /\ m = "link" => u2 \notin l
       /\ m \in AfterLink => u2 \in l
       /\ m \notin {"makeLink", "dropLink"}
  BY <1>3, <1>5, <1>7 DEF AfterLink, Todo
<1>11. "target" \notin OnTarget /\ "target" \notin Halfway
  BY DEF OnTarget, Halfway, AfterLink
<1>12. UNCHANGED <<disk, touched, links, conn, label, journal>>
  BY <1>1
<1>13. \A c \in Creds : conn[c] # "none" => label'[c] = label[c] /\ conn'[c] # "none"
  BY <1>12
<1>14. PICK n : n = op.phase
  OBVIOUS
<1>15. n \notin OnTarget /\ n \notin Halfway
  BY <1>1, <1>11, <1>14
<1>16. QED
  BY <1>1, <1>3, <1>5, <1>6, <1>7, <1>8, <1>9, <1>10, <1>12, <1>13, <1>14, <1>15, StillWorks

\* An entry that is there with its credential and its version is skipped.
LEMMA SkipParts ==
    ASSUME Agreed, Types', Refresh, Previous.version = op.version PROVE Parts' /\ OpParts'
<1>1. /\ op # Absent /\ op.phase = "entry" /\ Todo \in op.kept
      /\ op' = [op EXCEPT !.todo = Tail(@), !.phase = "target"]
      /\ UNCHANGED <<disk, links, conn, label, journal, notes, touched, spent>>
  BY DEF Refresh, Phase
<1>2. op.phase \in Works \ {"apply", "skill", "refreshed"}
  BY <1>1 DEF Works, OnTarget
<1>3. /\ DOMAIN op' = DOMAIN op /\ op'.product = op.product /\ op'.phase = "target"
      /\ op'.kind = op.kind /\ op'.version = op.version /\ op'.regs = op.regs /\ op'.found = op.found
      /\ op'.text = op.text /\ op'.writes = op.writes /\ op'.linked = op.linked /\ op'.removed = op.removed
  BY <1>1, AgreedParts DEF Types, OpTypes, OpFields
<1>4. op' # Absent
  BY <1>1, <1>3, OpIsThere, AgreedParts DEF Types
<1>5. PICK p, r, u, l, k, u2 : /\ p = Me /\ r = op.regs /\ u = Todo /\ l = links[p] /\ k = op.kind /\ u2 = Todo'
  OBVIOUS
<1>6. r[u] # NoEntry
  BY <1>1, <1>5, AgreedParts DEF Types, OpKnows
<1>7. u \in l
  <2>1. LinksAgree(op.phase, Todo, op.regs, op.kind, links[p], MyJournal, op.linked, op.removed)
    BY <1>1, <1>2, <1>5, AgreesNow
  <2>2. QED
    BY <1>1, <1>5, <2>1 DEF LinksAgree, AfterLink
<1>8. op'.phase \in Works \ {"apply", "skill", "refreshSecret", "refreshed", "newEntry", "registered"}
  BY <1>3 DEF Works
<1>9. \A c \in Creds : conn[c] # "none" => label'[c] = label[c] /\ conn'[c] # "none"
  BY <1>1
<1>10. "target" \notin AfterLink /\ "entry" \notin Halfway
  BY DEF AfterLink, Halfway
<1>11. PICK n, m : n = op.phase /\ m = op'.phase
  OBVIOUS
<1>12. /\ m \notin {"makeLink", "dropLink"} /\ k = "uninstall" => m \notin AfterLink \cup {"link"}
       /\ m # "link" /\ m \notin AfterLink /\ m # "unlink" /\ n \notin Halfway
  BY <1>1, <1>3, <1>10, <1>11
<1>13. (op.regs[u] # NoEntry) <=> (u \in l)
  BY <1>5, <1>6, <1>7
<1>14. UNCHANGED <<disk, touched, links, journal>>
  BY <1>1
<1>15. QED
  BY <1>1, <1>2, <1>3, <1>4, <1>5, <1>8, <1>9, <1>11, <1>12, <1>13, <1>14, StillWorks

LEMMA IssueParts ==
    ASSUME Agreed, Types', RecordIssuing \/ Create \/ RecordIssued PROVE Parts' /\ OpParts'
<1>1. PICK p, u, l, n, m, u2 : /\ p = Me /\ u = Todo /\ l = links[p] /\ n = op.phase /\ m = op'.phase
                               /\ u2 = Todo'
  OBVIOUS
<1>2. op # Absent /\ n \in {"entry", "create", "issue"} /\ UNCHANGED <<disk, links, notes, touched, spent>>
  BY <1>1 DEF RecordIssuing, Create, RecordIssued, Phase
<1>3. \/ op' = [op EXCEPT !.phase = "create"] \/ op' = [op EXCEPT !.phase = "secret"]
      \/ \E c \in Creds : op' = [op EXCEPT !.phase = "issue", !.cred = c, !.issued = @ \cup {c}]
  BY DEF RecordIssuing, Create, RecordIssued, Goto
<1>4. /\ DOMAIN op' = DOMAIN op /\ op'.product = op.product /\ m \in {"create", "issue", "secret"}
      /\ op'.kind = op.kind /\ op'.version = op.version /\ op'.regs = op.regs /\ op'.found = op.found
      /\ op'.text = op.text /\ op'.writes = op.writes /\ op'.linked = op.linked /\ op'.removed = op.removed
      /\ op'.todo = op.todo
  BY <1>1, <1>2, <1>3, AgreedParts DEF Types, OpTypes, OpFields
<1>5. op' # Absent /\ u2 = u
  BY <1>1, <1>2, <1>4, OpIsThere, AgreedParts DEF Types, Todo
<1>6. op.phase \in Works \ {"apply", "skill", "refreshed"}
      /\ op'.phase \in Works \ {"apply", "skill", "refreshSecret", "refreshed", "newEntry", "registered"}
  BY <1>1, <1>2, <1>4 DEF Works, OnTarget
<1>7. /\ n \in AfterLink /\ n \in OnTarget /\ m \in AfterLink /\ m \in OnTarget /\ m \in Halfway
      /\ m \notin {"link", "makeLink", "dropLink", "unlink"}
  BY <1>2, <1>4 DEF AfterLink, OnTarget, Halfway
<1>8. LinksAgree(n, u, op.regs, op.kind, l, MyJournal, op.linked, op.removed)
  BY <1>1, <1>2, <1>6, AgreesNow
<1>9. u \in l /\ op.kind # "uninstall"
  BY <1>7, <1>8 DEF LinksAgree
<1>10. \/ journal' = journal
       \/ \E j : /\ Save(j) /\ DOMAIN j = DOMAIN MyJournal /\ j.writes = MyJournal.writes
                 /\ j.committed = MyJournal.committed /\ j.linked = MyJournal.linked
                 /\ j.removed = MyJournal.removed
  <2>1. CASE Create
    BY <2>1 DEF Create
  <2>2. MyJournal \in Journals(Me)
    BY <1>2, MyJournalType, AgreedParts DEF Types
  <2>3. CASE RecordIssuing
    <3>1. PICK j : j = [MyJournal EXCEPT !.issuing = @ \cup {Todo}]
      OBVIOUS
    <3>2. Save(j)
      BY <2>3, <3>1 DEF RecordIssuing
    <3>3. /\ DOMAIN j = DOMAIN MyJournal /\ j.writes = MyJournal.writes
          /\ j.committed = MyJournal.committed /\ j.linked = MyJournal.linked
          /\ j.removed = MyJournal.removed
      BY <2>2, <3>1 DEF Journals
    <3>4. QED
      BY <3>2, <3>3
  <2>4. CASE RecordIssued
    <3>1. PICK j : j = [MyJournal EXCEPT !.issuing = @ \ {Todo}, !.issued = @ \cup {op.cred}]
      OBVIOUS
    <3>2. Save(j)
      BY <2>4, <3>1 DEF RecordIssued
    <3>3. /\ DOMAIN j = DOMAIN MyJournal /\ j.writes = MyJournal.writes
          /\ j.committed = MyJournal.committed /\ j.linked = MyJournal.linked
          /\ j.removed = MyJournal.removed
      BY <2>2, <3>1 DEF Journals
    <3>4. QED
      BY <3>2, <3>3
  <2>5. QED
    BY <2>1, <2>3, <2>4
<1>11. \A c \in Creds : conn[c] # "none" => label'[c] = label[c] /\ conn'[c] # "none"
  <2>1. CASE RecordIssuing \/ RecordIssued
    BY <2>1 DEF RecordIssuing, RecordIssued
  <2>2. CASE Create
    <3>1. PICK c \in Creds : /\ conn[c] = "none" /\ conn' = [conn EXCEPT ![c] = "live"]
                             /\ label' = [label EXCEPT ![c] = <<Me, Todo>>]
      BY <2>2 DEF Create
    <3>2. QED
      BY <3>1, AgreedParts DEF Types, OtherTypes
  <2>3. QED
    BY <2>1, <2>2
<1>12. disk' = disk /\ touched' = touched /\ links' = links /\ l = links[Me]
  BY <1>1, <1>2
<1>13. /\ m \notin {"makeLink", "dropLink"}
       /\ op.kind = "uninstall" => m \notin AfterLink \cup {"link"}
       /\ m = "link" => u2 \notin l
       /\ m \in AfterLink => u2 \in l
       /\ n \in OnTarget => (m \in OnTarget /\ u2 = u) \/ ((op.regs[u] # NoEntry) <=> (u \in l))
       /\ n \in Halfway => m \in Halfway /\ u2 = u
       /\ m = "unlink" => <<Me, u2>> \in touched \/ disk[Config(u2)].entry[Me] = NoEntry
  BY <1>5, <1>7, <1>9
<1>14. QED
  BY <1>1, <1>2, <1>4, <1>5, <1>6, <1>10, <1>11, <1>12, <1>13, StillWorks

\* What write() leaves.
LEMMA WriteFacts ==
    ASSUME Types, Types', op # Absent, NEW f, NEW before, NEW after, NEW then, Write(f, before, after, then),
           NEW p, p = Me, links' = links, NEW w, w = [file |-> f, before |-> before, after |-> after]
    PROVE  /\ op' # Absent /\ op'.phase = "apply" /\ op'.then = then /\ op'.write = w /\ op'.product = p
           /\ op'.todo = op.todo /\ op'.cred = op.cred /\ op'.kind = op.kind /\ op'.version = op.version
           /\ op'.regs = op.regs /\ op'.found = op.found /\ op'.text = op.text /\ op'.writes = op.writes
           /\ op'.linked = op.linked /\ op'.removed = op.removed /\ Todo' = Todo
           /\ MyJournal' = Book(p)' /\ ToSet(MyJournal'.writes) = ToSet(MyJournal.writes) \cup {w}
           /\ MyJournal'.committed = MyJournal.committed /\ MyJournal'.linked = MyJournal.linked
           /\ MyJournal'.removed = MyJournal.removed
           /\ \A q \in Products \ {p} : Book(q)' = Book(q) /\ links'[q] = links[q]
<1>1. PICK j : j = [MyJournal EXCEPT !.writes = Append(@, w)]
  OBVIOUS
<1>2. op' = [op EXCEPT !.phase = "apply", !.then = then, !.write = w] /\ Save(j)
  BY <1>1 DEF Write
<1>3. /\ DOMAIN op' = DOMAIN op /\ op'.phase = "apply" /\ op'.then = then /\ op'.write = w /\ op'.product = op.product
      /\ op'.todo = op.todo /\ op'.cred = op.cred /\ op'.kind = op.kind /\ op'.version = op.version
      /\ op'.regs = op.regs /\ op'.found = op.found /\ op'.text = op.text /\ op'.writes = op.writes
      /\ op'.linked = op.linked /\ op'.removed = op.removed
  BY <1>2 DEF Types, OpTypes, OpFields
<1>4. op' # Absent /\ op'.product = p /\ Todo' = Todo /\ Me' = p
  BY <1>3, OpIsThere DEF Types, Todo, Me
<1>5. w \in Writings(p)
  BY <1>3, <1>4 DEF Types, OpKnows
<1>6. MyJournal \in Journals(p)
  BY MyJournalType DEF Types
<1>7. /\ DOMAIN j = DOMAIN MyJournal /\ j.writes = Append(MyJournal.writes, w)
      /\ j.linked = MyJournal.linked /\ j.removed = MyJournal.removed /\ j.committed = MyJournal.committed
      /\ MyJournal.writes \in Seq(Writings(p))
  BY <1>1, <1>6 DEF Journals
<1>8. ToSet(j.writes) = ToSet(MyJournal.writes) \cup {w}
  BY <1>5, <1>7, AppendTo
<1>9. j = MyJournal' /\ j = Book(p)' /\ \A q \in Products \ {p} : Book(q)' = Book(q) /\ links'[q] = links[q]
  BY <1>2, <1>4, <1>7, NotedBook
<1>10. QED
  BY <1>3, <1>4, <1>7, <1>8, <1>9

\* A write of the work that an undoing can take back, and what the files show after it (d).
WriteFits(n, f, before, after, then, p, m, x, d, u, r, k, v, c) ==
    /\ n = op.phase /\ p = Me /\ m = op.found /\ x = op.text /\ u = Todo /\ r = op.regs /\ k = op.kind
    /\ v = op.version /\ c = op.cred /\ f \in Files /\ d = [Shown EXCEPT ![f] = after]
    /\ n \in Works \ {"apply"} /\ then \in Works \ {"skill", "apply"}
    /\ Write(f, before, after, then)
    /\ \A e \in Creds : f = Secret(e) => MadeFor(p, e) /\ conn[e] # "none"
    /\ f = Manifest(p) => before = m
    /\ \A s : f = Skill(p) /\ GoesBack(p, Skill(p), s) => before = s
    /\ \A t \in Targets : Table(m)[t] # NoEntry /\ f = Secret(Table(m)[t].cred) => before = <<Table(m)[t].version>>
    /\ \A t \in Targets : f = Config(t) => before = x[t]
    /\ LinksAgree(then, u, r, k, links[p], MyJournal, op.linked, op.removed)
    /\ SecretsAgree(then, u, r, v, c, ToSet(MyJournal.writes) \cup {[file |-> f, before |-> before, after |-> after]}, d)
    /\ EntriesAgree(then, u, p, r, v, c, touched, d) /\ SkillAgrees(then, p, r, k, d)

LEMMA WrittenParts ==
    ASSUME Agreed, Types', op # Absent, UNCHANGED <<disk, links, conn, label, notes, touched, spent>>,
           NEW n, NEW f, NEW before, NEW after, NEW then, NEW p, NEW m, NEW x, NEW d, NEW u, NEW r, NEW k, NEW v, NEW c,
           WriteFits(n, f, before, after, then, p, m, x, d, u, r, k, v, c)
    PROVE  Parts' /\ OpParts'
<1>0. /\ n = op.phase /\ p = Me /\ m = op.found /\ x = op.text /\ u = Todo /\ r = op.regs /\ k = op.kind
      /\ v = op.version /\ c = op.cred /\ f \in Files /\ d = [Shown EXCEPT ![f] = after]
      /\ n \in Works \ {"apply"} /\ then \in Works \ {"skill", "apply"}
      /\ Write(f, before, after, then)
      /\ \A e \in Creds : f = Secret(e) => MadeFor(p, e) /\ conn[e] # "none"
      /\ f = Manifest(p) => before = m
      /\ \A s : f = Skill(p) /\ GoesBack(p, Skill(p), s) => before = s
      /\ \A t \in Targets : Table(m)[t] # NoEntry /\ f = Secret(Table(m)[t].cred) => before = <<Table(m)[t].version>>
      /\ \A t \in Targets : f = Config(t) => before = x[t]
      /\ LinksAgree(then, u, r, k, links[p], MyJournal, op.linked, op.removed)
      /\ SecretsAgree(then, u, r, v, c, ToSet(MyJournal.writes) \cup {[file |-> f, before |-> before, after |-> after]}, d)
      /\ EntriesAgree(then, u, p, r, v, c, touched, d) /\ SkillAgrees(then, p, r, k, d)
  BY DEF WriteFits
<1>1. PICK w : w = [file |-> f, before |-> before, after |-> after]
  OBVIOUS
<1>2. /\ op' # Absent /\ op'.phase = "apply" /\ op'.then = then /\ op'.write = w /\ op'.product = p
      /\ op'.cred = op.cred /\ op'.kind = op.kind /\ op'.version = op.version
      /\ op'.regs = op.regs /\ op'.found = op.found /\ op'.text = op.text /\ op'.writes = op.writes
      /\ op'.linked = op.linked /\ op'.removed = op.removed /\ Todo' = Todo
      /\ MyJournal' = Book(p)' /\ ToSet(MyJournal'.writes) = ToSet(MyJournal.writes) \cup {w}
      /\ MyJournal'.committed = MyJournal.committed /\ MyJournal'.linked = MyJournal.linked
      /\ MyJournal'.removed = MyJournal.removed
      /\ \A q \in Products \ {p} : Book(q)' = Book(q) /\ links'[q] = links[q]
  BY <1>0, <1>1, WriteFacts, AgreedParts
<1>3. w.file = f /\ w.before = before /\ w.after = after
  BY <1>1
<1>4. /\ disk' = disk /\ touched' = touched /\ links' = links /\ conn' = conn /\ label' = label
      /\ op.phase \in Works /\ op'.phase \in Works
  BY <1>0, <1>2 DEF Works
<1>5. p \in Products /\ Book(p) = MyJournal /\ ~MyJournal.committed
  BY <1>0, <1>4, AtWorkFacts
<1>6. LinksBack(p)' = LinksBack(p) /\ ToSet(Book(p)'.writes) = ToSet(Book(p).writes) \cup {w}
  BY <1>2, <1>4, <1>5 DEF LinksBack
<1>7. OwnSecrets(p)' /\ Restores(p, m, x)'
  BY <1>0, <1>2, <1>3, <1>4, <1>6, WriteRestores
<1>8. ~Book(p)'.committed
  BY <1>2, <1>5
<1>9. Parts' /\ AtWorkRestores'
  BY <1>0, <1>2, <1>4, <1>7, <1>8, WorkParts
<1>10. d = Shown' /\ then = AtStep'
  BY <1>0, <1>2, <1>3, <1>4, ShownWritten
<1>11. PICK j, l : j = MyJournal' /\ l = links'[p]
  OBVIOUS
<1>12. /\ LinksAgree(then, u, r, k, l, j, op'.linked, op'.removed)
       /\ SecretsAgree(then, u, r, v, c, ToSet(j.writes), d)
       /\ EntriesAgree(then, u, p, r, v, c, touched', d) /\ SkillAgrees(then, p, r, k, d)
  BY <1>0, <1>1, <1>2, <1>4, <1>11 DEF LinksAgree
<1>13. k = "uninstall" => \A t \in Targets : r[t] \in {NoEntry, Table(op'.found)[t]}
  BY <1>0, <1>2, <1>4, AgreedParts DEF AtWorkAgrees
<1>14. /\ p = Me' /\ u = Todo' /\ r = op'.regs /\ k = op'.kind /\ v = op'.version /\ c = op'.cred
       /\ op'.phase # "skill"
  BY <1>0, <1>2 DEF Me
<1>15. AtWorkAgrees'
  BY <1>10, <1>11, <1>12, <1>13, <1>14, AgreesNext
<1>16. QED
  BY <1>4, <1>9, <1>15, NotUndone DEF OpParts

\* What a write shows of the files it does not go to.
LEMMA LinksOn ==
    ASSUME NEW n, NEW m, NEW u, NEW r, NEW k, NEW l, NEW j, NEW a, NEW b, LinksAgree(n, u, r, k, l, j, a, b),
           n \in OnTarget => m \in OnTarget, m \in AfterLink => n \in AfterLink,
           m \notin {"link", "makeLink", "dropLink"}
    PROVE  LinksAgree(m, u, r, k, l, j, a, b)
BY DEF LinksAgree

LEMMA SecretsElsewhere ==
    ASSUME NEW n, NEW m, NEW u, NEW r, NEW v, NEW c, NEW ws, NEW d, SecretsAgree(n, u, r, v, c, ws, d),
           n # "refreshed", m # "refreshed", DOMAIN d = Files, \A t \in Targets : r[t] # NoEntry => r[t].cred \in Creds,
           m \in {"newEntry", "registered"} => n = "newEntry" /\ c \in Creds,
           m = "refreshSecret" => r[u].version # v,
           NEW f, \A e \in Creds : f # Secret(e), NEW after, NEW w, w.file = f
    PROVE  SecretsAgree(m, u, r, v, c, ws \cup {w}, [d EXCEPT ![f] = after])
<1>1. PICK d2 : d2 = [d EXCEPT ![f] = after]
  OBVIOUS
<1>2. \A e \in Creds : d2[Secret(e)] = d[Secret(e)]
  BY <1>1, FilesOf
<1>3. \A t \in Targets : r[t] # NoEntry => d2[Secret(r[t].cred)] = <<r[t].version>>
  BY <1>2 DEF SecretsAgree
<1>4. m \in {"newEntry", "registered"} => d2[Secret(c)] = <<v>>
  BY <1>2 DEF SecretsAgree
<1>5. \A y \in ws \cup {w}, e \in Creds : y.file = Secret(e) => d2[Secret(e)] = <<v>>
  BY <1>2 DEF SecretsAgree
<1>6. SecretsAgree(m, u, r, v, c, ws \cup {w}, d2)
  BY <1>3, <1>4, <1>5 DEF SecretsAgree
<1>7. QED
  BY <1>1, <1>6

LEMMA EntriesElsewhere ==
    ASSUME NEW n, NEW m, NEW u, NEW p, NEW r, NEW v, NEW c, NEW g, NEW d, EntriesAgree(n, u, p, r, v, c, g, d),
           DOMAIN d = Files, n \in Halfway => m \in Halfway, m \in Halfway => u \in Targets,
           m \in {"refreshSecret", "refreshed"} => n \in {"refreshSecret", "refreshed"},
           m \notin {"registered", "unlink", "dropLink"},
           NEW f, \A t \in Targets : f # Config(t), NEW after
    PROVE  EntriesAgree(m, u, p, r, v, c, g, [d EXCEPT ![f] = after])
<1>1. PICK d2 : d2 = [d EXCEPT ![f] = after]
  OBVIOUS
<1>2. \A t \in Targets : d2[Config(t)] = d[Config(t)]
  BY <1>1, FilesOf
<1>3. \A t \in Targets : (m \in Halfway /\ t = u) \/ <<p, t>> \in g \/ d2[Config(t)].entry[p] = r[t]
  BY <1>2 DEF EntriesAgree
<1>4. m \in {"refreshSecret", "refreshed"} /\ <<p, u>> \notin g => d2[Config(u)].entry[p] = Entry(r[u].cred, v)
  <2>1. {"refreshSecret", "refreshed"} \subseteq Halfway
    BY DEF Halfway, AfterLink
  <2>2. QED
    BY <1>2, <2>1 DEF EntriesAgree
<1>5. EntriesAgree(m, u, p, r, v, c, g, d2)
  BY <1>3, <1>4 DEF EntriesAgree
<1>6. QED
  BY <1>1, <1>5

LEMMA EntryShown ==
    ASSUME NEW n, NEW m, NEW u \in Targets, NEW p, NEW r, NEW v, NEW c, NEW g, NEW d, EntriesAgree(n, u, p, r, v, c, g, d),
           DOMAIN d = Files, m \in Halfway, NEW after,
           m \in {"refreshSecret", "refreshed"} => after.entry[p] = Entry(r[u].cred, v),
           m = "registered" => after.entry[p] = Entry(c, v),
           m \in {"unlink", "dropLink"} => after.entry[p] = NoEntry
    PROVE  EntriesAgree(m, u, p, r, v, c, g, [d EXCEPT ![Config(u)] = after])
<1>1. PICK d2 : d2 = [d EXCEPT ![Config(u)] = after]
  OBVIOUS
<1>2. d2[Config(u)] = after /\ \A t \in Targets \ {u} : d2[Config(t)] = d[Config(t)]
  BY <1>1, FilesOf, FilesDiffer
<1>3. \A t \in Targets : t = u \/ <<p, t>> \in g \/ d2[Config(t)].entry[p] = r[t]
  BY <1>2 DEF EntriesAgree
<1>4. EntriesAgree(m, u, p, r, v, c, g, d2)
  BY <1>2, <1>3 DEF EntriesAgree
<1>5. QED
  BY <1>1, <1>4

LEMMA SkillElsewhere ==
    ASSUME NEW n, NEW m, NEW p \in Products, NEW r, NEW k, NEW d, SkillAgrees(n, p, r, k, d), n # "skill", DOMAIN d = Files,
           NEW f, f # Skill(p), NEW after
    PROVE  SkillAgrees(m, p, r, k, [d EXCEPT ![f] = after])
BY FilesOf DEF SkillAgrees

LEMMA TableCredsKnown ==
    ASSUME Types, NEW r, r \in Tables, NEW t \in Targets, r[t] # NoEntry PROVE r[t].cred \in Creds /\ r[t].version \in Nat
BY DEF Tables, Registrations

LEMMA ShownFiles == ASSUME TRUE PROVE DOMAIN Shown = Files
BY DEF Shown

LEMMA SkillWrittenParts == ASSUME Agreed, Types', WriteSkill PROVE Parts' /\ OpParts'
<1>1. PICK p, n, u, r, k, v, c, d, f, a : /\ p = Me /\ n = op.phase /\ u = Todo /\ r = op.regs /\ k = op.kind
         /\ v = op.version /\ c = op.cred /\ f = Skill(p) /\ a = <<"skill">> /\ d = [Shown EXCEPT ![f] = a]
  OBVIOUS
<1>2. /\ op # Absent /\ n = "skill" /\ Write(f, disk[f], a, "target")
      /\ UNCHANGED <<disk, links, conn, label, notes, touched, spent>>
  BY <1>1 DEF WriteSkill, Phase
<1>3. op.phase \in Works \ {"apply"} /\ "target" \in Works \ {"skill", "apply"} /\ "target" \notin OnTarget
      /\ "skill" \notin OnTarget /\ "target" \notin AfterLink /\ "target" \notin Halfway /\ "skill" \notin Halfway
  BY <1>1, <1>2 DEF Works, OnTarget, AfterLink, Halfway
<1>4. p \in Products /\ f \in Files /\ Book(p) = MyJournal
  BY <1>1, <1>2, <1>3, AtWorkFacts, FilesOf
<1>5. /\ \A e \in Creds : f # Secret(e)
      /\ \A t \in Targets : f # Config(t)
      /\ f # Manifest(p)
  BY <1>1, FilesDiffer
<1>6. \A s : GoesBack(p, f, s) => disk[f] = s
  <2>1. journal[p] = Absent
    BY <1>1, <1>2, <1>3, AgreedParts DEF AtWorkAgrees
  <2>2. Book(p) = EmptyJournal
    BY <2>1 DEF Book
  <2>3. ToSet(Undoes(p)) = {}
    BY <1>4, <2>2, NothingWritten, AgreedParts
  <2>4. QED
    BY <2>3 DEF GoesBack
<1>7. /\ LinksAgree(n, u, r, k, links[p], MyJournal, op.linked, op.removed)
      /\ SecretsAgree(n, u, r, v, c, ToSet(MyJournal.writes), Shown)
      /\ EntriesAgree(n, u, p, r, v, c, touched, Shown)
  BY <1>1, <1>2, <1>3, AgreesNow
<1>8. PICK w : w = [file |-> f, before |-> disk[f], after |-> a]
  OBVIOUS
<1>9. r \in Tables
  BY <1>1, <1>2, AgreedParts DEF Types, OpTypes
<1>10. SecretsAgree("target", u, r, v, c, ToSet(MyJournal.writes) \cup {w}, d)
  <2>1. w.file = f /\ \A t \in Targets : r[t] # NoEntry => r[t].cred \in Creds
    BY <1>8, <1>9, TableCredsKnown, AgreedParts
  <2>2. n # "refreshed" /\ DOMAIN Shown = Files
    BY <1>2, ShownFiles
  <2>3. QED
    BY <1>1, <1>5, <1>7, <2>1, <2>2, SecretsElsewhere
<1>11. EntriesAgree("target", u, p, r, v, c, touched, d)
  <2>1. PICK s : s = "target"
    OBVIOUS
  <2>2. /\ n \in Halfway => s \in Halfway
        /\ s \in Halfway => u \in Targets
        /\ s \in {"refreshSecret", "refreshed"} => n \in {"refreshSecret", "refreshed"}
        /\ s \notin {"registered", "unlink", "dropLink"}
    BY <1>2, <1>3, <2>1
  <2>3. EntriesAgree(s, u, p, r, v, c, touched, d)
    BY <1>1, <1>5, <1>7, <2>2, ShownFiles, EntriesElsewhere
  <2>4. QED
    BY <2>1, <2>3
<1>12. SkillAgrees("target", p, r, k, d)
  <2>1. d[f] = a /\ a # Absent
    BY <1>1, <1>4, ShownFiles DEF Absent
  <2>2. QED
    BY <1>1, <2>1 DEF SkillAgrees
<1>13. LinksAgree("target", u, r, k, links[p], MyJournal, op.linked, op.removed)
  BY <1>2, <1>3, <1>7, LinksOn
<1>14. PICK m, x : m = op.found /\ x = op.text
  OBVIOUS
<1>15. SecretsAgree("target", u, r, v, c,
            ToSet(MyJournal.writes) \cup {[file |-> f, before |-> disk[f], after |-> a]}, d)
  BY <1>8, <1>10
<1>16. \A t \in Targets : Table(m)[t] # NoEntry /\ f = Secret(Table(m)[t].cred) => disk[f] = <<Table(m)[t].version>>
  BY <1>1, FilesDiffer
<1>17. PICK b, then : b = disk[f] /\ then = "target"
  OBVIOUS
<1>18. WriteFits(n, f, b, a, then, p, m, x, d, u, r, k, v, c)
  BY <1>1, <1>2, <1>3, <1>4, <1>5, <1>6, <1>11, <1>12, <1>13, <1>14, <1>15, <1>16, <1>17 DEF WriteFits
<1>19. QED
  BY <1>2, <1>18, WrittenParts

\* The entry of the registration at hand.
LEMMA EntryWrittenParts ==
    ASSUME Agreed, Types', op # Absent, UNCHANGED <<disk, links, conn, label, notes, touched, spent>>,
           NEW n, n = op.phase, NEW e, NEW then, WriteEntry(e, then), e \in Entries,
           \/ n = "entry" /\ then = "refreshSecret" /\ e = Entry(Previous.cred, op.version) /\ Previous.version # op.version
           \/ n = "newEntry" /\ then = "registered" /\ e = Entry(op.cred, op.version)
           \/ n = "removeEntry" /\ then = "unlink" /\ e = NoEntry
    PROVE  Parts' /\ OpParts'
<1>1. PICK p, u, r, k, v, c, m, x : /\ p = Me /\ u = Todo /\ r = op.regs /\ k = op.kind
         /\ v = op.version /\ c = op.cred /\ m = op.found /\ x = op.text
  OBVIOUS
<1>2. PICK f, b, a : f = Config(u) /\ b = x[u] /\ a = [x[u] EXCEPT !.entry[p] = e]
  OBVIOUS
<1>3. Write(f, b, a, then)
  BY <1>1, <1>2 DEF WriteEntry
<1>4. n \in Works \ {"apply"} /\ then \in Works \ {"skill", "apply"} /\ n \in OnTarget /\ then \in OnTarget /\ then \in Halfway
      /\ (then \in AfterLink => n \in AfterLink) /\ then \notin {"link", "makeLink", "dropLink"}
      /\ n # "refreshed" /\ then # "refreshed" /\ n # "skill"
  BY DEF Works, OnTarget, Halfway, AfterLink
<1>5. p \in Products /\ u \in Targets /\ x[u] \in Texts
  BY <1>1, <1>4, OnTargetKnows, AgreedParts
<1>6. f \in Files /\ a.entry[p] = e
  BY <1>2, <1>5, FilesOf, OwnEntry
<1>7. /\ \A y \in Creds : f # Secret(y)
      /\ \A t \in Targets : f = Config(t) => t = u
      /\ f # Manifest(p) /\ f # Skill(p)
      /\ \A y : f # Secret(y)
  BY <1>2, FilesDiffer
<1>8. /\ LinksAgree(n, u, r, k, links[p], MyJournal, op.linked, op.removed)
      /\ SecretsAgree(n, u, r, v, c, ToSet(MyJournal.writes), Shown)
      /\ EntriesAgree(n, u, p, r, v, c, touched, Shown)
      /\ SkillAgrees(n, p, r, k, Shown)
  BY <1>1, <1>4, AgreesNow
<1>9. PICK w, d : w = [file |-> f, before |-> b, after |-> a] /\ d = [Shown EXCEPT ![f] = a]
  OBVIOUS
<1>10. r \in Tables
  BY <1>1, AgreedParts DEF Types, OpTypes
<1>11. SecretsAgree(then, u, r, v, c, ToSet(MyJournal.writes) \cup {w}, d)
  <2>1. w.file = f /\ \A t \in Targets : r[t] # NoEntry => r[t].cred \in Creds
    BY <1>9, <1>10, TableCredsKnown, AgreedParts
  <2>2. then \in {"newEntry", "registered"} => n = "newEntry" /\ c \in Creds
    BY <1>1, <1>4, OnTargetKnows, AgreedParts
  <2>3. then = "refreshSecret" => r[u].version # v
    BY <1>1 DEF Previous
  <2>4. QED
    BY <1>4, <1>7, <1>8, <1>9, <2>1, <2>2, <2>3, ShownFiles, SecretsElsewhere
<1>12. EntriesAgree(then, u, p, r, v, c, touched, d)
  <2>1. /\ then \in {"refreshSecret", "refreshed"} => a.entry[p] = Entry(r[u].cred, v)
        /\ then = "registered" => a.entry[p] = Entry(c, v)
        /\ then \in {"unlink", "dropLink"} => a.entry[p] = NoEntry
    BY <1>1, <1>6 DEF Previous
  <2>2. QED
    BY <1>2, <1>4, <1>5, <1>8, <1>9, <2>1, ShownFiles, EntryShown
<1>13. SkillAgrees(then, p, r, k, d)
  BY <1>4, <1>5, <1>7, <1>8, <1>9, ShownFiles, SkillElsewhere
<1>14. LinksAgree(then, u, r, k, links[p], MyJournal, op.linked, op.removed)
  BY <1>4, <1>8, LinksOn
<1>15. \A t \in Targets : f = Config(t) => b = x[t]
  BY <1>2, <1>7
<1>16. WriteFits(n, f, b, a, then, p, m, x, d, u, r, k, v, c)
  BY <1>1, <1>3, <1>4, <1>6, <1>7, <1>9, <1>11, <1>12, <1>13, <1>14, <1>15 DEF WriteFits
<1>17. QED
  BY <1>16, WrittenParts

LEMMA EntriesParts == ASSUME Agreed, Types', Refresh \/ WriteNewEntry \/ RemoveEntry PROVE Parts' /\ OpParts'
<1>1. CASE Refresh
  <2>1. CASE Previous.version = op.version
    BY <1>1, <2>1, SkipParts
  <2>2. CASE Previous.version # op.version
    <3>1. op # Absent /\ op.phase = "entry" /\ WriteEntry(Entry(Previous.cred, op.version), "refreshSecret")
          /\ UNCHANGED <<disk, links, conn, label, notes, touched, spent>> /\ Todo \in op.kept
      BY <1>1, <2>2 DEF Refresh, Phase
    <3>2. Previous \in Registrations /\ op.version \in Nat
      <4>1. "entry" \in OnTarget
        BY DEF OnTarget
      <4>2. Previous \in Registrations \cup {NoEntry}
        BY <3>1, <4>1, OnTargetKnows, AgreedParts
      <4>3. Previous # NoEntry /\ op.version \in Nat
        BY <3>1, AgreedParts DEF Types, OpKnows, OpTypes, Previous
      <4>4. QED
        BY <4>2, <4>3
    <3>3. Entry(Previous.cred, op.version) \in Entries
      BY <3>2, NewEntries DEF Registrations
    <3>4. QED
      BY <2>2, <3>1, <3>3, EntryWrittenParts
  <2>3. QED
    BY <2>1, <2>2
<1>2. CASE WriteNewEntry
  <2>1. op # Absent /\ op.phase = "newEntry" /\ WriteEntry(Entry(op.cred, op.version), "registered")
        /\ UNCHANGED <<disk, links, conn, label, notes, touched, spent>>
    BY <1>2 DEF WriteNewEntry, Phase
  <2>2. op.cred \in Creds /\ op.version \in Nat
    BY <2>1, OnTargetKnows, AgreedParts DEF Types, OpTypes, OnTarget
  <2>3. Entry(op.cred, op.version) \in Entries
    BY <2>2, NewEntries
  <2>4. QED
    BY <2>1, <2>3, EntryWrittenParts
<1>3. CASE RemoveEntry
  <2>1. op # Absent /\ op.phase = "removeEntry" /\ WriteEntry(NoEntry, "unlink")
        /\ UNCHANGED <<disk, links, conn, label, notes, touched, spent>>
    BY <1>3 DEF RemoveEntry, Phase
  <2>2. NoEntry \in Entries
    BY NewEntries
  <2>3. QED
    BY <2>1, <2>2, EntryWrittenParts
<1>4. QED
  BY <1>1, <1>2, <1>3

LEMMA SecretShown ==
    ASSUME NEW n, NEW m, NEW u, NEW r, NEW v, NEW c, NEW ws, NEW d, SecretsAgree(n, u, r, v, c, ws, d),
           n # "refreshed", m \in {"refreshed", "newEntry"}, DOMAIN d = Files, NEW e \in Creds,
           \A t \in Targets : r[t] # NoEntry /\ ~(m = "refreshed" /\ t = u) => r[t].cred \in Creds \ {e},
           m = "refreshed" => r[u].cred = e, m = "newEntry" => c = e, NEW w, w.file = Secret(e)
    PROVE  SecretsAgree(m, u, r, v, c, ws \cup {w}, [d EXCEPT ![Secret(e)] = <<v>>])
<1>1. PICK d2 : d2 = [d EXCEPT ![Secret(e)] = <<v>>]
  OBVIOUS
<1>2. d2[Secret(e)] = <<v>> /\ \A y \in Creds \ {e} : d2[Secret(y)] = d[Secret(y)]
  BY <1>1, FilesOf, FilesDiffer
<1>3. \A t \in Targets : r[t] # NoEntry /\ ~(m = "refreshed" /\ t = u) => d2[Secret(r[t].cred)] = <<r[t].version>>
  BY <1>2 DEF SecretsAgree
<1>4. \A y \in ws \cup {w}, z \in Creds : y.file = Secret(z) => d2[Secret(z)] = <<v>>
  BY <1>2, FilesDiffer DEF SecretsAgree
<1>5. SecretsAgree(m, u, r, v, c, ws \cup {w}, d2)
  BY <1>2, <1>3, <1>4 DEF SecretsAgree
<1>6. QED
  BY <1>1, <1>5

\* The credential file of the registration at hand.
LEMMA SecretWrittenParts ==
    ASSUME Agreed, Types', op # Absent, UNCHANGED <<disk, links, conn, label, notes, touched, spent>>,
           NEW n, n = op.phase, NEW then, NEW e \in Creds, NEW b, Write(Secret(e), b, <<op.version>>, then),
           MadeFor(Me, e), conn[e] # "none",
           \/ n = "refreshSecret" /\ then = "refreshed" /\ e = op.regs[Todo].cred
           \/ n = "secret" /\ then = "newEntry" /\ e = op.cred,
           \A t \in Targets : op.regs[t] # NoEntry /\ ~(then = "refreshed" /\ t = Todo) => op.regs[t].cred # e,
           \A t \in Targets : Table(op.found)[t] # NoEntry /\ Table(op.found)[t].cred = e
              => b = <<Table(op.found)[t].version>>
    PROVE  Parts' /\ OpParts'
<1>1. PICK p, u, r, k, v, c, m, x : /\ p = Me /\ u = Todo /\ r = op.regs /\ k = op.kind
         /\ v = op.version /\ c = op.cred /\ m = op.found /\ x = op.text
  OBVIOUS
<1>2. PICK f, a : f = Secret(e) /\ a = <<v>>
  OBVIOUS
<1>3. Write(f, b, a, then)
  BY <1>1, <1>2
<1>4. n \in Works \ {"apply"} /\ then \in Works \ {"skill", "apply"} /\ n \in OnTarget /\ then \in OnTarget /\ then \in Halfway
      /\ (then \in AfterLink => n \in AfterLink) /\ then \notin {"link", "makeLink", "dropLink"}
      /\ n # "refreshed" /\ n # "skill" /\ then \in {"refreshed", "newEntry"} /\ n \in Halfway
  BY DEF Works, OnTarget, Halfway, AfterLink
<1>5. p \in Products /\ u \in Targets
  BY <1>1, <1>4, OnTargetKnows, AgreedParts
<1>6. f \in Files /\ \A y \in Creds : f = Secret(y) => y = e
  BY <1>2, FilesOf, FilesDiffer
<1>7. f # Manifest(p) /\ f # Skill(p) /\ \A t \in Targets : f # Config(t)
  BY <1>2, FilesDiffer
<1>8. /\ LinksAgree(n, u, r, k, links[p], MyJournal, op.linked, op.removed)
      /\ SecretsAgree(n, u, r, v, c, ToSet(MyJournal.writes), Shown)
      /\ EntriesAgree(n, u, p, r, v, c, touched, Shown)
      /\ SkillAgrees(n, p, r, k, Shown)
  BY <1>1, <1>4, AgreesNow
<1>9. PICK w, d : w = [file |-> f, before |-> b, after |-> a] /\ d = [Shown EXCEPT ![f] = a]
  OBVIOUS
<1>10. r \in Tables
  BY <1>1, AgreedParts DEF Types, OpTypes
<1>11. SecretsAgree(then, u, r, v, c, ToSet(MyJournal.writes) \cup {w}, d)
  <2>1. \A t \in Targets : r[t] # NoEntry /\ ~(then = "refreshed" /\ t = u) => r[t].cred \in Creds \ {e}
    BY <1>1, <1>10, TableCredsKnown, AgreedParts
  <2>2. w.file = Secret(e) /\ d = [Shown EXCEPT ![Secret(e)] = <<v>>]
    BY <1>2, <1>9
  <2>3. (then = "refreshed" => r[u].cred = e) /\ (then = "newEntry" => c = e)
    BY <1>1
  <2>4. QED
    BY <1>4, <1>8, <2>1, <2>2, <2>3, ShownFiles, SecretShown
<1>12. EntriesAgree(then, u, p, r, v, c, touched, d)
  <2>1. /\ n \in Halfway => then \in Halfway
        /\ then \in Halfway => u \in Targets
        /\ then \in {"refreshSecret", "refreshed"} => n \in {"refreshSecret", "refreshed"}
        /\ then \notin {"registered", "unlink", "dropLink"}
    BY <1>4, <1>5
  <2>2. QED
    BY <1>7, <1>8, <1>9, <2>1, ShownFiles, EntriesElsewhere
<1>13. SkillAgrees(then, p, r, k, d)
  BY <1>4, <1>5, <1>7, <1>8, <1>9, ShownFiles, SkillElsewhere
<1>14. LinksAgree(then, u, r, k, links[p], MyJournal, op.linked, op.removed)
  BY <1>4, <1>8, LinksOn
<1>15. \A t \in Targets : Table(m)[t] # NoEntry /\ f = Secret(Table(m)[t].cred) => b = <<Table(m)[t].version>>
  BY <1>1, <1>2, FilesDiffer
<1>16. \A y \in Creds : f = Secret(y) => MadeFor(p, y) /\ conn[y] # "none"
  BY <1>1, <1>6
<1>17. WriteFits(n, f, b, a, then, p, m, x, d, u, r, k, v, c)
  BY <1>1, <1>3, <1>4, <1>6, <1>7, <1>9, <1>11, <1>12, <1>13, <1>14, <1>15, <1>16 DEF WriteFits
<1>18. QED
  BY <1>17, WrittenParts

LEMMA RefreshSecretParts == ASSUME Agreed, Types', RefreshSecret PROVE Parts' /\ OpParts'
<1>1. /\ op # Absent /\ op.phase = "refreshSecret"
      /\ Write(Secret(Previous.cred), disk[Secret(Previous.cred)], <<op.version>>, "refreshed")
      /\ UNCHANGED <<disk, links, conn, label, notes, touched, spent>>
  BY DEF RefreshSecret, Phase
<1>2. op.phase \in Works \ {"apply"} /\ op.phase \in OnTarget
  BY <1>1 DEF Works, OnTarget
<1>3. PICK p, u, r, m, x : p = Me /\ u = Todo /\ r = op.regs /\ m = op.found /\ x = op.text
  OBVIOUS
<1>4. /\ p \in Products /\ u \in Targets /\ r[u] \in Registrations /\ r[u] # NoEntry /\ r \in Tables
      /\ m \in Tables \cup {Absent}
  <2>1. p \in Products /\ u \in Targets /\ r[u] \in Registrations
    BY <1>1, <1>2, <1>3, OnTargetKnows, AgreedParts DEF Previous
  <2>2. r \in Tables /\ m \in Tables \cup {Absent}
    BY <1>1, <1>3, AgreedParts DEF Types, OpTypes
  <2>3. QED
    BY <2>1, <2>2, NoRegistration
<1>5. PICK e : e = r[u].cred
  OBVIOUS
<1>6. e \in Creds
  BY <1>4, <1>5 DEF Registrations
<1>7. /\ Sound(p, r) /\ Sound(p, m) /\ Restores(p, m, x) /\ ~Book(p).committed
      /\ Book(p) = MyJournal
  BY <1>1, <1>2, <1>3, AtWorkFacts
<1>8. \A t \in Targets : r[t] # NoEntry => conn[r[t].cred] = "live" /\ label[r[t].cred] = <<p, t>>
  BY <1>4, <1>7, TableIsThere DEF Sound
<1>9. MadeFor(p, e) /\ conn[e] # "none"
  BY <1>4, <1>5, <1>8 DEF MadeFor
<1>10. \A t \in Targets : r[t] # NoEntry /\ t # u => r[t].cred # e
  BY <1>4, <1>5, <1>8
<1>11. PICK b : b = disk[Secret(e)]
  OBVIOUS
<1>12. ASSUME NEW t \in Targets, Table(m)[t] # NoEntry, Table(m)[t].cred = e PROVE b = <<Table(m)[t].version>>
  <2>1. GoesBack(p, Secret(e), <<Table(m)[t].version>>)
    BY <1>7, <1>12 DEF Restores
  <2>2. ASSUME NEW w \in ToSet(Undoes(p)), w.file = Secret(e) PROVE FALSE
    <3>1. w \in ToSet(MyJournal.writes)
      BY <1>4, <1>7, <2>2, UndoesKnown, AgreedParts
    <3>2. SecretsAgree("refreshSecret", u, r, op.version, op.cred, ToSet(MyJournal.writes), Shown)
      BY <1>1, <1>2, <1>3, AgreesNow
    <3>3. Shown[Secret(e)] = <<op.version>> /\ Shown[Secret(e)] = <<r[u].version>> /\ r[u].version # op.version
      BY <1>4, <1>5, <1>6, <2>2, <3>1, <3>2 DEF SecretsAgree
    <3>4. QED
      BY <3>3
  <2>3. QED
    BY <1>11, <2>1, <2>2 DEF GoesBack
<1>13. Write(Secret(e), b, <<op.version>>, "refreshed")
  BY <1>1, <1>3, <1>5, <1>11 DEF Previous
<1>14. PICK n, then : n = op.phase /\ then = "refreshed"
  OBVIOUS
<1>15. /\ Write(Secret(e), b, <<op.version>>, then) /\ n = "refreshSecret" /\ e = op.regs[Todo].cred
       /\ MadeFor(Me, e)
       /\ \A t \in Targets : op.regs[t] # NoEntry /\ ~(then = "refreshed" /\ t = Todo) => op.regs[t].cred # e
       /\ \A t \in Targets : Table(op.found)[t] # NoEntry /\ Table(op.found)[t].cred = e
              => b = <<Table(op.found)[t].version>>
  BY <1>1, <1>3, <1>5, <1>9, <1>10, <1>12, <1>13, <1>14
<1>16. QED
  BY <1>1, <1>6, <1>9, <1>14, <1>15, SecretWrittenParts

LEMMA WriteSecretParts == ASSUME Agreed, Types', WriteSecret PROVE Parts' /\ OpParts'
<1>1. /\ op # Absent /\ op.phase = "secret" /\ Write(Secret(op.cred), Absent, <<op.version>>, "newEntry")
      /\ UNCHANGED <<disk, links, conn, label, notes, touched, spent>>
  BY DEF WriteSecret, Phase
<1>2. op.phase \in Works \ {"apply"} /\ op.phase \in OnTarget
  BY <1>1 DEF Works, OnTarget
<1>3. PICK e : e = op.cred
  OBVIOUS
<1>4. e \in Creds
  BY <1>1, <1>2, <1>3, OnTargetKnows, AgreedParts
<1>5. InFlight = {e}
  BY <1>1, <1>3 DEF InFlight, IsOn
<1>6. /\ MadeFor(Me, e) /\ conn[e] # "none" /\ e \notin CredsOf(op.found) /\ e \notin CredsOf(op.regs)
  BY <1>1, <1>2, <1>5, AgreedParts DEF Credited, OpBooks, AtWork
<1>7. op.found \in Tables \cup {Absent} /\ op.regs \in Tables
  BY <1>1, AgreedParts DEF Types, OpTypes
<1>8. \A t \in Targets : op.regs[t] # NoEntry => op.regs[t].cred # e
  BY <1>6, <1>7, TableIsThere DEF CredsOf
<1>9. \A t \in Targets : Table(op.found)[t] # NoEntry => Table(op.found)[t].cred # e
  BY <1>6, <1>7, TablesOf DEF CredsOf
<1>10. PICK n, then : n = op.phase /\ then = "newEntry"
  OBVIOUS
<1>11. PICK b : b = Absent
  OBVIOUS
<1>12. /\ Write(Secret(e), b, <<op.version>>, then) /\ n = "secret"
  BY <1>1, <1>3, <1>10, <1>11
<1>13. QED
  BY <1>1, <1>3, <1>4, <1>6, <1>8, <1>9, <1>10, <1>12, SecretWrittenParts

LEMMA ManifestWrittenParts == ASSUME Agreed, Types', WriteManifest PROVE Parts' /\ OpParts'
<1>1. /\ op # Absent /\ op.phase = "manifest" /\ Write(Manifest(Me), op.found, op.regs, "commit")
      /\ UNCHANGED <<disk, links, conn, label, notes, touched, spent>>
  BY DEF WriteManifest, Phase
<1>2. PICK p, u, r, k, v, c, m, x, n, then : /\ p = Me /\ u = Todo /\ r = op.regs /\ k = op.kind
         /\ v = op.version /\ c = op.cred /\ m = op.found /\ x = op.text /\ n = op.phase /\ then = "commit"
  OBVIOUS
<1>3. PICK f : f = Manifest(p)
  OBVIOUS
<1>4. /\ n \in Works \ {"apply"} /\ then \in Works \ {"skill", "apply"} /\ n \notin OnTarget /\ then \notin OnTarget
      /\ then \notin AfterLink /\ then \notin Halfway /\ n \notin Halfway /\ n # "skill" /\ n # "refreshed"
      /\ then \notin {"link", "makeLink", "dropLink", "registered", "unlink", "refreshSecret", "refreshed", "newEntry"}
  BY <1>1, <1>2 DEF Works, OnTarget, AfterLink, Halfway
<1>5. p \in Products /\ r \in Tables
  BY <1>1, <1>2, <1>4, AtWorkFacts, AgreedParts DEF Types, OpTypes
<1>6. f \in Files /\ f # Skill(p)
      /\ (\A t \in Targets : f # Config(t)) /\ (\A e \in Creds : f # Secret(e)) /\ \A e : f # Secret(e)
  BY <1>3, <1>5, FilesOf, FilesDiffer
<1>7. /\ LinksAgree(n, u, r, k, links[p], MyJournal, op.linked, op.removed)
      /\ SecretsAgree(n, u, r, v, c, ToSet(MyJournal.writes), Shown)
      /\ EntriesAgree(n, u, p, r, v, c, touched, Shown)
      /\ SkillAgrees(n, p, r, k, Shown)
  BY <1>1, <1>2, <1>4, AgreesNow
<1>8. PICK w, d : w = [file |-> f, before |-> m, after |-> r] /\ d = [Shown EXCEPT ![f] = r]
  OBVIOUS
<1>9. SecretsAgree(then, u, r, v, c, ToSet(MyJournal.writes) \cup {w}, d)
  <2>1. w.file = f /\ \A t \in Targets : r[t] # NoEntry => r[t].cred \in Creds
    BY <1>5, <1>8, TableCredsKnown, AgreedParts
  <2>2. QED
    BY <1>4, <1>6, <1>7, <1>8, <2>1, ShownFiles, SecretsElsewhere
<1>10. EntriesAgree(then, u, p, r, v, c, touched, d)
  <2>1. /\ n \in Halfway => then \in Halfway
        /\ then \in Halfway => u \in Targets
        /\ then \in {"refreshSecret", "refreshed"} => n \in {"refreshSecret", "refreshed"}
        /\ then \notin {"registered", "unlink", "dropLink"}
    BY <1>4
  <2>2. QED
    BY <1>6, <1>7, <1>8, <2>1, ShownFiles, EntriesElsewhere
<1>11. SkillAgrees(then, p, r, k, d)
  BY <1>4, <1>5, <1>6, <1>7, <1>8, ShownFiles, SkillElsewhere
<1>12. LinksAgree(then, u, r, k, links[p], MyJournal, op.linked, op.removed)
  BY <1>4, <1>7, LinksOn
<1>13. Write(f, m, r, then)
  BY <1>1, <1>2, <1>3
<1>14. WriteFits(n, f, m, r, then, p, m, x, d, u, r, k, v, c)
  BY <1>2, <1>4, <1>6, <1>8, <1>9, <1>10, <1>11, <1>12, <1>13 DEF WriteFits
<1>15. QED
  BY <1>1, <1>14, WrittenParts

\* The next registration, with another entry of the table for the last.
LEMMA NextParts == ASSUME Agreed, Types', Refreshed \/ AddRegistration \/ Unregister PROVE Parts' /\ OpParts'
<1>1. PICK n, p, u, r, v, c, k, m, x, l, j : /\ n = op.phase /\ p = Me /\ u = Todo /\ r = op.regs /\ v = op.version /\ c = op.cred
         /\ k = op.kind /\ m = op.found /\ x = op.text /\ l = links[p] /\ j = MyJournal
  OBVIOUS
<1>2. PICK e : e = IF Refreshed THEN Entry(Previous.cred, v) ELSE IF AddRegistration THEN Entry(c, v) ELSE NoEntry
  OBVIOUS
<1>3. /\ op # Absent /\ UNCHANGED <<disk, links, conn, label, journal, notes, touched, spent>>
      /\ \/ op' = [op EXCEPT !.regs[u] = e, !.todo = Tail(@), !.phase = "target"]
         \/ op' = [op EXCEPT !.regs[u] = e, !.retired = Retire, !.todo = Tail(@), !.phase = "target"]
      /\ \/ n = "refreshed" /\ e = Entry(r[u].cred, v)
         \/ n = "registered" /\ e = Entry(c, v)
         \/ n = "unlink" /\ u \notin l /\ e = NoEntry
  <2>1. CASE Refreshed
    BY <1>1, <1>2, <2>1 DEF Refreshed, Phase, Previous
  <2>2. CASE AddRegistration
    <3>1. ~Refreshed
      BY <2>2 DEF AddRegistration, Refreshed, Phase
    <3>2. QED
      BY <1>1, <1>2, <2>2, <3>1 DEF AddRegistration, Phase
  <2>3. CASE Unregister
    <3>1. ~Refreshed /\ ~AddRegistration
      BY <2>3 DEF AddRegistration, Refreshed, Unregister, Phase
    <3>2. QED
      BY <1>1, <1>2, <2>3, <3>1 DEF Unregister, Phase
  <2>4. QED
    BY <2>1, <2>2, <2>3
<1>4. n \in Works \ {"apply"} /\ n \in OnTarget /\ n \in Halfway /\ "target" \notin OnTarget /\ "target" \notin AfterLink
      /\ "target" \notin Halfway /\ "target" \in Works /\ n # "skill" /\ (n # "unlink" => n \in AfterLink)
  BY <1>3 DEF Works, OnTarget, Halfway, AfterLink
<1>5. r \in Tables /\ u \in Targets
  BY <1>1, <1>3, <1>4, OnTargetKnows, AgreedParts DEF Types, OpTypes
<1>6. PICK r2 : r2 = [r EXCEPT ![u] = e]
  OBVIOUS
<1>7. r2[u] = e /\ \A t \in Targets \ {u} : r2[t] = r[t]
  BY <1>5, <1>6 DEF Tables
<1>8. /\ DOMAIN op' = DOMAIN op /\ op'.product = p /\ op'.phase = "target" /\ op'.regs = r2
      /\ op'.kind = k /\ op'.version = v /\ op'.cred = c /\ op'.found = m
      /\ op'.text = x /\ op'.writes = op.writes /\ op'.linked = op.linked /\ op'.removed = op.removed
  BY <1>1, <1>3, <1>6, AgreedParts DEF Types, OpTypes, OpFields, Me
<1>9. op' # Absent
  BY <1>3, <1>8, OpIsThere, AgreedParts DEF Types
<1>10. /\ LinksAgree(n, u, r, k, l, j, op.linked, op.removed)
       /\ SecretsAgree(n, u, r, v, c, ToSet(j.writes), Shown)
       /\ EntriesAgree(n, u, p, r, v, c, touched, Shown)
       /\ SkillAgrees(n, p, r, k, Shown)
       /\ k = "uninstall" => \A t \in Targets : r[t] \in {NoEntry, Table(m)[t]}
  BY <1>1, <1>3, <1>4, AgreesNow
<1>11. e # NoEntry <=> n # "unlink"
  <2>1. n \in {"registered"} => c \in Creds
    BY <1>1, <1>3, <1>4, OnTargetKnows, AgreedParts
  <2>2. n = "refreshed" => r[u] \in Registrations
    BY <1>1, <1>3, <1>4, OnTargetKnows, AgreedParts DEF Previous
  <2>3. v \in Nat
    BY <1>1, <1>3, AgreedParts DEF Types, OpTypes
  <2>4. n = "refreshed" => r[u].cred \in Creds
    BY <2>2 DEF Registrations
  <2>5. QED
    BY <1>3, <2>1, <2>3, <2>4, NewEntries
<1>12. /\ UNCHANGED <<disk, links, journal, touched>> /\ j = MyJournal' /\ j = Book(p)' /\ ~j.committed
       /\ Book(p) = MyJournal
       /\ \A q \in Products \ {p} : Book(q)' = Book(q) /\ links'[q] = links[q]
  BY <1>1, <1>3, <1>4, <1>8, SameBooks, AtWorkFacts, AgreedParts
<1>13. Shown' = Shown /\ AtStep' = "target"
  BY <1>1, <1>3, <1>4, <1>8, ShownKept
<1>14. PICK u2, d, s : u2 = Todo' /\ d = Shown /\ s = "target"
  OBVIOUS
<1>15. s \notin OnTarget /\ s \notin AfterLink /\ s \notin Halfway
       /\ s \notin {"link", "makeLink", "dropLink", "refreshed", "newEntry", "registered", "refreshSecret", "unlink"}
  BY <1>4, <1>14
<1>16. LinksAgree(s, u2, r2, k, l, j, op.linked, op.removed)
  <2>1. \A t \in Targets : (r2[t] # NoEntry) <=> (t \in l)
    <3>1. (r2[u] # NoEntry) <=> (u \in l)
      BY <1>3, <1>4, <1>7, <1>10, <1>11 DEF LinksAgree
    <3>2. \A t \in Targets \ {u} : (r2[t] # NoEntry) <=> (t \in l)
      BY <1>7, <1>10 DEF LinksAgree
    <3>3. QED
      BY <3>1, <3>2
  <2>2. QED
    BY <1>10, <1>15, <2>1 DEF LinksAgree
<1>17. SecretsAgree(s, u2, r2, v, c, ToSet(j.writes), d)
  <2>1. \A t \in Targets : r2[t] # NoEntry => d[Secret(r2[t].cred)] = <<r2[t].version>>
    <3>1. r2[u] # NoEntry => d[Secret(r2[u].cred)] = <<r2[u].version>>
      BY <1>3, <1>7, <1>10, <1>14 DEF SecretsAgree, Entry
    <3>2. \A t \in Targets \ {u} : r2[t] # NoEntry => d[Secret(r2[t].cred)] = <<r2[t].version>>
      BY <1>7, <1>10, <1>14 DEF SecretsAgree
    <3>3. QED
      BY <3>1, <3>2
  <2>2. QED
    BY <1>10, <1>14, <1>15, <2>1 DEF SecretsAgree
<1>18. EntriesAgree(s, u2, p, r2, v, c, touched, d)
  <2>1. <<p, u>> \in touched \/ d[Config(u)].entry[p] = r2[u]
    BY <1>3, <1>4, <1>7, <1>10, <1>14 DEF EntriesAgree
  <2>2. \A t \in Targets \ {u} : <<p, t>> \in touched \/ d[Config(t)].entry[p] = r2[t]
    BY <1>7, <1>10, <1>14 DEF EntriesAgree
  <2>3. QED
    BY <1>15, <2>1, <2>2 DEF EntriesAgree
<1>19. SkillAgrees(s, p, r2, k, d)
  <2>1. k = "uninstall" => n = "unlink"
    BY <1>4, <1>10 DEF LinksAgree
  <2>2. Registered(r2) \subseteq Registered(r) \/ k # "uninstall"
    BY <1>7, <1>11, <2>1 DEF Registered
  <2>3. QED
    BY <1>4, <1>10, <1>14, <2>2 DEF SkillAgrees
<1>20. k = "uninstall" => \A t \in Targets : r2[t] \in {NoEntry, Table(m)[t]}
  <2>1. k = "uninstall" => n = "unlink"
    BY <1>4, <1>10 DEF LinksAgree
  <2>2. QED
    BY <1>7, <1>10, <1>11, <2>1
<1>21. AtWorkAgrees'
  <2>1. PICK l2, b : l2 = links'[p] /\ b = touched'
    OBVIOUS
  <2>2. l2 = l /\ b = touched
    BY <1>1, <1>12, <2>1
  <2>3. /\ p = Me' /\ s = AtStep' /\ u2 = Todo' /\ r2 = op'.regs /\ k = op'.kind /\ v = op'.version
        /\ c = op'.cred /\ d = Shown' /\ op'.phase # "skill"
    BY <1>8, <1>13, <1>14 DEF Me
  <2>4. /\ LinksAgree(s, u2, r2, k, l2, j, op'.linked, op'.removed)
        /\ EntriesAgree(s, u2, p, r2, v, c, touched', d)
        /\ k = "uninstall" => \A t \in Targets : r2[t] \in {NoEntry, Table(op'.found)[t]}
    BY <1>8, <1>16, <1>18, <1>20, <2>1, <2>2
  <2>5. QED
    BY <1>12, <1>17, <1>19, <2>1, <2>3, <2>4, AgreesNext
<1>22. OwnSecrets(p)' /\ Restores(p, m, x)'
  <2>1. LinksBack(p)' = LinksBack(p)
    BY <1>12 DEF LinksBack, Book
  <2>2. Book(p)'.writes = Book(p).writes /\ \A y \in Creds : conn[y] # "none" => label'[y] = label[y] /\ conn'[y] # "none"
    BY <1>1, <1>3, <1>12
  <2>3. QED
    BY <1>1, <1>3, <1>4, <1>8, <1>9, <1>12, <2>1, <2>2, QuietRestores
<1>23. Parts' /\ AtWorkRestores'
  <2>1. ~Book(p)'.committed
    BY <1>12
  <2>2. \A y \in Creds : conn[y] # "none" => label'[y] = label[y] /\ conn'[y] # "none"
    BY <1>3
  <2>3. QED
    BY <1>1, <1>3, <1>4, <1>8, <1>9, <1>12, <1>22, <2>1, <2>2, WorkParts
<1>24. QED
  BY <1>4, <1>8, <1>21, <1>23, NotUndone DEF OpParts

\* A step of the bookkeeping alone.
LEMMA QuietParts ==
    ASSUME Agreed, Types', UNCHANGED <<disk, links, journal, touched>>,
           \A c \in Creds : conn[c] # "none" => label'[c] = label[c] /\ conn'[c] # "none",
           \A q \in Products : Book(q).committed \/ ToSet(Undoes(q)) \subseteq ToSet(Undoes(q)')
    PROVE  Parts'
<1>1. ASSUME NEW q \in Products PROVE PartsAgree(q)'
  <2>1. CASE ToSet(Undoes(q)) \subseteq ToSet(Undoes(q)')
    <3>1. Spared(q)
      BY <2>1 DEF Spared, Book, EntryOf
    <3>2. QED
      BY <3>1, PartsSpared, AgreedParts DEF Parts
  <2>2. CASE Book(q).committed
    <3>1. Book(q)' = Book(q) /\ Regs(q)' = Regs(q) /\ PartsAgree(q)
      BY AgreedParts DEF Book, Regs, Parts
    <3>2. OwnSecrets(q)' /\ Whole(q)' /\ (Book(q).cleanup # {} => Registered(Regs(q)') = {})
      BY <2>2, <3>1 DEF PartsAgree, OwnSecrets, MadeFor, Whole, EntryOf
    <3>3. QED
      BY <2>2, <3>1, <3>2 DEF PartsAgree
  <2>3. QED
    BY <1>1, <2>1, <2>2
<1>2. QED
  BY <1>1 DEF Parts

LEMMA RestIsQuiet ==
    ASSUME op' # Absent => op'.phase \notin Works
    PROVE  AtWorkRestores' /\ AtWorkAgrees'
BY DEF AtWorkRestores, AtWorkAgrees

LEMMA RollbackParts ==
    ASSUME Agreed, Types', op # Absent, op.phase \in Works \cup {"plan"}, Rollback,
           UNCHANGED <<disk, links, conn, label, journal, touched>>
    PROVE  Parts' /\ OpParts'
<1>1. /\ op'.phase = "rollback" /\ op'.product = op.product /\ op'.writes = op.writes
      /\ op'.linked = op.linked /\ op'.removed = op.removed /\ DOMAIN op' = DOMAIN op
  BY AgreedParts DEF Rollback, Types, OpTypes, OpFields
<1>2. op' # Absent
  BY <1>1, OpIsThere, AgreedParts DEF Types
<1>3. op.phase # "recover" /\ op'.phase \notin Works /\ op'.phase # "recover"
  BY <1>1 DEF Works, OnTarget
<1>4. Parts'
  <2>1. ASSUME NEW q \in Products PROVE Undoes(q)' = Undoes(q)
    BY <1>1, <1>2, <1>3 DEF Undoes, Me, Book
  <2>2. QED
    BY <2>1, QuietParts
<1>5. Endings'
  <2>1. PICK p, l : p = Me /\ l = links[p]
    OBVIOUS
  <2>2. Book(p) = MyJournal /\ Me' = p /\ LinksBack(p)' = LinksBack(p) /\ links'[p] = l
    BY <1>1, <2>1, OwnBook, AgreedParts DEF LinksBack, Book, Me
  <2>3. LinksBack(p) = (l \ op.linked) \cup op.removed
    <3>1. CASE op.phase \in Works
      <4>1. (l \ MyJournal.linked) \cup MyJournal.removed = (l \ op.linked) \cup op.removed
        BY <2>1, <3>1, AgreedParts DEF AtWorkAgrees, LinksAgree
      <4>2. QED
        BY <2>1, <2>2, <4>1 DEF LinksBack
    <3>2. CASE op.phase = "plan"
      <4>1. journal[p] = Absent /\ op.linked = {} /\ op.removed = {}
        BY <2>1, <3>2, AgreedParts DEF Endings, Credited, OpBooks, Recovering
      <4>2. QED
        BY <2>1, <4>1 DEF LinksBack, Book, EmptyJournal
    <3>3. QED
      BY <3>1, <3>2
  <2>4. LinksBack(Me)' = (links[Me]' \ op'.linked) \cup op'.removed
    BY <1>1, <2>2, <2>3
  <2>5. QED
    BY <1>1, <2>4 DEF Endings
<1>6. QED
  BY <1>2, <1>3, <1>4, <1>5, RestIsQuiet DEF OpParts

LEMMA AppliedParts ==
    ASSUME Agreed, Types', op # Absent, op.phase = "apply", NEW w, w = op.write, StillIn(w.file, w.before),
           Put(w.file, w.after, {Me}),
           op' = [op EXCEPT !.phase = op.then, !.writes = Append(@, op.write), !.write = <<>>, !.seen = <<>>],
           UNCHANGED <<links, conn, label, journal, notes, spent>>
    PROVE  Parts' /\ OpParts'
<1>1. PICK p, m, x, n : p = Me /\ m = op.found /\ x = op.text /\ n = op.then
  OBVIOUS
<1>2. op.phase \in Works /\ n \in Works \ {"skill", "apply"} /\ w \in Writings(p)
  BY <1>1, AgreedParts DEF Types, OpKnows, Works, OnTarget
<1>3. /\ p \in Products /\ Book(p) = MyJournal /\ ~Book(p).committed /\ m \in Tables \cup {Absent}
      /\ x \in [Targets -> Texts] /\ Restores(p, m, x) /\ OwnSecrets(p) /\ Undoes(p) = op.writes
  BY <1>1, <1>2, AtWorkFacts
<1>4. /\ DOMAIN op' = DOMAIN op /\ op'.phase = n /\ op'.product = p /\ op'.writes = Append(op.writes, w)
      /\ op'.kind = op.kind /\ op'.version = op.version /\ op'.regs = op.regs /\ op'.found = m
      /\ op'.text = x /\ op'.linked = op.linked /\ op'.removed = op.removed /\ op'.todo = op.todo
      /\ op'.cred = op.cred
  BY <1>1, AgreedParts DEF Types, OpTypes, OpFields, Me
<1>5. op' # Absent
  BY <1>4, OpIsThere, AgreedParts DEF Types
<1>6. w \in ToSet(Book(p).writes)
  BY <1>1, <1>2, <1>3, AgreedParts DEF Credited, OpBooks, WorkWrites
<1>7. ToSet(op'.writes) = ToSet(op.writes) \cup {w}
  <2>1. op.writes \in Seq(Writings(p))
    BY <1>1, AgreedParts DEF Types, OpTypes
  <2>2. QED
    BY <1>2, <1>4, <2>1, AppendTo
<1>8. Undoes(p)' = op'.writes
  BY <1>2, <1>4, <1>5 DEF Undoes, Me, Works, OnTarget
<1>9. /\ disk' = [disk EXCEPT ![w.file] = w.after] /\ w.file \in Files /\ DOMAIN disk = Files
      /\ touched \subseteq touched'
  BY <1>2, AgreedParts DEF Put, Types, DiskTypes, Writings
<1>10. \A q \in Products : Book(q)' = Book(q) /\ links'[q] = links[q]
  BY DEF Book
<1>11. ASSUME NEW q \in Products, q # p PROVE PartsAgree(q)'
  <2>1. /\ touched \subseteq touched'
        /\ \A f \in Files : disk'[f] # disk[f] =>
              \/ f \in {Manifest(p), Skill(p)}
              \/ \E c \in Creds : f = Secret(c) /\ MadeFor(p, c)
              \/ \E t \in Targets : /\ f = Config(t)
                                    /\ \/ <<q, t>> \in touched'
                                       \/ journal[q] = Absent /\ EntryOf(q, t)' = EntryOf(q, t)
    BY <1>1, <1>2, <1>3, <1>6, <1>11, PutSpares, AgreedParts
  <2>2. Spared(q)
    BY <1>1, <1>3, <1>4, <1>10, <1>11, <2>1, OthersSpared, AgreedParts
  <2>3. QED
    BY <2>2, PartsSpared, AgreedParts DEF Parts
<1>12. ASSUME NEW f \in Files, NEW b, GoesBack(p, f, b) PROVE GoesBack(p, f, b)'
  <2>1. \A y \in ToSet(Book(p)'.writes) : y.file = f => y.before = b
    BY <1>3, <1>10, <1>12 DEF GoesBack
  <2>2. CASE f = w.file
    <3>1. disk'[f] = w.after
      BY <1>9, <2>2
    <3>2. w \in ToSet(Undoes(p)')
      BY <1>7, <1>8
    <3>3. QED
      BY <2>1, <2>2, <3>1, <3>2 DEF GoesBack
  <2>3. CASE f # w.file
    <3>1. disk'[f] = disk[f]
      BY <1>9, <2>3
    <3>2. ToSet(Undoes(p)) \subseteq ToSet(Undoes(p)')
      BY <1>3, <1>7, <1>8
    <3>3. QED
      BY <1>12, <2>1, <3>1, <3>2 DEF GoesBack
  <2>4. QED
    BY <2>2, <2>3
<1>13. LinksBack(p)' = LinksBack(p) /\ OwnSecrets(p)'
  BY <1>3, <1>10 DEF LinksBack, OwnSecrets, MadeFor
<1>14. Sound(p, m)
  BY <1>1, <1>2, AtWorkFacts
<1>15. Restores(p, m, x)'
  <2>1. GoesBack(p, Manifest(p), m)'
    BY <1>3, <1>12, FilesOf DEF Restores
  <2>2. (\E s \in {Absent, <<"skill">>} :
          GoesBack(p, Skill(p), s) /\ (Registered(Table(m)) # {} => s # Absent))'
    <3>1. PICK s \in {Absent, <<"skill">>} :
            GoesBack(p, Skill(p), s) /\ (Registered(Table(m)) # {} => s # Absent)
      BY <1>3 DEF Restores
    <3>2. GoesBack(p, Skill(p), s)'
      BY <1>3, <1>12, <3>1, FilesOf
    <3>3. QED
      BY <3>1, <3>2
  <2>3. ASSUME NEW t \in Targets
        PROVE  /\ (Table(m)[t] # NoEntry) <=> (t \in LinksBack(p)')
               /\ Table(m)[t] # NoEntry => GoesBack(p, Secret(Table(m)[t].cred), <<Table(m)[t].version>>)'
               /\ <<p, t>> \notin touched' => GoesBack(p, Config(t), x[t])' /\ x[t].entry[p] = Table(m)[t]
    <3>1. /\ (Table(m)[t] # NoEntry) <=> (t \in LinksBack(p))
          /\ Table(m)[t] # NoEntry => GoesBack(p, Secret(Table(m)[t].cred), <<Table(m)[t].version>>)
          /\ <<p, t>> \notin touched => GoesBack(p, Config(t), x[t]) /\ x[t].entry[p] = Table(m)[t]
      BY <1>3 DEF Restores
    <3>2. Table(m)[t] # NoEntry => Secret(Table(m)[t].cred) \in Files
      BY <1>3, <1>14, SoundTable, FilesOf
    <3>3. Table(m)[t] # NoEntry => GoesBack(p, Secret(Table(m)[t].cred), <<Table(m)[t].version>>)'
      BY <1>12, <3>1, <3>2
    <3>4. <<p, t>> \notin touched' => GoesBack(p, Config(t), x[t])'
      BY <1>9, <1>12, <3>1, FilesOf
    <3>5. QED
      BY <1>9, <1>13, <3>1, <3>3, <3>4
  <2>4. QED
    BY <2>1, <2>2, <2>3 DEF Restores
<1>16. Parts' /\ AtWorkRestores'
  <2>1. Restorable(p)'
    BY <1>3, <1>15 DEF Restorable
  <2>2. PartsAgree(p)'
    BY <1>3, <1>10, <1>13, <2>1 DEF PartsAgree
  <2>3. Restores(Me, op.found, op.text)'
    <3>1. Me' = p /\ op'.found = m /\ op'.text = x
      BY <1>4 DEF Me
    <3>2. QED
      BY <1>15, <3>1 DEF Restores
  <2>4. QED
    BY <1>11, <2>2, <2>3 DEF Parts, AtWorkRestores
<1>17. AtWorkAgrees'
  <2>1. PICK u, r, k, v, c, l, j, d : /\ u = Todo /\ r = op.regs /\ k = op.kind /\ v = op.version /\ c = op.cred
                                      /\ l = links[p] /\ j = MyJournal /\ d = Shown
    OBVIOUS
  <2>2. AtStep = n /\ AtStep' = n /\ Shown' = d
    <3>1. AtStep = n
      BY <1>1 DEF AtStep
    <3>2. op'.phase = op.then /\ op.then # "apply" /\ disk' = [disk EXCEPT ![op.write.file] = op.write.after] /\ DiskTypes
      BY <1>1, <1>2, <1>4, <1>9, AgreedParts DEF Types
    <3>3. QED
      BY <2>1, <3>1, <3>2, ShownMade
  <2>3. /\ LinksAgree(n, u, r, k, l, j, op.linked, op.removed)
        /\ SecretsAgree(n, u, r, v, c, ToSet(j.writes), d)
        /\ EntriesAgree(n, u, p, r, v, c, touched, d) /\ SkillAgrees(n, p, r, k, d)
        /\ k = "uninstall" => \A t \in Targets : r[t] \in {NoEntry, Table(m)[t]}
    BY <1>1, <1>2, <2>1, <2>2, AgreedParts DEF AtWorkAgrees
  <2>4. EntriesAgree(n, u, p, r, v, c, touched', d)
    BY <1>9, <2>3 DEF EntriesAgree
  <2>5. /\ p = Me' /\ n = AtStep' /\ u = Todo' /\ r = op'.regs /\ k = op'.kind /\ v = op'.version
        /\ c = op'.cred /\ d = Shown' /\ op'.phase # "skill" /\ l = links'[p] /\ j = MyJournal'
    BY <1>1, <1>2, <1>4, <2>1, <2>2 DEF Me, Todo, MyJournal
  <2>6. /\ LinksAgree(n, u, r, k, l, j, op'.linked, op'.removed)
        /\ k = "uninstall" => \A t \in Targets : r[t] \in {NoEntry, Table(op'.found)[t]}
    BY <1>4, <2>3
  <2>7. QED
    BY <2>3, <2>4, <2>5, <2>6, AgreesNext
<1>18. QED
  BY <1>2, <1>4, <1>16, <1>17, NotUndone DEF OpParts

\* What was seen in a file does not matter to the parts.
LEMMA SamePartsAgree ==
    ASSUME Agreed, UNCHANGED <<disk, links, conn, label, journal, touched>>,
           op' = op \/ (op # Absent /\ \E s : op' = [op EXCEPT !.seen = s])
    PROVE  Parts' /\ OpParts'
<1>1. /\ UNCHANGED <<disk, links, conn, label, journal, touched>> /\ (op' = Absent <=> op = Absent)
      /\ op # Absent => \A x \in OpFields \ {"seen"} : op'[x] = op[x]
  BY OpIsThere, AgreedParts DEF Types, OpTypes
<1> op # Absent =>
      /\ op'.product = op.product /\ op'.todo = op.todo /\ op'.phase = op.phase /\ op'.kind = op.kind
      /\ op'.version = op.version /\ op'.text = op.text /\ op'.then = op.then /\ op'.write = op.write
      /\ op'.cred = op.cred /\ op'.writes = op.writes /\ op'.found = op.found /\ op'.regs = op.regs
      /\ op'.linked = op.linked /\ op'.removed = op.removed
  BY <1>1 DEF OpFields
<1>2. \A q \in Products : Book(q)' = Book(q) /\ Undoes(q)' = Undoes(q) /\ LinksBack(q)' = LinksBack(q)
  BY <1>1 DEF Book, Undoes, LinksBack, Me
<1>3. ASSUME NEW q \in Products PROVE PartsAgree(q)'
  <2>1. \A m, x : Restores(q, m, x) => Restores(q, m, x)'
    BY <1>1, <1>2 DEF Restores, GoesBack
  <2>2. Restorable(q) => Restorable(q)'
    BY <2>1 DEF Restorable
  <2>3. Whole(q) => Whole(q)'
    BY <1>1 DEF Whole, Regs, EntryOf
  <2>4. Regs(q)' = Regs(q)
    BY <1>1 DEF Regs
  <2>5. PartsAgree(q)
    BY AgreedParts DEF Parts
  <2>6. QED
    BY <1>1, <1>2, <2>2, <2>3, <2>4, <2>5 DEF PartsAgree, OwnSecrets, MadeFor
<1>4. AtWorkRestores' /\ Endings'
  <2>1. op # Absent /\ op.phase \in Works => Restores(Me, op.found, op.text)
    BY AgreedParts DEF AtWorkRestores
  <2>2. Restores(Me, op.found, op.text) => Restores(Me, op.found, op.text)'
    BY <1>1 DEF Restores, GoesBack, Book, Undoes, LinksBack, Me
  <2>3. AtWorkRestores'
    BY <1>1, <2>1, <2>2 DEF AtWorkRestores
  <2>4. QED
    BY <1>1, <2>3, AgreedParts DEF Endings, LinksBack, Book, Me, MyJournal, NoneLeft
<1>5. AtWorkAgrees'
  <2>1. AtStep' = AtStep /\ Todo' = Todo /\ Me' = Me /\ MyJournal' = MyJournal /\ Shown' = Shown
    BY <1>1 DEF AtStep, Todo, MyJournal, Shown, Me
  <2>2. QED
    BY <1>1, <2>1, AgreedParts DEF AtWorkAgrees, LinksAgree, SecretsAgree, EntriesAgree, SkillAgrees
<1>6. QED
  BY <1>3, <1>4, <1>5 DEF Parts, OpParts

LEMMA ApplyParts == ASSUME Agreed, Types', Look \/ Apply PROVE Parts' /\ OpParts'
<1>1. op # Absent /\ op.phase = "apply" /\ op.phase \in Works /\ UNCHANGED <<links, conn, label, journal, notes, spent>>
  BY DEF Look, Apply, Phase, Works
<1>2. CASE Apply
  <2>1. StillIn(op.write.file, op.write.before)
    BY <1>1, <1>2, AgreedParts DEF Apply, Credited, Looked, Facing, Faced
  <2>2. QED
    BY <1>1, <1>2, <2>1, AppliedParts DEF Apply
<1>3. CASE Look /\ Rollback
  BY <1>1, <1>3, RollbackParts DEF Look
<1>4. CASE Look /\ ~Rollback
  BY <1>1, <1>4, SamePartsAgree DEF Look
<1>5. QED
  BY <1>2, <1>3, <1>4

\* The operation is over or dead, and the journal is what it was.
LEMMA EndParts ==
    ASSUME Agreed, Types', op' = Absent, UNCHANGED <<disk, links, conn, label, journal, touched>>
    PROVE  Parts' /\ OpParts'
<1>1. op' = Absent
  OBVIOUS
<1>2. ASSUME NEW q \in Products PROVE Book(q).committed \/ ToSet(Undoes(q)) \subseteq ToSet(Undoes(q)')
  <2>1. Undoes(q)' = Book(q).writes
    BY <1>1 DEF Undoes, Book
  <2>2. QED
    BY <2>1, UndoesKnown, AgreedParts
<1>3. Parts'
  BY <1>2, QuietParts
<1>4. QED
  BY <1>1, <1>3, RestIsQuiet DEF OpParts, Endings

LEMMA FailParts == ASSUME Agreed, Types', Fail \/ Crash PROVE Parts' /\ OpParts'
<1>1. UNCHANGED <<disk, links, conn, label, journal, touched>> /\ op # Absent
  BY DEF Fail, Crash
<1>2. CASE Fail
  <2>1. (op.phase \in Working /\ Rollback) \/ End
    BY <1>2 DEF Fail
  <2>2. CASE op.phase \in Working /\ Rollback
    <3>1. op.phase \in Works
      BY <2>2 DEF Working, Works, OnTarget
    <3>2. QED
      BY <1>1, <2>2, <3>1, RollbackParts
  <2>3. QED
    BY <1>1, <2>1, <2>2, EndParts DEF End
<1>3. CASE Crash
  BY <1>1, <1>3, EndParts DEF Crash, End
<1>4. QED
  BY <1>2, <1>3

LEMMA StartParts ==
    ASSUME Agreed, Types', NEW p \in Products, NEW k, NEW v, NEW todo, Start(p, k, v, todo)
    PROVE  Parts' /\ OpParts'
<1>1. /\ op = Absent /\ UNCHANGED <<disk, links, conn, label, journal, notes, touched>>
      /\ op'.phase = "recover" /\ op'.linked = {} /\ op'.removed = {}
  BY DEF Start
<1>2. \A q \in Products : Undoes(q)' = Book(q).writes /\ Undoes(q) = Book(q).writes
  BY <1>1 DEF Undoes, Book
<1>3. Parts'
  BY <1>1, <1>2, QuietParts
<1>4. op'.phase \notin Works
  BY <1>1 DEF Works, OnTarget
<1>5. Endings'
  BY <1>1 DEF Endings
<1>6. QED
  BY <1>3, <1>4, <1>5, RestIsQuiet DEF OpParts

LEMMA RecoverParts == ASSUME Agreed, Types', Recover PROVE Parts' /\ OpParts'
<1>1. op # Absent /\ op.phase = "recover" /\ UNCHANGED <<disk, links, conn, label, journal, notes, touched, spent>>
  BY DEF Recover, Phase
<1>2. PICK p, j : p = Me /\ j = journal[p]
  OBVIOUS
<1>3. \/ j = Absent /\ op' = [op EXCEPT !.phase = "plan"]
      \/ j # Absent /\ j.committed /\ op' = [op EXCEPT !.phase = "finish", !.left = {reg.cred : reg \in j.retired}]
      \/ j # Absent /\ ~j.committed /\ op' = [op EXCEPT !.phase = "undo", !.writes = j.writes]
  BY <1>2 DEF Recover, Goto
<1>4. op.writes = <<>> /\ op.linked = {} /\ op.removed = {} /\ p \in Products
  BY <1>1, <1>2, OwnBook, AgreedParts DEF Credited, OpBooks, Recovering, Endings
<1>5. /\ DOMAIN op' = DOMAIN op /\ op'.product = p /\ op'.linked = {} /\ op'.removed = {}
      /\ \/ j = Absent /\ op'.phase = "plan" /\ op'.writes = <<>>
         \/ j # Absent /\ j.committed /\ op'.phase = "finish"
         \/ j # Absent /\ op'.phase = "undo" /\ op'.writes = j.writes
  BY <1>1, <1>2, <1>3, <1>4, AgreedParts DEF Types, OpTypes, OpFields, Me
<1>6. op' # Absent
  BY <1>1, <1>5, OpIsThere, AgreedParts DEF Types
<1>7. ASSUME NEW q \in Products PROVE Book(q).committed \/ ToSet(Undoes(q)) \subseteq ToSet(Undoes(q)')
  <2>1. Undoes(q) = Book(q).writes
    BY <1>1, <1>2 DEF Undoes
  <2>2. CASE q # p
    BY <1>1, <1>5, <2>1, <2>2 DEF Undoes, Me, Book
  <2>3. CASE q = p
    <3>1. Undoes(q)' = op'.writes
      BY <1>5, <1>6, <2>3 DEF Undoes, Me
    <3>2. Book(q) = (IF j = Absent THEN EmptyJournal ELSE j)
      BY <1>2, <2>3 DEF Book
    <3>3. QED
      BY <1>5, <2>1, <3>1, <3>2 DEF EmptyJournal
  <2>4. QED
    BY <2>2, <2>3
<1>8. Parts'
  BY <1>1, <1>7, QuietParts
<1>9. op'.phase \notin Works
  BY <1>5 DEF Works, OnTarget
<1>10. Endings'
  BY <1>5 DEF Endings
<1>11. QED
  BY <1>8, <1>9, <1>10, RestIsQuiet DEF OpParts

\* Files that agree are what an undoing of an empty journal goes back to.
LEMMA WholeRestores ==
    ASSUME Types, NEW p \in Products, Book(p) = EmptyJournal, Undoes(p) = <<>>, Whole(p),
           NEW m, m = disk[Manifest(p)], NEW x, x = [t \in Targets |-> disk[Config(t)]]
    PROVE  /\ Restores(p, m, x) /\ m \in Tables \cup {Absent} /\ x \in [Targets -> Texts]
           /\ Regs(p) = Table(m) /\ LinksBack(p) = links[p]
<1>1. ToSet(Book(p).writes) = {} /\ ToSet(Undoes(p)) = {} /\ LinksBack(p) = links[p]
  BY DEF EmptyJournal, ToSet, LinksBack
<1>2. \A f, b : GoesBack(p, f, b) <=> disk[f] = b
  BY <1>1 DEF GoesBack
<1>3. m \in Tables \cup {Absent} /\ x \in [Targets -> Texts] /\ disk[Skill(p)] \in {Absent, <<"skill">>}
  BY FilesOf, FitsEach DEF Types, DiskTypes
<1>4. Regs(p) = Table(m)
  BY RegsTable
<1>5. GoesBack(p, Manifest(p), m)
  BY <1>2
<1>6. GoesBack(p, Skill(p), disk[Skill(p)]) /\ (Registered(Table(m)) # {} => disk[Skill(p)] # Absent)
  BY <1>2, <1>4 DEF Whole, Registered
<1>7. \A t \in Targets :
         /\ (Table(m)[t] # NoEntry) <=> (t \in LinksBack(p))
         /\ Table(m)[t] # NoEntry => GoesBack(p, Secret(Table(m)[t].cred), <<Table(m)[t].version>>)
         /\ <<p, t>> \notin touched => GoesBack(p, Config(t), x[t]) /\ x[t].entry[p] = Table(m)[t]
  BY <1>1, <1>2, <1>4 DEF Whole, EntryOf
<1>8. QED
  BY <1>1, <1>3, <1>4, <1>5, <1>6, <1>7 DEF Restores

LEMMA CommitParts == ASSUME Agreed, Types', Commit PROVE Parts' /\ OpParts'
<1>1. /\ op # Absent /\ op.phase = "commit" /\ Goto("cleanup")
      /\ UNCHANGED <<disk, links, conn, label, notes, touched, spent>>
  BY DEF Commit, Phase
<1>2. PICK p, r, j : /\ p = Me /\ r = op.regs
         /\ j = [MyJournal EXCEPT !.retired = op.retired, !.committed = TRUE,
                                  !.cleanup = IF NoneLeft THEN {<<Skill(Me), <<"skill">>>>} ELSE {}]
  OBVIOUS
<1>3. Save(j)
  BY <1>2 DEF Commit
<1>4. MyJournal \in Journals(p) /\ r \in Tables /\ op.phase \in Works \ {"apply"}
  BY <1>1, <1>2, MyJournalType, AgreedParts DEF Types, OpTypes, Works
<1>5. /\ DOMAIN j = DOMAIN MyJournal /\ j.writes = MyJournal.writes /\ j.committed
      /\ j.cleanup # {} => Registered(r) = {}
  BY <1>2, <1>4 DEF Journals, NoneLeft
<1>6. op' # Absent /\ op'.phase = "cleanup" /\ op'.product = p
  BY <1>1, <1>2, GoneTo, AgreedParts DEF Me
<1>7. /\ j = Book(p)' /\ p \in Products /\ OwnSecrets(p) /\ Book(p) = MyJournal
      /\ \A q \in Products \ {p} : Book(q)' = Book(q) /\ links'[q] = links[q]
  <2>1. p \in Products /\ OwnSecrets(p) /\ Book(p) = MyJournal
    BY <1>1, <1>2, <1>4, AtWorkFacts
  <2>2. links' = links
    BY <1>1
  <2>3. j = Book(p)' /\ \A q \in Products \ {p} : Book(q)' = Book(q) /\ links'[q] = links[q]
    BY <1>1, <1>2, <1>3, <1>5, <1>6, <2>2, NotedBook, AgreedParts
  <2>4. QED
    BY <2>1, <2>3
<1>8. ASSUME NEW q \in Products, q # p PROVE PartsAgree(q)'
  <2>1. Spared(q)
    BY <1>1, <1>2, <1>6, <1>7, <1>8, OthersSpared, AgreedParts
  <2>2. QED
    BY <1>8, <2>1, AgreedParts, PartsSpared DEF Parts
<1>9. Regs(p) = r
  <2>1. disk[Manifest(p)] = r
    BY <1>1, <1>2, <1>4, AgreedParts DEF Credited, OpBooks, WorkWrites
  <2>2. r # Absent \/ Targets = {}
    BY <1>4, TableIsThere
  <2>3. CASE r # Absent
    BY <2>1, <2>3 DEF Regs
  <2>4. CASE Targets = {}
    BY <1>4, <2>1, <2>4 DEF Regs, Tables, NoRegs
  <2>5. QED
    BY <2>2, <2>3, <2>4
<1>10. Whole(p)
  <2>1. /\ LinksAgree("commit", Todo, r, op.kind, links[p], MyJournal, op.linked, op.removed)
        /\ SecretsAgree("commit", Todo, r, op.version, op.cred, ToSet(MyJournal.writes), Shown)
        /\ EntriesAgree("commit", Todo, p, r, op.version, op.cred, touched, Shown)
        /\ SkillAgrees("commit", p, r, op.kind, Shown)
        /\ \A f \in Files : Shown[f] = disk[f]
    BY <1>1, <1>2, <1>4, AgreesNow
  <2>2. "commit" \notin OnTarget /\ "commit" \notin Halfway
    BY DEF OnTarget, Halfway, AfterLink
  <2>3. ASSUME NEW t \in Targets
        PROVE  /\ (r[t] # NoEntry) <=> (t \in links[p])
               /\ r[t] # NoEntry => disk[Secret(r[t].cred)] = <<r[t].version>> /\ disk[Skill(p)] # Absent
               /\ <<p, t>> \notin touched => EntryOf(p, t) = r[t]
    <3>1. (r[t] # NoEntry) <=> (t \in links[p])
      BY <2>1, <2>2 DEF LinksAgree
    <3>2. <<p, t>> \notin touched => EntryOf(p, t) = r[t]
      BY <2>1, <2>2, FilesOf DEF EntriesAgree, EntryOf
    <3>3. r[t] # NoEntry => Secret(r[t].cred) \in Files /\ Shown[Secret(r[t].cred)] = <<r[t].version>>
      BY <1>4, <2>1, FilesOf, TableCredsKnown, AgreedParts DEF SecretsAgree
    <3>4. r[t] # NoEntry => disk[Skill(p)] # Absent
      BY <1>7, <2>1, FilesOf DEF SkillAgrees, Registered
    <3>5. QED
      BY <2>1, <3>1, <3>2, <3>3, <3>4
  <2>4. QED
    BY <1>9, <2>3 DEF Whole
<1>11. PartsAgree(p)'
  <2>1. Regs(p)' = r /\ Whole(p)'
    BY <1>1, <1>9, <1>10 DEF Regs, Whole, EntryOf
  <2>2. OwnSecrets(p)'
    BY <1>1, <1>5, <1>7 DEF OwnSecrets, MadeFor
  <2>3. QED
    BY <1>5, <1>7, <2>1, <2>2 DEF PartsAgree
<1>12. op'.phase \notin Works /\ Endings'
  <2>1. Registered(r) = {} => j.cleanup # {}
    BY <1>2, <1>4 DEF Journals, NoneLeft
  <2>2. MyJournal' = j /\ op'.regs = r
    BY <1>1, <1>2, <1>6, <1>7, GoneTo, AgreedParts DEF MyJournal, Book, Me
  <2>3. NoneLeft' => Registered(r) = {}
    BY <2>2 DEF NoneLeft, Registered
  <2>4. QED
    BY <1>6, <2>1, <2>2, <2>3 DEF Works, OnTarget, Endings
<1>13. QED
  BY <1>8, <1>11, <1>12, RestIsQuiet DEF OpParts, Parts

LEMMA PlannedParts ==
    ASSUME Agreed, Types', Plan, ~Conflict(Me, op.kind, ToSet(op.todo)) PROVE Parts' /\ OpParts'
<1>1. /\ op # Absent /\ op.phase = "plan" /\ UNCHANGED <<disk, links, conn, label, journal, notes, touched, spent>>
      /\ op' = [op EXCEPT
                !.phase = IF op.kind = "uninstall" THEN "target" ELSE "skill",
                !.text = [t \in Targets |-> disk[Config(t)]],
                !.regs = Regs(Me), !.found = disk[Manifest(Me)],
                !.kept = {t \in ToSet(op.todo) : Kept(Me, t, op.kind)}]
  BY DEF Plan, Phase
<1>2. PICK p, m, x, r, k, v, c, l : /\ p = Me /\ m = disk[Manifest(p)] /\ x = [t \in Targets |-> disk[Config(t)]]
         /\ r = Regs(p) /\ k = op.kind /\ v = op.version /\ c = op.cred /\ l = links[p]
  OBVIOUS
<1>3. PICK s : s = IF k = "uninstall" THEN "target" ELSE "skill"
  OBVIOUS
<1>4. /\ DOMAIN op' = DOMAIN op /\ op'.product = p /\ op'.phase = s /\ op'.text = x /\ op'.regs = r /\ op'.found = m
      /\ op'.kind = k /\ op'.version = v /\ op'.cred = c /\ op'.writes = op.writes
      /\ op'.linked = op.linked /\ op'.removed = op.removed
  BY <1>1, <1>2, <1>3, AgreedParts DEF Types, OpTypes, OpFields, Me
<1>5. op' # Absent /\ s \in Works /\ s \notin OnTarget /\ s \notin AfterLink /\ s \notin Halfway
      /\ s \notin {"link", "makeLink", "dropLink", "refreshed", "newEntry", "registered", "refreshSecret", "apply", "recover"}
  BY <1>1, <1>3, <1>4, OpIsThere, AgreedParts DEF Types, Works, OnTarget, AfterLink, Halfway
<1>6. journal[p] = Absent /\ op.writes = <<>> /\ op.linked = {} /\ op.removed = {} /\ p \in Products
  BY <1>1, <1>2, OwnBook, AgreedParts DEF Credited, OpBooks, Recovering, Endings
<1>7. Book(p) = EmptyJournal /\ MyJournal' = EmptyJournal
  BY <1>1, <1>4, <1>6 DEF Book, MyJournal, Me
<1>8. Undoes(p) = <<>> /\ Undoes(p)' = <<>> /\ \A q \in Products \ {p} : Undoes(q)' = Undoes(q)
  BY <1>1, <1>2, <1>4, <1>5, <1>6 DEF Undoes, Me, Book
<1>9. Parts'
  BY <1>1, <1>8, QuietParts
<1>10. Whole(p)
  <2>1. Restorable(p)
    BY <1>6, <1>7, AgreedParts DEF Parts, PartsAgree, EmptyJournal
  <2>2. QED
    BY <1>6, <1>7, <1>8, <2>1, WholeIsRestorable, AgreedParts
<1>11. /\ Restores(p, m, x) /\ m \in Tables \cup {Absent} /\ x \in [Targets -> Texts]
       /\ r = Table(m) /\ LinksBack(p) = l
  BY <1>2, <1>6, <1>7, <1>8, <1>10, WholeRestores, AgreedParts
<1>12. AtWorkRestores'
  <2>1. Restores(p, m, x)'
    <3>1. Sound(p, m)
      BY <1>2, <1>6, AgreedParts DEF Credited, Books, BookSafe
    <3>2. /\ Book(p)' = Book(p) /\ LinksBack(p)' = LinksBack(p) /\ disk' = disk /\ touched' = touched
      BY <1>1 DEF LinksBack, Book
    <3>3. QED
      BY <1>6, <1>8, <1>11, <3>1, <3>2, RestoresKept
  <2>2. Me' = p
    BY <1>4 DEF Me
  <2>3. Restores(Me, op.found, op.text)'
    BY <1>4, <2>1, <2>2 DEF Restores
  <2>4. QED
    BY <2>3 DEF AtWorkRestores
<1>13. AtWorkAgrees'
  <2>1. PICK u, d, j : u = Todo' /\ d = Shown' /\ j = MyJournal'
    OBVIOUS
  <2>2. s = AtStep'
    BY <1>4, <1>5 DEF AtStep
  <2>3. \A f \in Files : d[f] = disk[f]
    BY <1>1, <1>4, <1>5, <2>1 DEF Shown
  <2>4. LinksAgree(s, u, r, k, l, j, op'.linked, op'.removed)
    BY <1>2, <1>4, <1>5, <1>6, <1>7, <1>10, <2>1 DEF LinksAgree, Whole, EmptyJournal
  <2>5. SecretsAgree(s, u, r, v, c, ToSet(j.writes), d)
    <3>1. ToSet(j.writes) = {}
      BY <1>7, <2>1 DEF EmptyJournal, ToSet
    <3>2. ASSUME NEW t \in Targets, r[t] # NoEntry PROVE d[Secret(r[t].cred)] = <<r[t].version>>
      <4>1. r \in Tables
        BY <1>11, TablesOf
      <4>2. Secret(r[t].cred) \in Files
        BY <3>2, <4>1, TableCredsKnown, FilesOf, AgreedParts
      <4>3. QED
        BY <1>2, <1>10, <2>3, <3>2, <4>2 DEF Whole
    <3>3. QED
      BY <1>5, <3>1, <3>2 DEF SecretsAgree
  <2>6. EntriesAgree(s, u, p, r, v, c, touched', d)
    <3>1. \A t \in Targets : <<p, t>> \in touched' \/ d[Config(t)].entry[p] = r[t]
      BY <1>1, <1>2, <1>10, <2>3, FilesOf DEF Whole, EntryOf
    <3>2. QED
      BY <1>5, <3>1 DEF EntriesAgree
  <2>7. SkillAgrees(s, p, r, k, d)
    <3>1. d[Skill(p)] = disk[Skill(p)]
      BY <1>6, <2>3, FilesOf
    <3>2. QED
      BY <1>2, <1>3, <1>10, <3>1 DEF SkillAgrees, Whole, Registered
  <2>8. k = "uninstall" => \A t \in Targets : r[t] \in {NoEntry, Table(op'.found)[t]}
    BY <1>4, <1>11
  <2>9. p = Me' /\ r = op'.regs /\ k = op'.kind /\ v = op'.version /\ c = op'.cred /\ l = links'[p] /\ journal'[p] = Absent
    BY <1>1, <1>2, <1>4, <1>6 DEF Me
  <2>10. QED
    BY <2>1, <2>2, <2>4, <2>5, <2>6, <2>7, <2>8, <2>9, AgreesNext
<1>14. QED
  BY <1>4, <1>5, <1>9, <1>12, <1>13, NotUndone DEF OpParts

LEMMA PlanParts == ASSUME Agreed, Types', Plan PROVE Parts' /\ OpParts'
<1>1. op # Absent /\ op.phase = "plan" /\ UNCHANGED <<disk, links, conn, label, journal, touched>>
  BY DEF Plan, Phase
<1>2. CASE Conflict(Me, op.kind, ToSet(op.todo))
  <2>1. Rollback
    BY <1>2 DEF Plan
  <2>2. QED
    BY <1>1, <2>1, RollbackParts
<1>3. QED
  BY <1>2, PlannedParts

\* The removal of what a committed operation no longer needs.
LEMMA RemovedParts ==
    ASSUME Agreed, Types', op # Absent, NEW p, p = Me, Book(p).committed, NEW pairs, RemoveIfUnchanged(pairs),
           NEW R, R \subseteq Book(p).retired, NEW y, NEW z,
           pairs \subseteq {<<Secret(reg.cred), <<reg.version>>>> : reg \in R}
                             \cup {<<Skill(p), y>>, <<Manifest(p), z>>},
           Registered(Regs(p)) # {} => pairs \subseteq {<<Secret(reg.cred), <<reg.version>>>> : reg \in R},
           UNCHANGED <<links, touched>>, op' = Absent \/ op'.product = p,
           \A q \in Products \ {p} : Book(q)' = Book(q),
           \A c \in Creds : conn[c] # "none" => label'[c] = label[c] /\ conn'[c] # "none"
    PROVE  /\ \A q \in Products \ {p} : PartsAgree(q)'
           /\ Whole(p)' /\ \A t \in Targets : Regs(p)'[t] = Regs(p)[t]
<1>1. p \in Products /\ BookSafe(p) /\ PartsAgree(p) /\ Types
  BY OwnBook, AgreedParts DEF Credited, Books, Parts
<1>2. \A c \in CredsIn(Book(p).retired) : MadeFor(p, c) /\ c \notin InManifest(p)
  BY <1>1 DEF BookSafe, FinishSafe
<1>3. CredsIn(R) \subseteq CredsIn(Book(p).retired) /\ CredsIn(Book(p).retired) \subseteq Creds
  <2>1. Book(p).retired \in SUBSET Registrations
    BY <1>1, BookTypes DEF Types, Journals
  <2>2. QED
    BY <2>1, RetiredCreds DEF CredsIn
<1>4. \A f \in Files : disk'[f] # disk[f] =>
        f \in {Manifest(p), Skill(p)} \/ \E c \in Creds : f = Secret(c) /\ MadeFor(p, c)
  <2>1. \A c \in CredsIn(R) : MadeFor(p, c)
    BY <1>2, <1>3
  <2>2. QED
    BY <1>1, <1>3, <2>1, RemoveSpares, AgreedParts
<1>5. ASSUME NEW q \in Products, q # p PROVE PartsAgree(q)'
  <2>1. Spared(q)
    BY <1>1, <1>4, <1>5, OthersSpared
  <2>2. QED
    BY <1>1, <1>5, <2>1, PartsSpared, AgreedParts DEF Parts
<1>6. disk[Manifest(p)] \in Tables \cup {Absent}
  BY <1>1, FilesOf, FitsEach DEF Types, DiskTypes
<1>7. DOMAIN disk = Files /\ disk' = [f \in Files |-> IF <<f, disk[f]>> \in pairs THEN Absent ELSE disk[f]]
  BY <1>1 DEF Types, DiskTypes, RemoveIfUnchanged
<1>8. ASSUME NEW t \in Targets PROVE disk'[Config(t)] = disk[Config(t)]
  <2>1. Config(t) \in Files /\ Config(t) \notin {Manifest(p), Skill(p)} /\ \A c \in Creds : Config(t) # Secret(c)
    BY FilesOf, FilesDiffer
  <2>2. QED
    BY <1>4, <2>1
<1>9. \A t \in Targets : Regs(p)'[t] = Regs(p)[t]
  <2>1. CASE Registered(Regs(p)) # {}
    <3>1. \A v : <<Manifest(p), v>> \notin pairs
      BY <2>1, FilesDiffer
    <3>2. disk'[Manifest(p)] = disk[Manifest(p)]
      BY <1>1, <1>7, <3>1, FilesOf
    <3>3. QED
      BY <3>2 DEF Regs
  <2>2. CASE Registered(Regs(p)) = {}
    <3>1. disk'[Manifest(p)] \in {Absent, disk[Manifest(p)]}
      BY <1>1, <1>7, FilesOf
    <3>2. \A t \in Targets : Regs(p)[t] = NoEntry /\ NoRegs[t] = NoEntry
      BY <2>2 DEF Registered, NoRegs
    <3>3. Regs(p)' \in {NoRegs, Regs(p)}
      BY <3>1 DEF Regs
    <3>4. QED
      BY <3>2, <3>3
  <2>3. QED
    BY <2>1, <2>2
<1>10. ASSUME NEW t \in Targets, Regs(p)[t] # NoEntry
       PROVE  disk'[Secret(Regs(p)[t].cred)] = disk[Secret(Regs(p)[t].cred)] /\ disk'[Skill(p)] = disk[Skill(p)]
  <2>1. Registered(Regs(p)) # {}
    BY <1>10 DEF Registered
  <2>2. Regs(p)[t].cred \in Creds /\ Regs(p)[t].cred \in InManifest(p)
    <3>1. PICK m : m = disk[Manifest(p)]
      OBVIOUS
    <3>2. Regs(p) = Table(m) /\ m \in Tables \cup {Absent}
      BY <1>6, <3>1, RegsTable
    <3>3. m # Absent /\ m[t] = Regs(p)[t] /\ m[t] \in Registrations /\ m[t] # NoEntry
      BY <1>10, <3>2, TablesOf
    <3>4. m[t].cred \in Creds /\ m[t].cred \in CredsOf(m)
      BY <3>3 DEF CredsOf, Registrations
    <3>5. QED
      BY <3>1, <3>3, <3>4 DEF InManifest
  <2>3. Regs(p)[t].cred \notin CredsIn(R)
    BY <1>2, <1>3, <2>2
  <2>4. \A v : <<Secret(Regs(p)[t].cred), v>> \notin pairs /\ <<Skill(p), v>> \notin pairs
    BY <2>1, <2>3, FilesDiffer DEF CredsIn
  <2>5. QED
    BY <1>1, <1>7, <2>2, <2>4, FilesOf
<1>11. Whole(p)
  BY <1>1 DEF PartsAgree
<1>12. Whole(p)'
  <2>1. ASSUME NEW t \in Targets
        PROVE  /\ (Regs(p)'[t] # NoEntry) <=> (t \in links'[p])
               /\ Regs(p)'[t] # NoEntry => /\ disk'[Secret(Regs(p)'[t].cred)] = <<Regs(p)'[t].version>>
                                           /\ disk'[Skill(p)] # Absent
               /\ <<p, t>> \notin touched' => EntryOf(p, t)' = Regs(p)'[t]
    <3>1. /\ (Regs(p)[t] # NoEntry) <=> (t \in links[p])
          /\ Regs(p)[t] # NoEntry => /\ disk[Secret(Regs(p)[t].cred)] = <<Regs(p)[t].version>>
                                     /\ disk[Skill(p)] # Absent
          /\ <<p, t>> \notin touched => EntryOf(p, t) = Regs(p)[t]
      BY <1>11 DEF Whole
    <3>2. EntryOf(p, t)' = EntryOf(p, t)
      BY <1>8 DEF EntryOf
    <3>3. QED
      BY <1>9, <1>10, <3>1, <3>2
  <2>2. QED
    BY <2>1 DEF Whole
<1>13. QED
  BY <1>5, <1>9, <1>12

\* A journal that is still there after such a removal.
LEMMA StillCommitted ==
    ASSUME NEW p, PartsAgree(p), Book(p).committed, Book(p)' = Book(p), Whole(p)',
           \A t \in Targets : Regs(p)'[t] = Regs(p)[t],
           \A c \in Creds : conn[c] # "none" => label'[c] = label[c] /\ conn'[c] # "none"
    PROVE  PartsAgree(p)'
BY DEF PartsAgree, OwnSecrets, MadeFor, Registered

LEMMA CleanupParts == ASSUME Agreed, Types', Cleanup PROVE Parts' /\ OpParts'
<1>1. /\ op # Absent /\ op.phase = "cleanup" /\ UNCHANGED <<links, conn, label, journal, notes, touched>>
      /\ op' = [op EXCEPT !.phase = "revoke", !.left = {reg.cred : reg \in op.retired}]
  BY DEF Cleanup, Phase
<1>2. PICK p : p = Me
  OBVIOUS
<1>3. /\ p \in Products /\ Book(p) = MyJournal /\ Book(p).committed /\ Book(p).retired = op.retired
  BY <1>1, <1>2, OwnBook, AgreedParts DEF Credited, OpBooks, Finishing
<1>4. PICK pairs : pairs \subseteq Leftovers /\ RemoveIfUnchanged(pairs)
  BY DEF Cleanup
<1>5. PICK R, y, z : R = op.retired /\ y = <<"skill">> /\ z = op.regs
  OBVIOUS
<1>6. /\ pairs \subseteq {<<Secret(reg.cred), <<reg.version>>>> : reg \in R}
                             \cup {<<Skill(p), y>>, <<Manifest(p), z>>}
      /\ Registered(Regs(p)) # {} => pairs \subseteq {<<Secret(reg.cred), <<reg.version>>>> : reg \in R}
  <2>1. Registered(Regs(p)) # {} => ~NoneLeft
    BY <1>1, <1>3, AgreedParts DEF Endings, Parts, PartsAgree
  <2>2. QED
    BY <1>2, <1>4, <1>5, <2>1 DEF Leftovers
<1>7. /\ DOMAIN op' = DOMAIN op /\ op'.product = p /\ op'.phase = "revoke"
  BY <1>1, <1>2, AgreedParts DEF Types, OpTypes, OpFields, Me
<1>8. /\ \A q \in Products : Book(q)' = Book(q)
      /\ \A c \in Creds : conn[c] # "none" => label'[c] = label[c] /\ conn'[c] # "none"
      /\ UNCHANGED <<links, touched>>
  BY <1>1 DEF Book
<1>9. /\ \A q \in Products \ {p} : PartsAgree(q)'
      /\ Whole(p)' /\ \A t \in Targets : Regs(p)'[t] = Regs(p)[t]
  BY <1>1, <1>2, <1>3, <1>4, <1>5, <1>6, <1>7, <1>8, RemovedParts
<1>10. PartsAgree(p)'
  BY <1>3, <1>8, <1>9, StillCommitted, AgreedParts DEF Parts
<1>11. MyJournal'.committed
  BY <1>1, <1>2, <1>3, <1>7 DEF MyJournal, Me, Book
<1>12. QED
  BY <1>7, <1>9, <1>10, <1>11, RestIsQuiet DEF OpParts, Parts, Endings, Works, OnTarget

LEMMA FinishOneParts == ASSUME Agreed, Types', FinishOne PROVE Parts' /\ OpParts'
<1>1. /\ op # Absent /\ op.phase = "finish" /\ UNCHANGED <<links, label, journal, notes, touched>>
  BY DEF FinishOne, Phase
<1>2. PICK p : p = Me
  OBVIOUS
<1>3. p \in Products /\ Book(p) = MyJournal /\ Book(p).committed
  BY <1>1, <1>2, OwnBook, AgreedParts DEF Credited, OpBooks, Finishing
<1>4. journal[p] # Absent /\ Book(p) = journal[p]
  BY <1>1, <1>2, AgreedParts DEF Types, OpKnows, Book
<1>5. PICK reg \in journal[p].retired :
        \/ /\ conn' = [conn EXCEPT ![reg.cred] = "revoked"]
           /\ RemoveIfUnchanged({<<Secret(reg.cred), <<reg.version>>>>})
           /\ op' = [op EXCEPT !.left = @ \ {reg.cred}]
        \/ /\ op' = [op EXCEPT !.left = @ \ {reg.cred}, !.failed = @ \cup {reg.cred}]
           /\ UNCHANGED <<disk, conn>>
  BY <1>2 DEF FinishOne
<1>6. /\ DOMAIN op' = DOMAIN op /\ op'.product = p /\ op'.phase = "finish"
      /\ op'.linked = {} /\ op'.removed = {}
  <2>1. op.linked = {} /\ op.removed = {}
    BY <1>1, AgreedParts DEF Endings
  <2>2. QED
    BY <1>1, <1>2, <1>5, <2>1, AgreedParts DEF Types, OpTypes, OpFields, Me
<1>7. /\ \A q \in Products : Book(q)' = Book(q)
      /\ \A c \in Creds : conn[c] # "none" => label'[c] = label[c] /\ conn'[c] # "none"
      /\ UNCHANGED <<links, touched>>
  BY <1>1, <1>5, AgreedParts DEF Book, Types, OtherTypes
<1>8. CASE UNCHANGED <<disk, conn>>
  <2>1. ASSUME NEW q \in Products PROVE Book(q).committed \/ ToSet(Undoes(q)) \subseteq ToSet(Undoes(q)')
    <3>1. CASE q = p
      BY <1>3, <3>1
    <3>2. CASE q # p
      BY <1>2, <1>6, <1>7, <3>2, <2>1 DEF Undoes, Me
    <3>3. QED
      BY <3>1, <3>2
  <2>2. Parts'
    BY <1>1, <1>7, <1>8, <2>1, QuietParts
  <2>3. QED
    BY <1>6, <2>2, RestIsQuiet DEF OpParts, Endings, Works, OnTarget
<1>9. CASE ~UNCHANGED <<disk, conn>>
  <2>1. PICK pairs : pairs = {<<Secret(reg.cred), <<reg.version>>>>} /\ RemoveIfUnchanged(pairs)
    BY <1>5, <1>9
  <2>2. PICK R, y, z : R = {reg} /\ y = Absent /\ z = Absent
    OBVIOUS
  <2>3. /\ R \subseteq Book(p).retired
        /\ pairs \subseteq {<<Secret(r.cred), <<r.version>>>> : r \in R}
        /\ pairs \subseteq {<<Secret(r.cred), <<r.version>>>> : r \in R} \cup {<<Skill(p), y>>, <<Manifest(p), z>>}
    BY <1>4, <1>5, <2>1, <2>2
  <2>4. /\ \A q \in Products \ {p} : PartsAgree(q)'
        /\ Whole(p)' /\ \A t \in Targets : Regs(p)'[t] = Regs(p)[t]
    BY <1>1, <1>2, <1>3, <1>6, <1>7, <2>1, <2>3, RemovedParts
  <2>5. PartsAgree(p)'
    BY <1>3, <1>7, <2>4, StillCommitted, AgreedParts DEF Parts
  <2>6. QED
    BY <1>6, <2>4, <2>5, RestIsQuiet DEF OpParts, Parts, Endings, Works, OnTarget
<1>10. QED
  BY <1>8, <1>9

\* Everything is given back and the links are: the files agree.
LEMMA UndoneIsWhole ==
    ASSUME NEW p \in Products, Restorable(p), ToSet(Undoes(p)) = {}, LinksBack(p) = links[p]
    PROVE  Whole(p)
<1>1. PICK m \in Tables \cup {Absent}, x \in [Targets -> Texts] : Restores(p, m, x)
  BY DEF Restorable
<1>2. \A f, b : GoesBack(p, f, b) => disk[f] = b
  BY DEF GoesBack
<1>3. Regs(p) = Table(m)
  BY <1>1, <1>2, RegsTable DEF Restores
<1>4. Registered(Table(m)) # {} => disk[Skill(p)] # Absent
  BY <1>1, <1>2 DEF Restores
<1>5. \A t \in Targets :
         /\ (Table(m)[t] # NoEntry) <=> (t \in links[p])
         /\ Table(m)[t] # NoEntry => disk[Secret(Table(m)[t].cred)] = <<Table(m)[t].version>>
         /\ <<p, t>> \notin touched => EntryOf(p, t) = Table(m)[t]
  <2> TAKE t \in Targets
  <2>1. /\ (Table(m)[t] # NoEntry) <=> (t \in links[p])
        /\ Table(m)[t] # NoEntry => GoesBack(p, Secret(Table(m)[t].cred), <<Table(m)[t].version>>)
        /\ <<p, t>> \notin touched => GoesBack(p, Config(t), x[t]) /\ x[t].entry[p] = Table(m)[t]
    BY <1>1 DEF Restores
  <2>2. QED
    BY <1>2, <2>1 DEF EntryOf
<1>6. QED
  BY <1>3, <1>4, <1>5 DEF Whole, Registered

\* A journal is removed when the files agree.
LEMMA ClearedParts ==
    ASSUME Agreed, Types', NEW p \in Products, Book(p)' = EmptyJournal, Undoes(p)' = <<>>, Whole(p)',
           \A q \in Products \ {p} : PartsAgree(q)'
    PROVE  Parts'
<1>1. (Types /\ p \in Products /\ Book(p) = EmptyJournal /\ Undoes(p) = <<>> => (Whole(p) <=> Restorable(p)))'
  BY WholeIsRestorable, PTL
<1>2. Restorable(p)'
  BY <1>1
<1>3. OwnSecrets(p)'
  BY DEF OwnSecrets, EmptyJournal, ToSet
<1>4. PartsAgree(p)'
  BY <1>2, <1>3 DEF PartsAgree, EmptyJournal
<1>5. QED
  BY <1>4 DEF Parts

LEMMA OthersAgree ==
    ASSUME Agreed, Types', op # Absent, NEW p, p = Me, op' = Absent \/ op'.product = p,
           UNCHANGED <<disk, touched>>, \A q \in Products \ {p} : Book(q)' = Book(q) /\ links'[q] = links[q],
           \A c \in Creds : conn[c] # "none" => label'[c] = label[c] /\ conn'[c] # "none"
    PROVE  \A q \in Products \ {p} : PartsAgree(q)'
<1>1. p \in Products
  BY OwnBook, AgreedParts
<1>2. ASSUME NEW q \in Products, q # p PROVE PartsAgree(q)'
  <2>1. Spared(q)
    BY <1>1, <1>2, OthersSpared, AgreedParts
  <2>2. QED
    BY <1>2, <2>1, PartsSpared, AgreedParts DEF Parts
<1>3. QED
  BY <1>2

LEMMA SameWhole ==
    ASSUME NEW p, Whole(p), UNCHANGED <<disk, links, touched>> PROVE Whole(p)'
BY DEF Whole, Regs, EntryOf

LEMMA RevokeParts == ASSUME Agreed, Types', Revoke \/ UndoIssued PROVE Parts' /\ OpParts'
<1>1. /\ op # Absent /\ op.phase \in {"revoke", "undoIssued"}
      /\ UNCHANGED <<disk, links, label, journal, touched>>
  BY DEF Revoke, UndoIssued, Phase
<1>2. PICK p, n : p = Me /\ n = op.phase
  OBVIOUS
<1>3. PICK c \in op.left : conn' = [conn EXCEPT ![c] = "revoked"] \/ UNCHANGED conn
  BY DEF Revoke, UndoIssued
<1>4. \A d \in Creds : conn[d] # "none" => label'[d] = label[d] /\ conn'[d] # "none"
  BY <1>1, <1>3, AgreedParts DEF Types, OtherTypes
<1>5. \/ End
      \/ \E d : \/ op' = [op EXCEPT !.left = @ \ {d}]
                \/ op' = [op EXCEPT !.left = @ \ {d}, !.failed = @ \cup {d}]
  BY DEF Revoke, UndoIssued
<1>6. CASE End
  <2>1. ASSUME NEW q \in Products PROVE Book(q).committed \/ ToSet(Undoes(q)) \subseteq ToSet(Undoes(q)')
    <3>1. Undoes(q)' = Book(q).writes
      BY <1>1, <1>6 DEF Undoes, Book, End
    <3>2. QED
      BY <3>1, UndoesKnown, AgreedParts
  <2>2. Parts'
    BY <1>1, <1>4, <2>1, QuietParts
  <2>3. QED
    BY <1>6, <2>2, RestIsQuiet DEF OpParts, Endings, End
<1>7. CASE ~End
  <2>1. /\ DOMAIN op' = DOMAIN op /\ op'.product = p /\ op'.phase = n /\ op'.writes = op.writes
        /\ op'.linked = op.linked /\ op'.removed = op.removed
    BY <1>1, <1>2, <1>5, <1>7, AgreedParts DEF Types, OpTypes, OpFields, Me
  <2>2. op' # Absent
    BY <1>1, <2>1, OpIsThere, AgreedParts DEF Types
  <2>3. \A q \in Products : Undoes(q)' = Undoes(q)
    BY <1>1, <1>2, <2>1, <2>2 DEF Undoes, Me, Book
  <2>4. Parts'
    BY <1>1, <1>4, <2>3, QuietParts
  <2>5. Endings'
    <3>1. MyJournal' = MyJournal /\ LinksBack(p)' = LinksBack(p) /\ Me' = p
      BY <1>1, <1>2, <2>1 DEF MyJournal, LinksBack, Book, Me
    <3>2. n = "undoIssued" \/ (n = "revoke" /\ ~MyJournal.committed) => links[p] = LinksBack(p)
      BY <1>1, <1>2, AgreedParts DEF Endings
    <3>3. n = "undoIssued" \/ (n = "revoke" /\ ~MyJournal'.committed) => links'[Me'] = LinksBack(Me)'
      BY <1>1, <3>1, <3>2 DEF LinksBack, Book
    <3>4. n = "undoIssued" => op'.linked = {} /\ op'.removed = {}
      BY <1>1, <1>2, <2>1, AgreedParts DEF Endings
    <3>5. QED
      BY <1>1, <1>2, <2>1, <3>3, <3>4 DEF Endings
  <2>6. QED
    BY <1>1, <1>2, <2>1, <2>4, <2>5, RestIsQuiet DEF OpParts, Works, OnTarget
<1>8. QED
  BY <1>6, <1>7

LEMMA DoneParts == ASSUME Agreed, Types', Done PROVE Parts' /\ OpParts'
<1>1. /\ op # Absent /\ op.phase = "revoke" /\ op' = Absent
      /\ UNCHANGED <<disk, links, conn, label, touched>>
  BY DEF Done, Phase, End
<1>2. CASE UNCHANGED journal
  BY <1>1, <1>2, EndParts
<1>3. CASE ~UNCHANGED journal
  <2>1. ClearJournal
    BY <1>3 DEF Done
  <2>2. PICK p : p = Me
    OBVIOUS
  <2>3. p \in Products /\ Book(p) = MyJournal /\ PartsAgree(p)
    BY <1>1, <2>2, OwnBook, AgreedParts DEF Parts
  <2>4. Book(p)' = EmptyJournal /\ \A q \in Products \ {p} : Book(q)' = Book(q)
    BY <1>1, <2>1, <2>2, ClearedBook, AgreedParts
  <2>5. Undoes(p)' = <<>>
    <3>1. Undoes(p)' = Book(p)'.writes
      BY <1>1 DEF Undoes
    <3>2. QED
      BY <2>4, <3>1 DEF EmptyJournal
  <2>6. Whole(p)
    <3>1. CASE Book(p).committed
      BY <2>3, <3>1 DEF PartsAgree
    <3>2. CASE ~Book(p).committed
      <4>1. op.writes = <<>> /\ links[p] = LinksBack(p)
        BY <1>1, <2>2, <2>3, <3>2, AgreedParts DEF Credited, OpBooks, Undoing, UndoesOwn, Endings
      <4>2. ToSet(Undoes(p)) = {}
        BY <1>1, <2>2, <4>1 DEF Undoes, ToSet
      <4>3. Restorable(p)
        BY <2>3, <3>2 DEF PartsAgree
      <4>4. QED
        BY <2>3, <4>1, <4>2, <4>3, UndoneIsWhole
    <3>3. QED
      BY <3>1, <3>2
  <2>7. Whole(p)'
    BY <1>1, <2>6, SameWhole
  <2>8. \A q \in Products \ {p} : PartsAgree(q)'
    BY <1>1, <2>2, <2>4, OthersAgree
  <2>9. Parts'
    BY <2>3, <2>4, <2>5, <2>7, <2>8, ClearedParts
  <2>10. QED
    BY <1>1, <2>9, RestIsQuiet DEF OpParts, Endings
<1>4. QED
  BY <1>2, <1>3

LEMMA RecoveredParts == ASSUME Agreed, Types', Finished \/ Undone PROVE Parts' /\ OpParts'
<1>1. /\ op # Absent /\ op.phase \in {"finish", "undoIssued"} /\ UNCHANGED <<links, conn, label, touched>>
  BY DEF Finished, Undone, Phase
<1>2. CASE End
  <2>1. UNCHANGED <<disk, journal>>
    <3>1. ~Recovered
      <4>1. SUFFICES ASSUME Recovered PROVE FALSE
        OBVIOUS
      <4>2. op' # Absent
        BY <1>1, <4>1, GoneTo, AgreedParts DEF Recovered
      <4>3. QED
        BY <1>2, <4>2 DEF End
    <3>2. QED
      BY <1>1, <3>1 DEF Finished, Undone
  <2>2. QED
    BY <1>1, <1>2, <2>1, EndParts DEF End
<1>3. CASE ~End
  <2>1. /\ ClearJournal /\ Goto("plan")
        /\ \/ op.phase = "undoIssued" /\ UNCHANGED disk
           \/ op.phase = "finish" /\ RemoveIfUnchanged(journal[Me].cleanup)
    BY <1>3 DEF Finished, Undone, Recovered, Phase
  <2>2. PICK p : p = Me
    OBVIOUS
  <2>3. p \in Products /\ Book(p) = MyJournal /\ PartsAgree(p)
    BY <1>1, <2>2, OwnBook, AgreedParts DEF Parts
  <2>4. Book(p)' = EmptyJournal /\ \A q \in Products \ {p} : Book(q)' = Book(q)
    BY <1>1, <2>1, <2>2, ClearedBook, AgreedParts
  <2>5. op' # Absent /\ op'.phase = "plan" /\ op'.product = p /\ op'.writes = op.writes
    BY <1>1, <2>1, <2>2, GoneTo, AgreedParts DEF Me
  <2>6. op.writes = <<>>
    BY <1>1, AgreedParts DEF Credited, OpBooks, Recovering, Undoing
  <2>7. Undoes(p)' = <<>>
    BY <2>5, <2>6 DEF Undoes, Me
  <2>8. Whole(p)' /\ \A q \in Products \ {p} : PartsAgree(q)'
    <3>1. CASE op.phase = "undoIssued"
      <4>1. ~Book(p).committed /\ links[p] = LinksBack(p)
        BY <1>1, <2>2, <2>3, <3>1, AgreedParts DEF Credited, OpBooks, Undoing, Endings
      <4>2. ToSet(Undoes(p)) = {}
        BY <1>1, <2>2, <2>6, <3>1 DEF Undoes, ToSet
      <4>3. Restorable(p)
        BY <2>3, <4>1 DEF PartsAgree
      <4>4. Whole(p)
        BY <2>3, <4>1, <4>2, <4>3, UndoneIsWhole
      <4>5. UNCHANGED <<disk, links, touched>>
        BY <1>1, <2>1, <3>1
      <4>6. \A c \in Creds : conn[c] # "none" => label'[c] = label[c] /\ conn'[c] # "none"
        BY <1>1
      <4>7. QED
        BY <1>1, <2>2, <2>4, <2>5, <4>4, <4>5, <4>6, SameWhole, OthersAgree
    <3>2. CASE op.phase = "finish"
      <4>1. Book(p).committed /\ journal[p] # Absent
        BY <1>1, <2>2, <2>3, <3>2, AgreedParts DEF Credited, OpBooks, Finishing, Types, OpKnows
      <4>2. PICK pairs, R, y, z : pairs = Book(p).cleanup /\ R = {} /\ y = <<"skill">> /\ z = Absent
        OBVIOUS
      <4>3. RemoveIfUnchanged(pairs)
        BY <2>1, <2>2, <3>2, <4>1, <4>2 DEF Book
      <4>4. /\ R \subseteq Book(p).retired
            /\ pairs \subseteq {<<Secret(reg.cred), <<reg.version>>>> : reg \in R}
                             \cup {<<Skill(p), y>>, <<Manifest(p), z>>}
            /\ Registered(Regs(p)) # {} => pairs \subseteq {<<Secret(reg.cred), <<reg.version>>>> : reg \in R}
        <5>1. Book(p).cleanup \subseteq {<<Skill(p), <<"skill">>>>}
          BY <2>3, BookTypes, AgreedParts DEF Types, Journals
        <5>2. Registered(Regs(p)) # {} => Book(p).cleanup = {}
          BY <2>3, <4>1 DEF PartsAgree
        <5>3. QED
          BY <4>2, <5>1, <5>2
      <4>5. \A c \in Creds : conn[c] # "none" => label'[c] = label[c] /\ conn'[c] # "none"
        BY <1>1
      <4>6. UNCHANGED <<links, touched>>
        BY <1>1
      <4>7. QED
        BY <1>1, <2>2, <2>4, <2>5, <4>1, <4>3, <4>4, <4>5, <4>6, RemovedParts
    <3>3. QED
      BY <1>1, <3>1, <3>2
  <2>9. Parts'
    BY <2>3, <2>4, <2>7, <2>8, ClearedParts
  <2>10. op'.linked = {} /\ op'.removed = {}
    <3>1. op.linked = {} /\ op.removed = {}
      BY <1>1, AgreedParts DEF Endings
    <3>2. QED
      BY <2>1, <3>1, AgreedParts DEF Goto, Types, OpTypes, OpFields
  <2>11. QED
    BY <2>5, <2>9, <2>10, RestIsQuiet DEF OpParts, Endings, Works, OnTarget
<1>4. QED
  BY <1>2, <1>3

\* Whatever each file goes back to, it still goes back to.
LEMMA StillRestores ==
    ASSUME NEW p \in Products, NEW m \in Tables \cup {Absent}, NEW x, Restores(p, m, x), Sound(p, m),
           \A f \in Files : \A b : GoesBack(p, f, b) => GoesBack(p, f, b)',
           LinksBack(p)' = LinksBack(p), touched \subseteq touched'
    PROVE  Restores(p, m, x)'
<1>1. GoesBack(p, Manifest(p), m)'
  BY FilesOf DEF Restores
<1>2. (\E s \in {Absent, <<"skill">>} :
          GoesBack(p, Skill(p), s) /\ (Registered(Table(m)) # {} => s # Absent))'
  <2>1. PICK s \in {Absent, <<"skill">>} :
            GoesBack(p, Skill(p), s) /\ (Registered(Table(m)) # {} => s # Absent)
    BY DEF Restores
  <2>2. GoesBack(p, Skill(p), s)'
    BY <2>1, FilesOf
  <2>3. QED
    BY <2>1, <2>2
<1>3. ASSUME NEW t \in Targets
      PROVE  /\ (Table(m)[t] # NoEntry) <=> (t \in LinksBack(p)')
             /\ Table(m)[t] # NoEntry => GoesBack(p, Secret(Table(m)[t].cred), <<Table(m)[t].version>>)'
             /\ <<p, t>> \notin touched' => GoesBack(p, Config(t), x[t])' /\ x[t].entry[p] = Table(m)[t]
  <2>1. /\ (Table(m)[t] # NoEntry) <=> (t \in LinksBack(p))
        /\ Table(m)[t] # NoEntry => GoesBack(p, Secret(Table(m)[t].cred), <<Table(m)[t].version>>)
        /\ <<p, t>> \notin touched => GoesBack(p, Config(t), x[t]) /\ x[t].entry[p] = Table(m)[t]
    BY DEF Restores
  <2>2. Table(m)[t] # NoEntry => Secret(Table(m)[t].cred) \in Files
    BY SoundTable, FilesOf
  <2>3. Table(m)[t] # NoEntry => GoesBack(p, Secret(Table(m)[t].cred), <<Table(m)[t].version>>)'
    BY <2>1, <2>2
  <2>4. <<p, t>> \notin touched' => GoesBack(p, Config(t), x[t])'
    BY <2>1, FilesOf
  <2>5. QED
    BY <2>1, <2>3, <2>4
<1>4. QED
  BY <1>1, <1>2, <1>3 DEF Restores

LEMMA TakenBackParts ==
    ASSUME Agreed, Types', NEW p, p = Me, NEW n, n = op.phase, op # Absent, NEW last, TakesBack(last),
           UNCHANGED <<links, conn, label, journal>>,
           (n = "undo" /\ last = "undoLinks") \/ (n = "rollback" /\ last = "rollbackLinks")
    PROVE  Parts' /\ OpParts'
<1>1. p = Me /\ n = op.phase
  OBVIOUS
<1>2. /\ op # Absent /\ n \in {"undo", "rollback"} /\ UNCHANGED <<links, conn, label, journal, notes>>
      /\ (n = "undo" /\ last = "undoLinks") \/ (n = "rollback" /\ last = "rollbackLinks")
  BY DEF TakesBack
<1>3. /\ p \in Products /\ Book(p) = MyJournal /\ PartsAgree(p) /\ ~Book(p).committed
      /\ ToSet(op.writes) \subseteq ToSet(Book(p).writes) /\ op.writes \in Seq(Writings(p))
  BY <1>1, <1>2, OwnBook, AgreedParts DEF Parts, Credited, OpBooks, Undoing, UndoesOwn, Types, OpTypes
<1>4. Undoes(p) = op.writes
  BY <1>1, <1>2 DEF Undoes
<1>5. \A q \in Products : Book(q)' = Book(q) /\ links'[q] = links[q] /\ LinksBack(q)' = LinksBack(q)
  BY <1>2 DEF Book, LinksBack
<1>6. /\ DOMAIN op' = DOMAIN op /\ op'.product = p /\ op'.linked = op.linked /\ op'.removed = op.removed
      /\ op'.phase \in {"undo", "undoLinks", "rollback", "rollbackLinks"}
      /\ (n = "undo" => op'.phase \in {"undo", "undoLinks"})
  BY <1>1, <1>2, AgreedParts DEF TakesBack, Types, OpTypes, OpFields, Me
<1>7. op' # Absent
  BY <1>2, <1>6, OpIsThere, AgreedParts DEF Types
<1>8. Undoes(p)' = op'.writes
  BY <1>6, <1>7 DEF Undoes, Me
<1>9. Endings'
  <2>1. Me' = p /\ links'[p] = links[p] /\ LinksBack(p)' = LinksBack(p)
    BY <1>3, <1>5, <1>6 DEF Me
  <2>2. n = "rollback" => LinksBack(p) = (links[p] \ op.linked) \cup op.removed
    BY <1>1, <1>2, AgreedParts DEF Endings
  <2>3. n = "undo" => op.linked = {} /\ op.removed = {}
    BY <1>1, <1>2, AgreedParts DEF Endings
  <2>4. op'.phase \in {"rollback", "rollbackLinks"} => n = "rollback"
    BY <1>2, <1>6
  <2>5. op'.phase \in {"undo", "undoLinks"} => n = "undo"
    BY <1>1, <1>2, AgreedParts DEF TakesBack, Types, OpTypes, OpFields
  <2>6. op'.phase \in {"rollback", "rollbackLinks"} => (LinksBack(Me) = (links[Me] \ op.linked) \cup op.removed)'
    BY <1>6, <2>1, <2>2, <2>4 DEF LinksBack, Book
  <2>7. QED
    BY <1>6, <2>3, <2>5, <2>6 DEF Endings
<1>10. CASE op.writes = <<>>
  <2>1. op'.writes = op.writes /\ UNCHANGED <<disk, touched>>
    BY <1>2, <1>10, AgreedParts DEF TakesBack, Types, OpTypes, OpFields
  <2>2. \A q \in Products : Undoes(q)' = Undoes(q)
    BY <1>1, <1>2, <1>4, <1>5, <1>6, <1>8, <2>1 DEF Undoes, Me
  <2>3. Parts'
    BY <1>2, <2>1, <2>2, QuietParts
  <2>4. QED
    BY <1>6, <1>9, <2>3, RestIsQuiet DEF OpParts, Works, OnTarget
<1>11. CASE op.writes # <<>>
  <2>1. PICK w : w = Written /\ w = Last(op.writes)
    BY DEF Written
  <2>2. /\ op'.writes = Front(op.writes)
        /\ \/ StillIn(w.file, w.after) /\ Put(w.file, w.before, {p})
           \/ disk[w.file] # w.after /\ UNCHANGED <<disk, touched>>
    BY <1>1, <1>2, <1>11, <2>1, AgreedParts DEF TakesBack, Types, OpTypes, OpFields
  <2>3. /\ w \in Writings(p) /\ w \in ToSet(op.writes)
        /\ \A y \in ToSet(op.writes) : y \in ToSet(op'.writes) \/ y = w
    BY <1>3, <1>11, <2>1, <2>2, LastOf
  <2>4. w \in ToSet(Book(p).writes)
    BY <1>3, <2>3
  <2>5. touched \subseteq touched'
    BY <2>2 DEF Put
  <2>6. ASSUME NEW q \in Products, q # p PROVE PartsAgree(q)'
    <3>1. CASE Put(w.file, w.before, {p}) /\ StillIn(w.file, w.after)
      <4>1. OwnSecrets(p) /\ touched \subseteq touched'
        BY <1>3, <2>5 DEF PartsAgree
      <4>2. \A f \in Files : disk'[f] # disk[f] =>
              \/ f \in {Manifest(p), Skill(p)}
              \/ \E c \in Creds : f = Secret(c) /\ MadeFor(p, c)
              \/ \E t \in Targets : /\ f = Config(t)
                                    /\ \/ <<q, t>> \in touched'
                                       \/ journal[q] = Absent /\ EntryOf(q, t)' = EntryOf(q, t)
        BY <1>1, <1>2, <1>3, <2>3, <2>4, <2>6, <3>1, <4>1, PutSpares, AgreedParts
      <4>3. Spared(q)
        BY <1>1, <1>2, <1>3, <1>5, <1>6, <2>5, <2>6, <4>2, OthersSpared, AgreedParts
      <4>4. QED
        BY <2>6, <4>3, PartsSpared, AgreedParts DEF Parts
    <3>2. CASE UNCHANGED <<disk, touched>>
      <4>1. \A y \in Products \ {p} : Book(y)' = Book(y) /\ links'[y] = links[y]
        BY <1>5
      <4>2. \A c \in Creds : conn[c] # "none" => label'[c] = label[c] /\ conn'[c] # "none"
        BY <1>2
      <4>3. QED
        BY <1>1, <1>2, <1>6, <2>6, <3>2, <4>1, <4>2, OthersAgree
    <3>3. QED
      BY <2>2, <3>1, <3>2
  <2>7. ASSUME NEW f \in Files, NEW b, GoesBack(p, f, b) PROVE GoesBack(p, f, b)'
    <3>1. \A y \in ToSet(Book(p)'.writes) : y.file = f => y.before = b
      BY <1>3, <1>5, <2>7 DEF GoesBack
    <3>2. disk[f] = b \/ \E y \in ToSet(op.writes) : y.file = f /\ disk[f] = y.after
      BY <1>4, <2>7 DEF GoesBack
    <3>3. disk'[f] = b \/ \E y \in ToSet(op'.writes) : y.file = f /\ disk'[f] = y.after
      <4>1. CASE Put(w.file, w.before, {p})
        <5>1. disk' = [disk EXCEPT ![w.file] = w.before] /\ DOMAIN disk = Files
          BY <4>1, AgreedParts DEF Put, Types, DiskTypes
        <5>2. CASE f = w.file
          <6>1. disk'[f] = w.before /\ w.before = b
            BY <1>3, <2>4, <2>7, <5>1, <5>2 DEF GoesBack
          <6>2. QED
            BY <6>1
        <5>3. CASE f # w.file
          <6>1. disk'[f] = disk[f]
            BY <5>1, <5>3
          <6>2. QED
            BY <2>3, <3>2, <5>3, <6>1
        <5>4. QED
          BY <5>2, <5>3
      <4>2. CASE UNCHANGED disk /\ (f # w.file \/ disk[f] # w.after)
        BY <2>3, <3>2, <4>2
      <4>3. QED
        BY <2>2, <4>1, <4>2
    <3>4. QED
      BY <1>8, <3>1, <3>3 DEF GoesBack
  <2>8. PartsAgree(p)'
    <3>1. PICK m \in Tables \cup {Absent}, x \in [Targets -> Texts] : Restores(p, m, x)
      BY <1>3 DEF PartsAgree, Restorable
    <3>2. Sound(p, m)
      BY <1>3, <3>1, BackSound, AgreedParts DEF Restores
    <3>3. Restores(p, m, x)'
      BY <1>3, <1>5, <2>5, <2>7, <3>1, <3>2, StillRestores
    <3>4. Restorable(p)'
      BY <3>3 DEF Restorable
    <3>5. OwnSecrets(p)'
      BY <1>2, <1>3, <1>5 DEF PartsAgree, OwnSecrets, MadeFor
    <3>6. QED
      BY <1>3, <1>5, <3>4, <3>5 DEF PartsAgree
  <2>9. Parts'
    BY <2>6, <2>8 DEF Parts
  <2>10. QED
    BY <1>6, <1>9, <2>9, RestIsQuiet DEF OpParts, Works, OnTarget
<1>12. QED
  BY <1>10, <1>11

LEMMA UndoneParts == ASSUME Agreed, Types', Undo \/ RollbackWrite PROVE Parts' /\ OpParts'
<1>1. /\ op # Absent /\ op.phase # "apply" /\ UNCHANGED <<links, conn, label, journal>>
      /\ \E last : /\ UndoWrite(last)
                   /\ (op.phase = "undo" /\ last = "undoLinks") \/ (op.phase = "rollback" /\ last = "rollbackLinks")
  BY DEF Undo, RollbackWrite, Phase
<1>2. PICK last : /\ UndoWrite(last)
                  /\ (op.phase = "undo" /\ last = "undoLinks") \/ (op.phase = "rollback" /\ last = "rollbackLinks")
  BY <1>1
<1>3. CASE End /\ UNCHANGED <<disk, touched>>
  BY <1>1, <1>3, EndParts DEF End
<1>4. CASE (\E s : op' = [op EXCEPT !.seen = s]) /\ UNCHANGED <<disk, touched>>
  BY <1>1, <1>4, SamePartsAgree
<1>5. CASE TakesBack(last)
  BY <1>1, <1>2, <1>5, TakenBackParts
<1>6. QED
  BY <1>1, <1>2, <1>3, <1>4, <1>5, UndoWriteSteps, AgreedParts DEF Credited

LEMMA UndoneLinksParts == ASSUME Agreed, Types', UndoLinks \/ RollbackLinks PROVE Parts' /\ OpParts'
<1>1. PICK p, n, l : p = Me /\ n = op.phase /\ l = links[p]
  OBVIOUS
<1>2. /\ op # Absent /\ n \in {"undoLinks", "rollbackLinks"}
      /\ UNCHANGED <<disk, conn, label, journal, notes, touched, spent>>
  BY <1>1 DEF UndoLinks, RollbackLinks, Phase
<1>3. /\ p \in Products /\ Book(p) = MyJournal /\ PartsAgree(p) /\ ~Book(p).committed
  BY <1>1, <1>2, OwnBook, AgreedParts DEF Parts, Credited, OpBooks, Undoing, UndoesOwn
<1>4. PICK b : b = LinksBack(p)
  OBVIOUS
<1>5. links' = [links EXCEPT ![p] = b]
  <2>1. CASE n = "undoLinks"
    <3>1. UndoLinks /\ journal[p] # Absent
      BY <1>1, <1>2, <2>1, AgreedParts DEF RollbackLinks, Phase, Types, OpKnows
    <3>2. QED
      BY <1>1, <1>4, <3>1 DEF UndoLinks, LinksBack, Book
  <2>2. CASE n = "rollbackLinks"
    <3>1. RollbackLinks
      BY <1>1, <2>2 DEF UndoLinks, Phase
    <3>2. b = (l \ op.linked) \cup op.removed
      BY <1>1, <1>2, <1>4, <2>2, AgreedParts DEF Endings
    <3>3. QED
      BY <1>1, <3>1, <3>2 DEF RollbackLinks
  <2>3. QED
    BY <1>2, <2>1, <2>2
<1>6. links'[p] = b /\ \A q \in Products \ {p} : links'[q] = links[q]
  BY <1>3, <1>5, AgreedParts DEF Types, OtherTypes
<1>7. /\ DOMAIN op' = DOMAIN op /\ op'.product = p /\ op'.writes = op.writes
      /\ op'.linked = op.linked /\ op'.removed = op.removed
      /\ op'.phase = (IF n = "undoLinks" THEN "undoIssued" ELSE "revoke")
  <2>1. CASE n = "undoLinks"
    <3>1. UndoLinks
      BY <1>1, <2>1 DEF RollbackLinks, UndoLinks, RollbackLinks, Phase
    <3>2. QED
      BY <1>1, <1>2, <2>1, <3>1, AgreedParts DEF UndoLinks, Types, OpTypes, OpFields, Me
  <2>2. CASE n = "rollbackLinks"
    <3>1. RollbackLinks
      BY <1>1, <2>2 DEF UndoLinks, Phase
    <3>2. QED
      BY <1>1, <1>2, <2>2, <3>1, AgreedParts DEF RollbackLinks, Types, OpTypes, OpFields, Me
  <2>3. QED
    BY <1>2, <2>1, <2>2
<1>8. op' # Absent
  BY <1>2, <1>7, OpIsThere, AgreedParts DEF Types
<1>9. \A q \in Products : Book(q)' = Book(q)
  BY <1>2 DEF Book
<1>10. LinksBack(p)' = b
  <2>1. b = (l \ Book(p).linked) \cup Book(p).removed
    BY <1>1, <1>4 DEF LinksBack
  <2>2. LinksBack(p)' = (b \ Book(p).linked) \cup Book(p).removed
    BY <1>3, <1>6, <1>9 DEF LinksBack
  <2>3. QED
    BY <2>1, <2>2
<1>11. Undoes(p)' = Undoes(p)
  BY <1>1, <1>2, <1>7, <1>8 DEF Undoes, Me
<1>12. \A c \in Creds : conn[c] # "none" => label'[c] = label[c] /\ conn'[c] # "none"
  BY <1>2
<1>13. \A q \in Products \ {p} : PartsAgree(q)'
  BY <1>1, <1>2, <1>6, <1>7, <1>9, <1>12, OthersAgree
<1>14. PartsAgree(p)'
  <2>1. PICK m \in Tables \cup {Absent}, x \in [Targets -> Texts] : Restores(p, m, x)
    BY <1>3 DEF PartsAgree, Restorable
  <2>2. Sound(p, m)
    BY <1>3, <2>1, BackSound, AgreedParts DEF Restores
  <2>3. Restores(p, m, x)'
    BY <1>2, <1>3, <1>4, <1>9, <1>10, <1>11, <2>1, <2>2, RestoresKept
  <2>4. Restorable(p)'
    BY <2>3 DEF Restorable
  <2>5. OwnSecrets(p)'
    BY <1>2, <1>3, <1>9 DEF PartsAgree, OwnSecrets, MadeFor
  <2>6. QED
    BY <1>3, <1>9, <2>4, <2>5 DEF PartsAgree
<1>15. Endings'
  <2>1. links'[Me'] = LinksBack(Me)'
    <3>1. Me' = p
      BY <1>7 DEF Me
    <3>2. QED
      BY <1>6, <1>10, <3>1 DEF LinksBack, Book
  <2>2. n = "undoLinks" => op'.linked = {} /\ op'.removed = {}
    BY <1>1, <1>2, <1>7, AgreedParts DEF Endings
  <2>3. QED
    BY <1>2, <1>7, <2>1, <2>2 DEF Endings
<1>16. QED
  BY <1>2, <1>7, <1>13, <1>14, <1>15, RestIsQuiet DEF OpParts, Parts, Works, OnTarget

\* What an edit leaves alone: every other file, and the entries of those who do not notice it.
LEMMA EditFacts ==
    ASSUME Agreed, NEW t \in Targets, UserEdit(t)
    PROVE  /\ UNCHANGED <<links, conn, label, journal, op, notes>> /\ touched \subseteq touched'
           /\ \A f \in Files : f # Config(t) => disk'[f] = disk[f]
           /\ \A q \in Products : journal[q] # Absent \/ (op # Absent /\ Me = q) => <<q, t>> \in touched'
           /\ \A q \in Products : <<q, t>> \notin touched' => EntryOf(q, t)' = EntryOf(q, t)
<1>1. UNCHANGED <<links, conn, label, journal, op, notes>>
  BY DEF UserEdit
<1>2. Config(t) \in Files /\ DOMAIN disk = Files /\ disk[Config(t)] \in Texts
  BY FilesOf, FitsEach, AgreedParts DEF Types, DiskTypes
<1>3. touched \cup Touches(Config(t), {}) \subseteq touched'
  BY DEF UserEdit, Put
<1>4. ASSUME NEW q \in Products, journal[q] # Absent \/ (op # Absent /\ Me = q) PROVE <<q, t>> \in touched'
  <2>1. <<q, t>> \in Touches(Config(t), {})
    BY <1>4 DEF Touches, Me
  <2>2. QED
    BY <1>3, <2>1
<1>5. CASE Put(Config(t), [disk[Config(t)] EXCEPT !.user = @ + 1], {})
  <2>1. disk' = [disk EXCEPT ![Config(t)] = [disk[Config(t)] EXCEPT !.user = @ + 1]]
    BY <1>5 DEF Put
  <2>2. \A f \in Files : f # Config(t) => disk'[f] = disk[f]
    BY <1>2, <2>1
  <2>3. disk'[Config(t)].entry = disk[Config(t)].entry
    BY <1>2, <2>1 DEF Texts
  <2>4. QED
    BY <1>1, <1>3, <1>4, <2>2, <2>3 DEF EntryOf
<1>6. ASSUME NEW p \in Products, NEW e, disk' = [disk EXCEPT ![Config(t)].entry[p] = e],
             touched' = touched \cup {<<p, t>>} \cup Touches(Config(t), {})
      PROVE  /\ \A f \in Files : f # Config(t) => disk'[f] = disk[f]
             /\ \A q \in Products : <<q, t>> \notin touched' => EntryOf(q, t)' = EntryOf(q, t)
  <2>1. disk' = [disk EXCEPT ![Config(t)] = [disk[Config(t)] EXCEPT !.entry[p] = e]]
    BY <1>2, <1>6
  <2>2. \A f \in Files : f # Config(t) => disk'[f] = disk[f]
    BY <1>2, <2>1
  <2>3. disk'[Config(t)] = [disk[Config(t)] EXCEPT !.entry[p] = e]
    BY <1>2, <2>1
  <2>4. \A q \in Products : q # p => disk'[Config(t)].entry[q] = disk[Config(t)].entry[q]
    BY <1>2, <2>3 DEF Texts
  <2>5. <<p, t>> \in touched'
    BY <1>6
  <2>6. QED
    BY <2>2, <2>4, <2>5 DEF EntryOf
<1>7. QED
  BY <1>1, <1>3, <1>4, <1>5, <1>6 DEF UserEdit

\* The credential files hold the same.
LEMMA SecretsSame ==
    ASSUME NEW n, NEW u, NEW r, NEW v, NEW c, NEW ws, NEW d, NEW x, SecretsAgree(n, u, r, v, c, ws, d),
           \A b \in Creds : x[Secret(b)] = d[Secret(b)],
           \A y \in Targets : r[y] # NoEntry => r[y].cred \in Creds,
           n = "refreshed" => u \in Targets /\ r[u] # NoEntry,
           n \in {"newEntry", "registered"} => c \in Creds
    PROVE  SecretsAgree(n, u, r, v, c, ws, x)
BY DEF SecretsAgree

LEMMA EditParts == ASSUME Agreed, Types', NEW t \in Targets, UserEdit(t) PROVE Parts' /\ OpParts'
<1>1. /\ UNCHANGED <<links, conn, label, journal, op, notes>> /\ touched \subseteq touched'
      /\ \A f \in Files : f # Config(t) => disk'[f] = disk[f]
      /\ \A q \in Products : journal[q] # Absent \/ (op # Absent /\ Me = q) => <<q, t>> \in touched'
      /\ \A q \in Products : <<q, t>> \notin touched' => EntryOf(q, t)' = EntryOf(q, t)
  BY EditFacts
<1>2. \A q \in Products : Book(q)' = Book(q) /\ Undoes(q)' = Undoes(q) /\ LinksBack(q)' = LinksBack(q)
  BY <1>1 DEF Book, Undoes, LinksBack, Me
<1>3. \A q \in Products : disk'[Manifest(q)] = disk[Manifest(q)] /\ disk'[Skill(q)] = disk[Skill(q)]
  BY <1>1, FilesOf, FilesDiffer
<1>4. \A c \in Creds : disk'[Secret(c)] = disk[Secret(c)]
  BY <1>1, FilesOf, FilesDiffer
<1>5. \A u \in Targets : u # t => disk'[Config(u)] = disk[Config(u)]
  BY <1>1, FilesOf, FilesDiffer
<1>6. ASSUME NEW q \in Products PROVE PartsAgree(q)'
  <2>1. ASSUME NEW u \in Targets, <<q, u>> \notin touched'
        PROVE  /\ EntryOf(q, u)' = EntryOf(q, u)
               /\ disk'[Config(u)] = disk[Config(u)] \/ (Book(q) = EmptyJournal /\ Undoes(q)' = <<>>)
    <3>1. CASE u # t
      BY <1>5, <3>1 DEF EntryOf
    <3>2. CASE u = t
      <4>1. journal[q] = Absent /\ ~(op # Absent /\ Me = q)
        BY <1>1, <2>1, <3>2
      <4>2. Book(q) = EmptyJournal /\ Undoes(q) = Book(q).writes
        BY <4>1 DEF Book, Undoes
      <4>3. Undoes(q)' = <<>>
        BY <1>2, <4>2 DEF EmptyJournal
      <4>4. QED
        BY <1>1, <2>1, <3>2, <4>2, <4>3
    <3>3. QED
      BY <3>1, <3>2
  <2>2. Spared(q)
    BY <1>1, <1>2, <1>3, <1>4, <2>1 DEF Spared
  <2>3. QED
    BY <2>2, PartsSpared, AgreedParts DEF Parts
<1>7. Endings'
  BY <1>1, AgreedParts DEF Endings, LinksBack, Book, Me, MyJournal, NoneLeft
<1>8. CASE op = Absent \/ op.phase \notin Works
  BY <1>1, <1>6, <1>7, <1>8, RestIsQuiet DEF OpParts, Parts
<1>9. CASE op # Absent /\ op.phase \in Works
  <2>1. PICK p, m, x : p = Me /\ m = op.found /\ x = op.text
    OBVIOUS
  <2>2. /\ p \in Products /\ m \in Tables \cup {Absent} /\ Sound(p, m) /\ Restores(p, m, x)
    BY <1>9, <2>1, AtWorkFacts
  <2>3. <<p, t>> \in touched'
    BY <1>1, <1>9, <2>1, <2>2
  <2>4. \A u \in Targets : <<p, u>> \notin touched' => disk'[Config(u)] = disk[Config(u)]
    BY <1>5, <2>3
  <2>5. Restores(p, m, x)'
    BY <1>1, <1>2, <1>3, <1>4, <2>2, <2>4, RestoresKept
  <2>6. Me' = p /\ op'.found = m /\ op'.text = x
    BY <1>1, <2>1 DEF Me
  <2>7. AtWorkRestores'
    <3>1. Restores(Me, op.found, op.text)'
      BY <2>5, <2>6 DEF Restores
    <3>2. QED
      BY <3>1 DEF AtWorkRestores
  <2>8. PICK n, u, r, k, v, c, l, j, d, e :
          /\ n = AtStep /\ u = Todo /\ r = op.regs /\ k = op.kind /\ v = op.version /\ c = op.cred
          /\ l = links[p] /\ j = MyJournal /\ d = Shown /\ e = Shown'
    OBVIOUS
  <2>9. /\ LinksAgree(n, u, r, k, l, j, op.linked, op.removed)
        /\ SecretsAgree(n, u, r, v, c, ToSet(j.writes), d)
        /\ EntriesAgree(n, u, p, r, v, c, touched, d) /\ SkillAgrees(n, p, r, k, d)
        /\ k = "uninstall" => \A y \in Targets : r[y] \in {NoEntry, Table(op.found)[y]}
        /\ op.phase = "skill" => journal[p] = Absent
    BY <1>9, <2>1, <2>8, AgreedParts DEF AtWorkAgrees
  <2>10. n = AtStep' /\ u = Todo' /\ l = links'[p] /\ j = MyJournal' /\ r = op'.regs /\ k = op'.kind
    BY <1>1, <2>1, <2>8 DEF AtStep, Todo, MyJournal, Me
  <2>11. \A f \in Files : f # Config(t) => e[f] = d[f]
    <3>1. \A f \in Files : d[f] = IF op.phase = "apply" /\ op.write.file = f THEN op.write.after ELSE disk[f]
      BY <2>8 DEF Shown
    <3>2. \A f \in Files : e[f] = IF op'.phase = "apply" /\ op'.write.file = f THEN op'.write.after ELSE disk'[f]
      BY <2>8 DEF Shown
    <3>3. QED
      BY <1>1, <3>1, <3>2
  <2>12. /\ \A b \in Creds : e[Secret(b)] = d[Secret(b)]
         /\ e[Skill(p)] = d[Skill(p)]
         /\ \A y \in Targets : <<p, y>> \notin touched' => e[Config(y)] = d[Config(y)]
    <3>1. \A b \in Creds : e[Secret(b)] = d[Secret(b)]
      BY <2>11, FilesOf, FilesDiffer
    <3>2. e[Skill(p)] = d[Skill(p)]
      BY <2>2, <2>11, FilesOf, FilesDiffer
    <3>3. ASSUME NEW y \in Targets, <<p, y>> \notin touched' PROVE e[Config(y)] = d[Config(y)]
      <4>1. Config(y) # Config(t)
        BY <2>3, <3>3, FilesDiffer
      <4>2. QED
        BY <2>11, <4>1, FilesOf
    <3>4. QED
      BY <3>1, <3>2, <3>3
  <2>13. SecretsAgree(n, u, r, v, c, ToSet(j.writes), e)
    <3>1. r \in Tables /\ op.kept \subseteq Targets
      BY <1>9, <2>8, AgreedParts DEF Types, OpTypes
    <3>2. \A y \in Targets : r[y] # NoEntry => r[y].cred \in Creds
      BY <3>1, TableCredsKnown, AgreedParts
    <3>3. n = "refreshed" => u \in Targets /\ r[u] # NoEntry
      <4>1. n = "refreshed" => IsOn("refreshed")
        BY <2>8 DEF AtStep, IsOn
      <4>2. n = "refreshed" => u \in op.kept
        BY <1>9, <2>8, <4>1, AgreedParts DEF Types, OpKnows
      <4>3. QED
        BY <1>9, <2>8, <3>1, <4>2, AgreedParts DEF Types, OpKnows
    <3>4. n \in {"newEntry", "registered"} => c \in Creds
      <4>1. n \in {"newEntry", "registered"} => IsOn(n)
        BY <2>8 DEF AtStep, IsOn
      <4>2. QED
        BY <1>9, <2>8, <4>1, AgreedParts DEF Types, OpKnows
    <3>5. QED
      BY <2>9, <2>12, <3>2, <3>3, <3>4, SecretsSame
  <2>14. EntriesAgree(n, u, p, r, v, c, touched', e)
    <3>1. n \in Halfway => u \in Targets
      <4>1. \A step \in Halfway : step \in OnTarget
        BY DEF Halfway, AfterLink, OnTarget
      <4>2. n \in Halfway => IsOn(n)
        BY <2>8 DEF AtStep, IsOn
      <4>3. n \in Halfway => op.todo # <<>> /\ op.todo \in Seq(Targets)
        BY <1>9, <4>1, <4>2, AgreedParts DEF Types, OpTypes, OpKnows
      <4>4. QED
        BY <2>8, <4>3 DEF Todo
    <3>2. \A y \in Targets : (n \in Halfway /\ y = u) \/ <<p, y>> \in touched' \/ e[Config(y)].entry[p] = r[y]
      BY <1>1, <2>9, <2>12 DEF EntriesAgree
    <3>3. n \in Halfway /\ <<p, u>> \notin touched' => <<p, u>> \notin touched /\ e[Config(u)] = d[Config(u)]
      BY <1>1, <2>12, <3>1
    <3>4. QED
      BY <2>9, <3>2, <3>3 DEF EntriesAgree
  <2>15. SkillAgrees(n, p, r, k, e)
    BY <2>9, <2>12 DEF SkillAgrees
  <2>16. AtWorkAgrees'
    BY <1>1, <2>6, <2>8, <2>9, <2>10, <2>13, <2>14, <2>15, AgreesNext
  <2>17. QED
    BY <1>6, <1>7, <2>7, <2>16 DEF OpParts, Parts
<1>10. QED
  BY <1>8, <1>9

-----------------------------------------------------------------------------
(* The inductive invariant                                                 *)

LEMMA InitAgreed == AgentInit => Agreed
<1> SUFFICES ASSUME AgentInit PROVE Agreed
  OBVIOUS
<1>1. Credited /\ op = Absent
  BY InitCredited DEF AgentInit
<1>2. ASSUME NEW p \in Products PROVE PartsAgree(p)
  <2>1. Book(p) = EmptyJournal /\ Undoes(p) = Book(p).writes
    BY <1>1 DEF Book, Undoes, AgentInit
  <2>2. ~Book(p).committed /\ Book(p).writes = <<>> /\ Undoes(p) = <<>>
    BY <2>1 DEF EmptyJournal
  <2>3. disk[Manifest(p)] = Absent /\ links[p] = {} /\ \A t \in Targets : disk[Config(t)] = NoText
    BY FilesOf, FilesDiffer DEF AgentInit
  <2>4. Whole(p)
    BY <2>3 DEF Whole, Regs, NoRegs, EntryOf, NoText
  <2>5. Restorable(p)
    BY <1>1, <2>1, <2>2, <2>4, WholeIsRestorable DEF Credited
  <2>6. OwnSecrets(p)
    BY <2>2 DEF OwnSecrets, ToSet
  <2>7. QED
    BY <2>2, <2>5, <2>6 DEF PartsAgree
<1>3. OpParts
  BY <1>1 DEF OpParts, AtWorkRestores, AtWorkAgrees, Endings
<1>4. QED
  BY <1>1, <1>2, <1>3 DEF Agreed, Parts

LEMMA NextAgreed == Agreed /\ [AgentNext]_agentVars => Agreed'
<1> SUFFICES ASSUME Agreed, [AgentNext]_agentVars PROVE Agreed'
  OBVIOUS
<1>1. Credited' /\ Types'
  BY NextCredited, AgreedParts DEF Credited
<1> SUFFICES Parts' /\ OpParts'
  BY <1>1 DEF Agreed
<1>2. CASE UNCHANGED agentVars
  BY <1>2, SamePartsAgree DEF agentVars
<1>3. CASE \E p \in Products, r \in Commands : Start(p, r.kind, r.version, r.todo)
  BY <1>1, <1>3, StartParts
<1>4. CASE Recovery
  BY <1>1, <1>4, RecoverParts, FinishOneParts, RecoveredParts, UndoneParts, UndoneLinksParts,
     RevokeParts DEF Recovery
<1>5. CASE Plan \/ Target \/ Look \/ Apply
  BY <1>1, <1>5, PlanParts, TargetParts, ApplyParts
<1>6. CASE Install
  BY <1>1, <1>6, SkillWrittenParts, LinkParts, LinkMadeParts, EntriesParts, RefreshSecretParts,
     NextParts, IssueParts, WriteSecretParts DEF Install
<1>7. CASE Uninstall
  BY <1>1, <1>7, EntriesParts, LinkParts, LinkMadeParts, NextParts DEF Uninstall
<1>8. CASE Ending
  BY <1>1, <1>8, ManifestWrittenParts, CommitParts, CleanupParts, RevokeParts, DoneParts,
     UndoneParts, UndoneLinksParts DEF Ending
<1>9. CASE Fail \/ Crash \/ \E t \in Targets : UserEdit(t)
  BY <1>1, <1>9, FailParts, EditParts
<1>10. QED
  BY <1>2, <1>3, <1>4, <1>5, <1>6, <1>7, <1>8, <1>9 DEF AgentNext

LEMMA AlwaysAgreed == AgentSpec => []Agreed
BY InitAgreed, NextAgreed, PTL DEF AgentSpec

\* Once no operation and no journal of a product is left, manifest, entry, credential file, skill and
\* link of every registration say the same: what was interrupted is either all there or all undone.
THEOREM RegistrationsAreWhole == AgentSpec => []AllOrNothing
<1>1. Agreed => AllOrNothing
  <2> SUFFICES ASSUME Agreed, NEW p \in Products, NEW t \in Targets, Settled(p), <<p, t>> \notin touched
               PROVE  Consistent(p, t)
    BY DEF AllOrNothing
  <2>1. Book(p) = EmptyJournal /\ Undoes(p) = Book(p).writes
    BY DEF Settled, Book, Undoes
  <2>2. ~Book(p).committed /\ Undoes(p) = <<>>
    BY <2>1 DEF EmptyJournal
  <2>3. Whole(p)
    BY <2>1, <2>2, WholeIsRestorable, AgreedParts DEF Parts, PartsAgree
  <2>4. QED
    BY <2>3 DEF Whole, Consistent
<1>2. QED
  BY <1>1, AlwaysAgreed, PTL
=============================================================================
