--------------------------- MODULE AgentIntegration ---------------------------
(***************************************************************************)
(* Installing Aevra in the configuration of local coding agents, and       *)
(* removing it (manageAgent, its journal and its recovery).                *)
(*                                                                         *)
(* Two products share the configuration files of the agents and one lock,  *)
(* so one operation runs at a time; how exclusive the lock is, is the      *)
(* subject of IntegrationLock.  Each product has a manifest of what it     *)
(* registered, a skill folder with links to it, a file with the credential *)
(* of every registration, and a journal that it saves before each change.  *)
(* A step of the model is what the code does up to its next file or        *)
(* credential call, so a crash, a failure or an edit by the user falls     *)
(* between any two of them, also between the last look at a file and its   *)
(* replacement or removal.                                                 *)
(***************************************************************************)
EXTENDS Naturals, FiniteSets, SequencesExt

CONSTANTS Products,   \* aevra and aevra-browser
          Targets,    \* agents, each with a configuration file of its own
          Commands,   \* installs, installs with the other transport (replace), uninstalls
          MaxCreds,   \* credentials issued
          MaxOps,     \* operations started
          MaxCrashes, \* processes that die in an operation
          MaxFaults,  \* file or credential calls that fail
          MaxEdits    \* changes the user makes to a configuration file

ASSUME Sizes == MaxCreds \in Nat /\ MaxOps \in Nat /\ MaxCrashes \in Nat /\ MaxFaults \in Nat
                /\ MaxEdits \in Nat
ASSUME CommandsAssumption ==
    \A r \in Commands : /\ r.kind \in {"install", "replace", "uninstall"} /\ r.version \in Nat
                         /\ r.todo \in Seq(Targets)

Creds == 1..MaxCreds
None == 0
Absent == <<>>   \* no file, no journal, no operation

Config(t) == <<"config", t>>
Secret(c) == <<"secret", c>>
Manifest(p) == <<"manifest", p>>
Skill(p) == <<"skill", p>>
Files == {Config(t) : t \in Targets} \cup {Secret(c) : c \in Creds}
         \cup {Manifest(p) : p \in Products} \cup {Skill(p) : p \in Products}

\* An entry names its credential and the version it was written with; the user may edit it.
Entry(c, v) == [cred |-> c, version |-> v, edited |-> FALSE]
NoEntry == Entry(None, None)
NoText == [entry |-> [p \in Products |-> NoEntry], user |-> 0]
NoRegs == [t \in Targets |-> NoEntry]

VARIABLES
    disk,     \* what each file holds
    links,    \* the agents whose skill folder links to the skill of each product
    conn,     \* each credential: "none", "live" or "revoked"
    label,    \* the registration each credential was created for
    journal,  \* the journal file of each product
    op,       \* the operation that holds the lock
    notes,    \* credentials a recovery warns about: not yet returned, told, or lost with the operation
    touched,  \* registrations whose file somebody else changed under an operation
    spent     \* operations, crashes, faults and edits so far

agentVars == <<disk, links, conn, label, journal, op, notes, touched, spent>>

EmptyJournal == [writes |-> <<>>, linked |-> {}, removed |-> {}, issued |-> {}, issuing |-> {},
                 retired |-> {}, cleanup |-> {}, committed |-> FALSE]

AgentInit ==
    /\ disk = [f \in Files |-> IF \E t \in Targets : f = Config(t) THEN NoText ELSE Absent]
    /\ links = [p \in Products |-> {}]
    /\ conn = [c \in Creds |-> "none"] /\ label = [c \in Creds |-> Absent]
    /\ journal = [p \in Products |-> Absent] /\ op = Absent
    /\ notes = [pending |-> {}, told |-> {}, lost |-> {}] /\ touched = {}
    /\ spent = [ops |-> 0, crashes |-> 0, faults |-> 0, edits |-> 0]

-----------------------------------------------------------------------------
(* Reading.                                                                *)

Regs(p) == IF disk[Manifest(p)] = Absent THEN NoRegs ELSE disk[Manifest(p)]
Registered(regs) == {t \in Targets : regs[t] # NoEntry}
EntryOf(p, t) == disk[Config(t)].entry[p]

\* planOne: an install refuses an entry or a credential file that is not what the manifest
\* recorded, checkSkill a skill the manifest does not know.
Conflict(p, kind, chosen) ==
    \/ /\ disk[Skill(p)] # Absent /\ disk[Manifest(p)] = Absent
       /\ kind # "uninstall" \/ chosen \cap Registered(Regs(p)) # {}
    \/ /\ kind # "uninstall"
       /\ \E t \in chosen :
            LET reg == Regs(p)[t] IN
            \/ EntryOf(p, t) \notin {NoEntry, reg}
            \/ reg # NoEntry /\ disk[Secret(reg.cred)] \notin {Absent, <<reg.version>>}

\* plannedChange and refreshPlan: an entry that is there with its credential is kept, rewritten
\* when the launcher or the endpoint changed; anything else takes a new credential.
Kept(p, t, kind) ==
    /\ kind = "install" /\ EntryOf(p, t) # NoEntry
    /\ disk[Secret(Regs(p)[t].cred)] # Absent

Phase(s) == op # Absent /\ op.phase = s
Me == op.product
Todo == op.todo[1]
Goto(s) == op' = [op EXCEPT !.phase = s]
MyJournal == IF journal[Me] = Absent THEN EmptyJournal ELSE journal[Me]
Save(j) == journal' = [journal EXCEPT ![Me] = j]
ClearJournal == Save(Absent)
Returns(outcome) ==
    notes' = [notes EXCEPT ![outcome] = @ \cup notes.pending, !.pending = {}]
\* The notes of a recovery are a local of the operation: one that fails or dies takes them along.
End == op' = Absent /\ Returns("lost")
Spend(what) == spent' = [spent EXCEPT ![what] = @ + 1]
MayFail == spent.faults < MaxFaults

\* Everybody else whose journal is on disk loses sight of a file that is changed under it.
Touches(file, by) ==
    {pt \in (Products \ by) \X Targets :
        /\ file = Config(pt[2])
        /\ journal[pt[1]] # Absent \/ (op # Absent /\ op.product = pt[1])}
Put(file, content, by) ==
    /\ disk' = [disk EXCEPT ![file] = content]
    /\ touched' = touched \cup Touches(file, by)

-----------------------------------------------------------------------------
(* Starting: the lock, and the recovery of what an earlier operation left. *)

Start(p, kind, v, todo) ==
    /\ op = Absent /\ spent.ops < MaxOps
    \* An uninstall that finds nothing registered and no journal takes no lock.
    /\ kind = "uninstall" => journal[p] # Absent \/ ToSet(todo) \cap Registered(Regs(p)) # {}
    /\ op' = [product |-> p, kind |-> kind, version |-> v, todo |-> todo, phase |-> "recover",
              text |-> [t \in Targets |-> NoText], regs |-> NoRegs, found |-> Absent,
              kept |-> {}, write |-> <<>>, then |-> "", seen |-> <<>>, cred |-> None,
              writes |-> <<>>, linked |-> {}, removed |-> {}, issued |-> {}, retired |-> {}, left |-> {},
              failed |-> {}]
    /\ Spend("ops")
    /\ UNCHANGED <<disk, links, conn, label, journal, notes, touched>>

\* recoverJournal: a committed operation is finished, another one undone.
Recover ==
    /\ Phase("recover")
    /\ LET j == journal[Me] IN
       IF j = Absent THEN Goto("plan")
       ELSE IF j.committed THEN op' = [op EXCEPT !.phase = "finish",
                                            !.left = {reg.cred : reg \in j.retired}]
       ELSE op' = [op EXCEPT !.phase = "undo", !.writes = j.writes]
    /\ UNCHANGED <<disk, links, conn, label, journal, notes, touched, spent>>

\* The notes name the labels under which a credential may exist without a record.  The caller
\* gets them when the whole operation returns.
Recovered ==
    /\ ClearJournal /\ Goto("plan")
    /\ notes' = [notes EXCEPT !.pending = @ \cup
                   {c \in Creds : label[c] \in {<<Me, t>> : t \in journal[Me].issuing}}]

RemoveIfUnchanged(pairs) ==
    disk' = [f \in Files |-> IF <<f, disk[f]>> \in pairs THEN Absent ELSE disk[f]]

\* Every retired credential is tried; its file goes once it is revoked.
FinishOne ==
    /\ Phase("finish")
    /\ \E reg \in {reg \in journal[Me].retired : reg.cred \in op.left} :
        \/ /\ conn' = [conn EXCEPT ![reg.cred] = "revoked"]
           /\ RemoveIfUnchanged({<<Secret(reg.cred), <<reg.version>>>>})
           /\ op' = [op EXCEPT !.left = @ \ {reg.cred}]
           /\ UNCHANGED spent
        \/ /\ MayFail /\ Spend("faults")
           /\ op' = [op EXCEPT !.left = @ \ {reg.cred}, !.failed = @ \cup {reg.cred}]
           /\ UNCHANGED <<disk, conn>>
    /\ UNCHANGED <<links, label, journal, notes, touched>>

\* The journal is kept, and the operation refused, while a revocation fails.
Finished ==
    /\ Phase("finish") /\ op.left = {}
    /\ IF op.failed # {} THEN End /\ UNCHANGED <<disk, journal>>
       ELSE Recovered /\ RemoveIfUnchanged(journal[Me].cleanup)
    /\ UNCHANGED <<links, conn, label, touched, spent>>

Written == Last(op.writes)
\* Mutant: undone whatever the file holds by now.
CompareBlindly ==
    /\ op.writes # <<>> /\ op.seen = <<>>
    /\ op' = [op EXCEPT !.seen = <<disk[Written.file]>>]
    /\ UNCHANGED <<disk, notes, touched>>

\* The last write first, and only a file that still holds what was written.
CompareWritten ==
    /\ op.writes # <<>> /\ op.seen = <<>>
    /\ op' = IF disk[Written.file] = Written.after THEN [op EXCEPT !.seen = <<disk[Written.file]>>]
             ELSE [op EXCEPT !.writes = Front(@)]
    /\ UNCHANGED <<disk, notes, touched>>

\* By now the file may hold something else.  A file that was there is replaced by writeAtomic,
\* whose own looks see that or come too early as well; a file that was not is just removed.
PutBefore ==
    /\ op.writes # <<>> /\ op.seen # <<>>
    /\ \/ /\ Put(Written.file, Written.before, {Me})
          /\ op' = [op EXCEPT !.writes = Front(@), !.seen = <<>>]
          /\ UNCHANGED notes
       \/ /\ Written.before # Absent /\ disk[Written.file] # op.seen[1]
          /\ End /\ UNCHANGED <<disk, touched>>

UndoWrite(last) ==
    \/ CompareWritten \/ PutBefore
    \/ op.writes = <<>> /\ Goto(last) /\ UNCHANGED <<disk, notes, touched>>

Undo ==
    /\ Phase("undo") /\ UndoWrite("undoLinks")
    /\ UNCHANGED <<links, conn, label, journal, spent>>

UndoLinks ==
    /\ Phase("undoLinks")
    /\ links' = [links EXCEPT ![Me] = (@ \ journal[Me].linked) \cup journal[Me].removed]
    /\ op' = [op EXCEPT !.phase = "undoIssued", !.left = journal[Me].issued]
    /\ UNCHANGED <<disk, conn, label, journal, notes, touched, spent>>

\* A revocation that fails ends the operation with the journal in place.
UndoIssued ==
    /\ Phase("undoIssued")
    /\ \E c \in op.left :
        \/ /\ conn' = [conn EXCEPT ![c] = "revoked"]
           /\ op' = [op EXCEPT !.left = @ \ {c}]
           /\ UNCHANGED <<notes, spent>>
        \/ MayFail /\ Spend("faults") /\ End /\ UNCHANGED conn
    /\ UNCHANGED <<disk, links, label, journal, touched>>

Undone ==
    /\ Phase("undoIssued") /\ op.left = {}
    /\ Recovered
    /\ UNCHANGED <<disk, links, conn, label, touched, spent>>

-----------------------------------------------------------------------------
(* commit: every change is in the journal before it is made.               *)

Rollback == op' = [op EXCEPT !.phase = "rollback", !.seen = <<>>]

Plan ==
    /\ Phase("plan")
    /\ IF Conflict(Me, op.kind, ToSet(op.todo)) THEN Rollback
       ELSE op' = [op EXCEPT
                !.phase = IF op.kind = "uninstall" THEN "target" ELSE "skill",
                !.text = [t \in Targets |-> disk[Config(t)]],
                !.regs = Regs(Me), !.found = disk[Manifest(Me)],
                !.kept = {t \in ToSet(op.todo) : Kept(Me, t, op.kind)}]
    /\ UNCHANGED <<disk, links, conn, label, journal, notes, touched, spent>>

\* write(): the journal first, then the file if it still holds what the plan read.
Write(file, before, after, then) ==
    /\ Save([MyJournal EXCEPT !.writes = Append(@, [file |-> file, before |-> before,
                                                    after |-> after])])
    /\ op' = [op EXCEPT !.phase = "apply", !.then = then,
                        !.write = [file |-> file, before |-> before, after |-> after]]

\* writeAtomic: the last look at the file, and then the rename, whatever it holds by now.
Look ==
    /\ Phase("apply") /\ op.seen = <<>>
    /\ IF disk[op.write.file] = op.write.before
       THEN op' = [op EXCEPT !.seen = <<disk[op.write.file]>>] ELSE Rollback
    /\ UNCHANGED <<disk, links, conn, label, journal, notes, touched, spent>>
Apply ==
    /\ Phase("apply") /\ op.seen # <<>>
    /\ Put(op.write.file, op.write.after, {Me})
    /\ op' = [op EXCEPT !.phase = op.then, !.writes = Append(@, op.write), !.write = <<>>,
                        !.seen = <<>>]
    /\ UNCHANGED <<links, conn, label, journal, notes, spent>>

WriteSkill ==
    /\ Phase("skill")
    /\ Write(Skill(Me), disk[Skill(Me)], <<"skill">>, "target")
    /\ UNCHANGED <<disk, links, conn, label, notes, touched, spent>>

Previous == op.regs[Todo]
WriteEntry(entry, then) ==
    Write(Config(Todo), op.text[Todo], [op.text[Todo] EXCEPT !.entry[Me] = entry], then)

\* The next registration of the plan.
Target ==
    /\ Phase("target")
    /\ IF op.todo = <<>> THEN Goto("manifest")
       ELSE IF op.kind # "uninstall" THEN Goto(IF Todo \in links[Me] THEN "entry" ELSE "link")
       ELSE IF Previous = NoEntry THEN op' = [op EXCEPT !.todo = Tail(@)]
       ELSE Goto(IF op.text[Todo].entry[Me] = Previous THEN "removeEntry" ELSE "unlink")
    /\ UNCHANGED <<disk, links, conn, label, journal, notes, touched, spent>>

RecordLink ==
    /\ Phase("link")
    /\ Save([MyJournal EXCEPT !.linked = @ \cup {Todo}]) /\ Goto("makeLink")
    /\ UNCHANGED <<disk, links, conn, label, notes, touched, spent>>
MakeLink ==
    /\ Phase("makeLink")
    /\ links' = [links EXCEPT ![Me] = @ \cup {Todo}]
    /\ op' = [op EXCEPT !.phase = "entry", !.linked = @ \cup {Todo}]
    /\ UNCHANGED <<disk, conn, label, journal, notes, touched, spent>>

\* The same credential with another launcher or endpoint, or a new credential.
Refresh ==
    /\ Phase("entry") /\ Todo \in op.kept
    /\ IF Previous.version = op.version
       THEN op' = [op EXCEPT !.todo = Tail(@), !.phase = "target"] /\ UNCHANGED journal
       ELSE WriteEntry(Entry(Previous.cred, op.version), "refreshSecret")
    /\ UNCHANGED <<disk, links, conn, label, notes, touched, spent>>
RefreshSecret ==
    /\ Phase("refreshSecret")
    /\ Write(Secret(Previous.cred), disk[Secret(Previous.cred)], <<op.version>>, "refreshed")
    /\ UNCHANGED <<disk, links, conn, label, notes, touched, spent>>
Refreshed ==
    /\ Phase("refreshed")
    /\ op' = [op EXCEPT !.regs[Todo] = Entry(Previous.cred, op.version), !.todo = Tail(@),
                        !.phase = "target"]
    /\ UNCHANGED <<disk, links, conn, label, journal, notes, touched, spent>>

\* Mutant: the label is not in the journal when the credential is created.
CreateUnrecorded ==
    /\ Phase("entry") /\ Todo \notin op.kept
    /\ Goto("create")
    /\ UNCHANGED <<disk, links, conn, label, journal, notes, touched, spent>>

RecordIssuing ==
    /\ Phase("entry") /\ Todo \notin op.kept
    /\ Save([MyJournal EXCEPT !.issuing = @ \cup {Todo}]) /\ Goto("create")
    /\ UNCHANGED <<disk, links, conn, label, notes, touched, spent>>
Create ==
    /\ Phase("create")
    /\ \E c \in Creds :
        /\ conn[c] = "none" /\ \A d \in 1..(c - 1) : conn[d] # "none"
        /\ conn' = [conn EXCEPT ![c] = "live"] /\ label' = [label EXCEPT ![c] = <<Me, Todo>>]
        /\ op' = [op EXCEPT !.phase = "issue", !.cred = c, !.issued = @ \cup {c}]
    /\ UNCHANGED <<disk, links, journal, notes, touched, spent>>
RecordIssued ==
    /\ Phase("issue")
    /\ Save([MyJournal EXCEPT !.issuing = @ \ {Todo}, !.issued = @ \cup {op.cred}])
    /\ Goto("secret")
    /\ UNCHANGED <<disk, links, conn, label, notes, touched, spent>>
WriteSecret ==
    /\ Phase("secret")
    /\ Write(Secret(op.cred), Absent, <<op.version>>, "newEntry")
    /\ UNCHANGED <<disk, links, conn, label, notes, touched, spent>>
WriteNewEntry ==
    /\ Phase("newEntry")
    /\ WriteEntry(Entry(op.cred, op.version), "registered")
    /\ UNCHANGED <<disk, links, conn, label, notes, touched, spent>>
Retire == IF Previous = NoEntry THEN op.retired ELSE op.retired \cup {Previous}
AddRegistration ==
    /\ Phase("registered")
    /\ op' = [op EXCEPT !.regs[Todo] = Entry(op.cred, op.version), !.retired = Retire,
                        !.todo = Tail(@), !.phase = "target"]
    /\ UNCHANGED <<disk, links, conn, label, journal, notes, touched, spent>>

\* An uninstall leaves an entry the user edited where it is.
RemoveEntry ==
    /\ Phase("removeEntry")
    /\ WriteEntry(NoEntry, "unlink")
    /\ UNCHANGED <<disk, links, conn, label, notes, touched, spent>>
\* Mutant: a link is removed before the journal knows.
UnlinkUnrecorded ==
    /\ Phase("unlink") /\ Todo \in links[Me]
    /\ Goto("dropLink")
    /\ UNCHANGED <<disk, links, conn, label, journal, notes, touched, spent>>
RecordUnlink ==
    /\ Phase("unlink") /\ Todo \in links[Me]
    /\ Save([MyJournal EXCEPT !.removed = @ \cup {Todo}]) /\ Goto("dropLink")
    /\ UNCHANGED <<disk, links, conn, label, notes, touched, spent>>
DropLink ==
    /\ Phase("dropLink")
    /\ links' = [links EXCEPT ![Me] = @ \ {Todo}]
    /\ op' = [op EXCEPT !.phase = "unlink", !.removed = @ \cup {Todo}]
    /\ UNCHANGED <<disk, conn, label, journal, notes, touched, spent>>
Unregister ==
    /\ Phase("unlink") /\ Todo \notin links[Me]
    /\ op' = [op EXCEPT !.regs[Todo] = NoEntry, !.retired = Retire, !.todo = Tail(@),
                        !.phase = "target"]
    /\ UNCHANGED <<disk, links, conn, label, journal, notes, touched, spent>>

WriteManifest ==
    /\ Phase("manifest")
    /\ Write(Manifest(Me), op.found, op.regs, "commit")
    /\ UNCHANGED <<disk, links, conn, label, notes, touched, spent>>

NoneLeft == Registered(op.regs) = {}

\* Mutant: the journal is not marked, so a recovery still undoes the operation.
CommitUnmarked ==
    /\ Phase("commit")
    /\ Goto("cleanup")
    /\ UNCHANGED <<disk, links, conn, label, journal, notes, touched, spent>>

\* Only now is the operation finished by a recovery and no longer undone.
Commit ==
    /\ Phase("commit")
    /\ Save([MyJournal EXCEPT !.retired = op.retired, !.committed = TRUE,
             !.cleanup = IF NoneLeft THEN {<<Skill(Me), <<"skill">>>>} ELSE {}])
    /\ Goto("cleanup")
    /\ UNCHANGED <<disk, links, conn, label, notes, touched, spent>>

-----------------------------------------------------------------------------
(* After the commit: a removal that fails is a note, a revocation that     *)
(* fails keeps the journal.                                                *)

Leftovers ==
    {<<Secret(reg.cred), <<reg.version>>>> : reg \in op.retired}
        \cup (IF NoneLeft THEN {<<Skill(Me), <<"skill">>>>, <<Manifest(Me), op.regs>>} ELSE {})
Cleanup ==
    /\ Phase("cleanup")
    /\ \/ RemoveIfUnchanged(Leftovers) /\ UNCHANGED spent
       \/ /\ MayFail /\ Spend("faults")
          /\ \E kept \in Leftovers : RemoveIfUnchanged(Leftovers \ {kept})
    /\ op' = [op EXCEPT !.phase = "revoke", !.left = {reg.cred : reg \in op.retired}]
    /\ UNCHANGED <<links, conn, label, journal, notes, touched>>

\* Shared by revokeRetired and the rollback: every credential is tried.
Revoke ==
    /\ Phase("revoke")
    /\ \E c \in op.left :
        \/ /\ conn' = [conn EXCEPT ![c] = "revoked"]
           /\ op' = [op EXCEPT !.left = @ \ {c}]
           /\ UNCHANGED spent
        \/ /\ MayFail /\ Spend("faults")
           /\ op' = [op EXCEPT !.left = @ \ {c}, !.failed = @ \cup {c}]
           /\ UNCHANGED conn
    /\ UNCHANGED <<disk, links, label, journal, notes, touched>>

Done ==
    /\ Phase("revoke") /\ op.left = {}
    /\ IF op.failed = {} THEN ClearJournal ELSE UNCHANGED journal
    /\ IF op.failed = {} /\ MyJournal.committed THEN op' = Absent /\ Returns("told") ELSE End
    /\ UNCHANGED <<disk, links, conn, label, touched, spent>>

RollbackWrite ==
    /\ Phase("rollback") /\ UndoWrite("rollbackLinks")
    /\ UNCHANGED <<links, conn, label, journal, spent>>
RollbackLinks ==
    /\ Phase("rollbackLinks")
    /\ links' = [links EXCEPT ![Me] = (@ \ op.linked) \cup op.removed]
    /\ op' = [op EXCEPT !.phase = "revoke", !.left = op.issued]
    /\ UNCHANGED <<disk, conn, label, journal, notes, touched, spent>>

-----------------------------------------------------------------------------
(* What goes wrong.                                                        *)

Working == {"skill", "apply", "link", "makeLink", "entry", "refreshSecret", "create", "issue",
            "secret", "newEntry", "removeEntry", "unlink", "dropLink", "manifest", "commit"}

\* A call that fails while nothing is committed leads to the rollback; one that fails in the
\* undoing of the files ends the operation and leaves the journal to the next one.
Fail ==
    /\ op # Absent /\ MayFail /\ Spend("faults")
    /\ \/ op.phase \in Working /\ Rollback /\ UNCHANGED notes
       \/ op.phase \in {"undo", "rollback"} /\ op.writes # <<>> /\ End
    /\ UNCHANGED <<disk, links, conn, label, journal, touched>>

\* The process dies.  Its lock is stale and the next operation takes it over.
Crash ==
    /\ op # Absent /\ spent.crashes < MaxCrashes
    /\ Spend("crashes") /\ End
    /\ UNCHANGED <<disk, links, conn, label, journal, touched>>

\* The user changes another part of a configuration file, or an entry of ours.
UserEdit(t) ==
    /\ spent.edits < MaxEdits /\ Spend("edits")
    /\ \/ /\ Put(Config(t), [disk[Config(t)] EXCEPT !.user = @ + 1], {})
       \/ \E p \in Products :
            /\ EntryOf(p, t) # NoEntry
            /\ \E entry \in {NoEntry, [EntryOf(p, t) EXCEPT !.edited = TRUE]} :
                 disk' = [disk EXCEPT ![Config(t)].entry[p] = entry]
            /\ touched' = touched \cup {<<p, t>>} \cup Touches(Config(t), {})
    /\ UNCHANGED <<links, conn, label, journal, op, notes>>

Recovery == Recover \/ FinishOne \/ Finished \/ Undo \/ UndoLinks \/ UndoIssued \/ Undone
Install == WriteSkill \/ RecordLink \/ MakeLink \/ Refresh \/ RefreshSecret \/ Refreshed
           \/ RecordIssuing \/ Create \/ RecordIssued \/ WriteSecret \/ WriteNewEntry \/ AddRegistration
Uninstall == RemoveEntry \/ RecordUnlink \/ DropLink \/ Unregister
Ending == WriteManifest \/ Commit \/ Cleanup \/ Revoke \/ Done \/ RollbackWrite \/ RollbackLinks

AgentNext ==
    \/ \E p \in Products, r \in Commands : Start(p, r.kind, r.version, r.todo)
    \/ Recovery \/ Plan \/ Target \/ Look \/ Apply \/ Install \/ Uninstall \/ Ending
    \/ Fail \/ Crash
    \/ \E t \in Targets : UserEdit(t)

AgentSpec == AgentInit /\ [][AgentNext]_agentVars

-----------------------------------------------------------------------------
(* What it is all for.                                                     *)

Issuing(p) == IF journal[p] = Absent THEN {} ELSE {<<p, t>> : t \in journal[p].issuing}
Restored(w) == IF w.before = Absent THEN {} ELSE {w.before[t].cred : t \in Targets}
JournalNames(p) ==
    IF journal[p] = Absent THEN {}
    ELSE journal[p].issued \cup {reg.cred : reg \in journal[p].retired}
         \cup UNION {Restored(w) : w \in {w \in ToSet(journal[p].writes) : w.file = Manifest(p)}}
RegistryNames(p) == {Regs(p)[t].cred : t \in Registered(Regs(p))}

(* No credential works without a trace that survives a crash: what can     *)
(* still be used is in a manifest, in a journal that revokes it or names   *)
(* its label, or a recovery of that journal warned about the label.  The   *)
(* warning is worth less than the journal it replaces: an operation that   *)
(* fails or dies after its recovery never prints it (notes.lost).          *)
LiveIsAccountedFor ==
    \A c \in Creds : conn[c] = "live" =>
        \/ c \in notes.pending \cup notes.told \cup notes.lost
        \/ \E p \in Products :
             c \in RegistryNames(p) \cup JournalNames(p) \/ label[c] \in Issuing(p)

(* "No credential is revoked in here, so a rollback never restores an      *)
(* entry naming a revoked one": a manifest names credentials that work.    *)
RegisteredWorks == \A p \in Products : \A c \in RegistryNames(p) : conn[c] = "live"

Settled(p) == journal[p] = Absent /\ (op = Absent \/ Me # p)

\* Manifest, entry, credential file, skill and link of a registration say the same.
Consistent(p, t) ==
    LET reg == Regs(p)[t] IN
    /\ EntryOf(p, t) = reg
    /\ (reg # NoEntry) <=> (t \in links[p])
    /\ reg # NoEntry => /\ disk[Secret(reg.cred)] = <<reg.version>>
                        /\ disk[Skill(p)] # Absent

(* Whatever failed or died, once no operation and no journal is left all   *)
(* of a registration is there or nothing of it, unless somebody else       *)
(* changed the file meanwhile.                                             *)
AllOrNothing ==
    \A p \in Products, t \in Targets :
        Settled(p) /\ <<p, t>> \notin touched => Consistent(p, t)

\* The file the operation looked at, which somebody changed since.
Facing == IF op.phase = "apply" THEN op.write.file ELSE Written.file
Overtaken(t) ==
    op # Absent /\ op.seen # <<>> /\ Facing = Config(t) /\ disk[Config(t)] # op.seen[1]

(* An operation changes no entry but its product's, and gives the user no  *)
(* older text back, in any write, rollback or recovery.  The exception is  *)
(* an edit between the last look at a file and its rename or removal:      *)
(* nothing keeps the user off the file for that moment, and it is lost.    *)
OthersSurvive ==
    [][op' # op => \A t \in Targets : ~Overtaken(t) =>
        /\ disk'[Config(t)].user >= disk[Config(t)].user
        /\ \A p \in Products :
             disk'[Config(t)].entry[p] # EntryOf(p, t) => op # Absent /\ p = Me]_agentVars
=============================================================================
