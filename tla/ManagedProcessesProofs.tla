----------------------- MODULE ManagedProcessesProofs -----------------------
(***************************************************************************)
(* Proofs about managed processes, for every number of requests, processes *)
(* and ends of the program.                                                *)
(***************************************************************************)
EXTENDS ManagedProcesses, TLAPS

-----------------------------------------------------------------------------
(* The inductive invariant *)

Begun == Procs \ Unused

\* What is known of a process is known of one that was started.
OfBegun ==
    /\ entries \subseteq Begun
    /\ Known \subseteq Begun
    /\ \A p \in Begun : os[p].start \in Begun
    /\ \A i \in 1..Len(answers) : /\ DOMAIN answers[i].report \subseteq Begun
                                  /\ answers[i].child \in Begun \cup {0}

\* While the program is down there is no worker, and nothing that it knew.
NoneKnownWhileDown == ~core => ~worker /\ entries = {}

\* A report of an end is true.
ReportsAreTrue ==
    \A i \in 1..Len(answers) : \A p \in DOMAIN answers[i].report :
        answers[i].report[p] \in Ends => os[p].state = answers[i].report[p]

\* After a report of an end, no later one says something else.
ReportsAreOrdered ==
    \A i, j \in 1..Len(answers) : i < j =>
        \A p \in DOMAIN answers[i].report \cap DOMAIN answers[j].report :
            answers[i].report[p] \in Ends => answers[j].report[p] = answers[i].report[p]

\* What is under way agrees with a row that tells an end.
ReportsFollowRows ==
    \A p \in Procs : rows[p].state \in Ends =>
        /\ os[p].state = rows[p].state
        /\ \A i \in 1..Len(answers) :
              p \in DOMAIN answers[i].report => answers[i].report[p] = rows[p].state

\* An answer belongs to a request, and that to a start or a restart says how the child does.
AnswersWereAsked ==
    \A i \in 1..Len(answers) :
        LET a == answers[i] IN
        /\ call[a.call].at # "idle"
        /\ (a.ok /\ call[a.call].kind \in {"start", "restart"}) => a.child \in DOMAIN a.report

\* Of one start the worker has one entry, and it is the one that may still be wanted.
OneEntryPerStart ==
    \A p \in entries, q \in Begun :
        /\ os[p].start = os[q].start
        /\ q \in entries \/ (os[q].state = "running" /\ ~os[q].told)
        => p = q

\* The worker knows no process whose ownership is uncertain.
UncertainIsUnknown ==
    \A p \in Procs : rows[p].ownership = "detached-uncertain" => p \in Known /\ p \notin entries

Inv ==
    /\ TypeOK
    /\ OfBegun
    /\ NoneKnownWhileDown
    /\ ReportsAreTrue
    /\ ReportsAreOrdered
    /\ ReportsFollowRows
    /\ AnswersWereAsked
    /\ OneEntryPerStart
    /\ OneWantedPerStart
    /\ UncertainIsUnknown

-----------------------------------------------------------------------------
(* Processes and reports *)

ProcessTable == [Procs -> ProcessRecords]

LEMMA Started == Begun = {p \in Procs : os[p].state # "none"}
BY DEF Begun, Unused

LEMMA ReportIs ==
    ASSUME NEW procs \in ProcessTable, NEW ps \in SUBSET Procs,
           \A p \in ps : procs[p].state # "none"
    PROVE  /\ Report(procs, ps) \in Reports
           /\ DOMAIN Report(procs, ps) = ps
           /\ \A p \in ps : Report(procs, ps)[p] = procs[p].state
<1>1. Report(procs, ps) = [p \in ps |-> procs[p].state]
  BY DEF Report
<1>2. Report(procs, ps) \in [ps -> States]
  BY <1>1 DEF ProcessTable, ProcessRecords
<1>3. [ps -> States] \in {[qs -> States] : qs \in SUBSET Procs}
  OBVIOUS
<1>4. Report(procs, ps) \in Reports
  BY <1>2, <1>3, Zenon DEF Reports
<1>5. QED
  BY <1>1, <1>4

LEMMA ReportHas ==
    ASSUME NEW r \in Reports
    PROVE  DOMAIN r \subseteq Procs /\ \A p \in DOMAIN r : r[p] \in States
<1>1. PICK ps \in SUBSET Procs : r \in [ps -> States]
  BY Zenon DEF Reports
<1>2. QED
  BY <1>1

\* Telling a process changes nothing but that it was told.
LEMMA Telling ==
    ASSUME os \in ProcessTable, NEW p \in Procs
    PROVE  /\ Told(p) \in ProcessTable
           /\ \A q \in Procs : /\ Told(p)[q].state = os[q].state
                               /\ Told(p)[q].start = os[q].start
                               /\ os[q].told => Told(p)[q].told
                               /\ q # p => Told(p)[q].told = os[q].told
           /\ Told(p)[p].state = "running" => Told(p)[p].told
BY DEF Told, ProcessTable, ProcessRecords

LEMMA Spawning ==
    ASSUME NEW procs \in ProcessTable, NEW p \in Procs, NEW start \in Procs, NEW l \in Lifecycles \cup {"none"}
    PROVE  /\ Spawned(procs, p, l, start) \in ProcessTable
           /\ Spawned(procs, p, l, start)[p] = [lifecycle |-> l, state |-> "running", told |-> FALSE, start |-> start]
           /\ \A q \in Procs \ {p} : Spawned(procs, p, l, start)[q] = procs[q]
BY DEF Spawned, ProcessTable, ProcessRecords, States, Ends

-----------------------------------------------------------------------------
(* What an answer of the worker says, and what it leaves as it was *)

Tells(c, a) ==
    /\ a \in Answers
    /\ a.call = c
    /\ DOMAIN a.report \subseteq Begun'
    /\ a.child \in Begun' \cup {0}
    /\ \A p \in DOMAIN a.report : a.report[p] = os'[p].state
    /\ (a.ok /\ call[c].kind \in {"start", "restart"}) => a.child \in DOMAIN a.report

\* Processes that were begun stay what they were.
Stay == \A p \in Begun : p \in Begun' /\ os'[p].state = os[p].state /\ os'[p].start = os[p].start

LEMMA InitInv == Init => Inv
<1> SUFFICES ASSUME Init PROVE Inv
  OBVIOUS
<1> USE ProcsAssumption DEF Init
<1>1. TypeOK
  BY DEF TypeOK, ProcessRecords, RowRecords, CallRecords, NoProcess, NoRow, NoCall, States, Ends, Kinds, Lifecycles
<1>2. Begun = {} /\ Known = {} /\ Len(answers) = 0 /\ entries = {}
  BY DEF Begun, Unused, Known, NoProcess, NoRow
<1>3. OfBegun /\ NoneKnownWhileDown /\ ReportsAreTrue /\ ReportsAreOrdered /\ AnswersWereAsked
  BY <1>2 DEF OfBegun, NoneKnownWhileDown, ReportsAreTrue, ReportsAreOrdered, AnswersWereAsked
<1>4. ReportsFollowRows /\ OneEntryPerStart /\ OneWantedPerStart /\ UncertainIsUnknown
  BY <1>2 DEF ReportsFollowRows, OneEntryPerStart, OneWantedPerStart, UncertainIsUnknown, NoRow, NoProcess, Ends
<1>5. QED
  BY <1>1, <1>3, <1>4 DEF Inv

-----------------------------------------------------------------------------
(* The worker answers *)

\* What the worker does to the processes, and what it says of them.
Serves(c) ==
    /\ os' \in ProcessTable
    /\ Stay
    /\ entries' \subseteq Begun'
    /\ \A p \in Begun' : os'[p].start \in Begun'
    /\ OneEntryPerStart'
    /\ OneWantedPerStart'
    /\ \A p \in Procs : rows[p].ownership = "detached-uncertain" => p \notin entries' /\ os'[p].told = os[p].told
    /\ \E a \in Answers : Tells(c, a) /\ answers' = Append(answers, a)

\* A process is added, of a start of its own or in the place of the entry of its start.
Adds(c, procs, q, l, start, old) ==
    /\ procs \in ProcessTable
    /\ q \in Unused
    /\ l \in Lifecycles \cup {"none"}
    /\ start \in Begun \cup {q}
    /\ \A p \in Procs : /\ procs[p].state = os[p].state
                        /\ procs[p].start = os[p].start
                        /\ os[p].told => procs[p].told
                        /\ p \notin old => procs[p].told = os[p].told
    /\ \A p \in Begun : os[p].start = start /\ (p \in entries \/ (os[p].state = "running" /\ ~procs[p].told))
                         => p \in old /\ (procs[p].state = "running" => procs[p].told)
    /\ old \subseteq entries
    /\ os' = Spawned(procs, q, l, start)
    /\ entries' = (entries \ old) \cup {q}
    /\ answers' = Append(answers, Answer(c, TRUE, Report(os', {q}), q))

LEMMA Adding ==
    ASSUME Inv, NEW c \in Calls, NEW procs, NEW q, NEW l, NEW start, NEW old,
           Adds(c, procs, q, l, start, old)
    PROVE  Serves(c)
<1> USE DEF Inv, OfBegun, Adds
<1>1. q \in Procs /\ os[q].state = "none" /\ q \notin entries /\ q \notin Begun
  BY DEF Unused, Begun
<1>2. /\ os' \in ProcessTable
      /\ os'[q] = [lifecycle |-> l, state |-> "running", told |-> FALSE, start |-> start]
      /\ \A p \in Procs \ {q} : os'[p] = procs[p]
      /\ start \in Procs
  BY <1>1, Spawning, Started
<1>3. Begun' = {p \in Procs : os'[p].state # "none"}
  BY DEF Begun, Unused
<1>4. Begun' = Begun \cup {q}
  BY <1>1, <1>2, <1>3, Started
<1>5. Stay
  BY <1>1, <1>2, <1>4, Started DEF Stay
<1>6. entries' \subseteq Begun'
  BY <1>4
<1>7. \A p \in Begun' : os'[p].start \in Begun'
  BY <1>1, <1>2, <1>4, Started
<1>8. \A p \in Begun : os'[p].start = os[p].start /\ os'[p].state = os[p].state
                       /\ os'[p].told = procs[p].told /\ (os[p].told => os'[p].told)
  BY <1>1, <1>2, Started
<1>9. \A p \in Begun : (p \in entries' \/ (os'[p].state = "running" /\ ~os'[p].told)) => os'[p].start # start
  <2> SUFFICES ASSUME NEW p \in Begun, os'[p].start = start,
                      p \in entries' \/ (os'[p].state = "running" /\ ~os'[p].told)
               PROVE  FALSE
    OBVIOUS
  <2>1. p \in Procs /\ p # q /\ os[p].start = start
    BY <1>1, <1>8, Started
  <2>2. p \in old /\ (procs[p].state = "running" => procs[p].told)
    BY <2>1, <1>8
  <2>3. p \notin entries'
    BY <2>1, <2>2
  <2>4. QED
    BY <2>1, <2>2, <2>3, <1>8
<1>10. os'[q].start = start
  BY <1>2
<1>11. OneEntryPerStart'
  <2> SUFFICES ASSUME NEW p \in entries', NEW r \in Begun', os'[p].start = os'[r].start,
                      r \in entries' \/ (os'[r].state = "running" /\ ~os'[r].told)
               PROVE  p = r
    BY DEF OneEntryPerStart
  <2>1. CASE p = q \/ r = q
    BY <2>1, <1>4, <1>6, <1>9, <1>10
  <2>2. CASE p # q /\ r # q
    <3>1. p \in entries /\ r \in Begun /\ p \in Begun
      BY <2>2, <1>4
    <3>2. os[p].start = os[r].start /\ (r \in entries \/ (os[r].state = "running" /\ ~os[r].told))
      BY <2>2, <3>1, <1>8
    <3>3. QED
      BY <3>1, <3>2 DEF OneEntryPerStart
  <2>3. QED
    BY <2>1, <2>2
<1>12. OneWantedPerStart'
  <2> SUFFICES ASSUME NEW p \in Procs, NEW r \in Procs,
                      os'[p].state = "running", os'[r].state = "running", ~os'[p].told, ~os'[r].told,
                      os'[p].start = os'[r].start
               PROVE  p = r
    BY DEF OneWantedPerStart, Procs
  <2>1. p \in Begun' /\ r \in Begun'
    BY <1>3
  <2>2. CASE p = q \/ r = q
    BY <2>1, <2>2, <1>4, <1>9, <1>10
  <2>3. CASE p # q /\ r # q
    BY <2>1, <2>3, <1>4, <1>8 DEF OneWantedPerStart
  <2>4. QED
    BY <2>2, <2>3
<1>13. ASSUME NEW p \in Procs, rows[p].ownership = "detached-uncertain"
       PROVE  p \notin entries' /\ os'[p].told = os[p].told
  <2>1. p \notin entries
    BY <1>13 DEF UncertainIsUnknown
  <2>2. p # q
    BY <1>1, <1>13 DEF UncertainIsUnknown
  <2>3. QED
    BY <2>1, <2>2, <1>2
<1>14. \E a \in Answers : Tells(c, a) /\ answers' = Append(answers, a)
  <2> DEFINE a == Answer(c, TRUE, Report(os', {q}), q)
  <2>1. /\ Report(os', {q}) \in Reports
        /\ DOMAIN Report(os', {q}) = {q}
        /\ Report(os', {q})[q] = os'[q].state
    BY <1>1, <1>2, ReportIs
  <2>2. a \in Answers
    BY <1>1, <2>1 DEF Answer, Answers
  <2>3. Tells(c, a)
    BY <2>1, <2>2, <1>4 DEF Tells, Answer
  <2>4. QED
    BY <2>2, <2>3
<1>15. QED
  BY <1>2, <1>5, <1>6, <1>7, <1>11, <1>12, <1>13, <1>14 DEF Serves

LEMMA ServesStart ==
    ASSUME Inv, NEW c \in Calls, WorkerStarts(c)
    PROVE  Serves(c)
<1>1. PICK p \in Unused : /\ os' = Spawned(os, p, call[c].lifecycle, p)
                          /\ entries' = entries \cup {p}
                          /\ answers' = Append(answers, Answer(c, TRUE, Report(os', {p}), p))
  BY DEF WorkerStarts, Answered
<1>2. os \in ProcessTable /\ call[c].lifecycle \in Lifecycles \cup {"none"}
  BY DEF Inv, TypeOK, ProcessTable, CallRecords
<1>3. p \in Procs /\ os[p].state = "none" /\ entries' = (entries \ {}) \cup {p}
  BY <1>1 DEF Unused
<1>4. \A r \in Begun : os[r].start # p
  BY <1>3, Started DEF Inv, OfBegun
<1>5. Adds(c, os, p, call[c].lifecycle, p, {})
  BY <1>1, <1>2, <1>3, <1>4 DEF Adds
<1>6. QED
  BY <1>5, Adding

\* An answer that changes no process, or only tells one that the worker knows.
Says(c, ok, ps) ==
    /\ ok \in BOOLEAN
    /\ ps \subseteq entries
    /\ os' = os \/ \E p \in entries : os' = Told(p)
    /\ UNCHANGED entries
    /\ ok => call[c].kind \notin {"start", "restart"}
    /\ answers' = Append(answers, Answer(c, ok, Report(os', ps), 0))

LEMMA Saying ==
    ASSUME Inv, NEW c \in Calls, NEW ok, NEW ps, Says(c, ok, ps)
    PROVE  Serves(c)
<1> USE DEF Inv, OfBegun, Says
<1>1. os \in ProcessTable
  BY DEF TypeOK, ProcessTable
<1>2. /\ os' \in ProcessTable
      /\ \A q \in Procs : /\ os'[q].state = os[q].state
                          /\ os'[q].start = os[q].start
                          /\ os[q].told => os'[q].told
                          /\ q \notin entries => os'[q].told = os[q].told
  <2>1. CASE os' = os
    BY <2>1, <1>1
  <2>2. ASSUME NEW p \in entries, os' = Told(p) PROVE <1>2!1 /\ <1>2!2
    BY <2>2, <1>1, Telling DEF TypeOK
  <2>3. QED
    BY <2>1, <2>2
<1>3. Begun' = Begun /\ Stay
  BY <1>2 DEF Begun, Unused, Stay
<1>4. OneEntryPerStart'
  <2> SUFFICES ASSUME NEW p \in entries, NEW r \in Begun, os'[p].start = os'[r].start,
                      r \in entries \/ (os'[r].state = "running" /\ ~os'[r].told)
               PROVE  p = r
    BY <1>3 DEF OneEntryPerStart
  <2>1. p \in Procs /\ r \in Procs
    BY Started
  <2>2. QED
    BY <2>1, <1>2 DEF OneEntryPerStart
<1>5. OneWantedPerStart'
  BY <1>2 DEF OneWantedPerStart, Procs
<1>6. \A p \in Procs : rows[p].ownership = "detached-uncertain" => p \notin entries' /\ os'[p].told = os[p].told
  BY <1>2 DEF UncertainIsUnknown
<1>7. \A p \in Begun' : os'[p].start \in Begun'
  BY <1>2, <1>3, Started
<1>8. \E a \in Answers : Tells(c, a) /\ answers' = Append(answers, a)
  <2> DEFINE a == Answer(c, ok, Report(os', ps), 0)
  <2>1. ps \in SUBSET Procs /\ \A p \in ps : os'[p].state # "none"
    BY <1>2, Started
  <2>2. /\ Report(os', ps) \in Reports
        /\ DOMAIN Report(os', ps) = ps
        /\ \A p \in ps : Report(os', ps)[p] = os'[p].state
    BY <1>2, <2>1, ReportIs
  <2>3. a \in Answers
    BY <2>2 DEF Answer, Answers
  <2>4. Tells(c, a)
    BY <2>2, <2>3, <1>3 DEF Tells, Answer
  <2>5. QED
    BY <2>3, <2>4
<1>9. QED
  BY <1>2, <1>3, <1>4, <1>5, <1>6, <1>7, <1>8 DEF Serves

LEMMA ServesObserve ==
    ASSUME Inv, NEW c \in Calls, WorkerObserves(c)
    PROVE  Serves(c)
<1> DEFINE ps == IF call[c].kind = "list" THEN entries ELSE {call[c].p}
<1>1. /\ call[c].kind \in {"observe", "list"}
      /\ UNCHANGED <<os, entries>>
      /\ IF ps \subseteq entries
         THEN answers' = Append(answers, Answer(c, TRUE, Report(os, ps), 0))
         ELSE answers' = Append(answers, Answer(c, FALSE, Report(os, {}), 0))
  BY DEF WorkerObserves, Answered
<1> HIDE DEF ps
<1>2. CASE ps \subseteq entries
  <2>1. Says(c, TRUE, ps)
    BY <1>1, <1>2 DEF Says
  <2>2. QED
    BY <2>1, Saying
<1>3. CASE ~(ps \subseteq entries)
  <2>1. Says(c, FALSE, {})
    BY <1>1, <1>3 DEF Says
  <2>2. QED
    BY <2>1, Saying
<1>4. QED
  BY <1>2, <1>3

LEMMA ServesStop ==
    ASSUME Inv, NEW c \in Calls, WorkerStops(c)
    PROVE  Serves(c)
<1>1. /\ call[c].kind \in {"stop", "localStop"}
      /\ UNCHANGED entries
      /\ os' = IF call[c].p \in entries THEN Told(call[c].p) ELSE os
      /\ answers' = Append(answers, Answer(c, call[c].p \in entries, Report(os, {}), 0))
  BY DEF WorkerStops, Answered
<1>2. Report(os, {}) = Report(os', {})
  BY DEF Report
<1>3. os' = os \/ \E p \in entries : os' = Told(p)
  BY <1>1
<1>4. Says(c, call[c].p \in entries, {})
  BY <1>1, <1>2, <1>3 DEF Says
<1>5. QED
  BY <1>4, Saying

LEMMA ServesRestart ==
    ASSUME Inv, NEW c \in Calls, WorkerRestarts(c)
    PROVE  Serves(c)
<1> USE DEF Inv, OfBegun
<1>1. CASE call[c].p \notin entries
  <2>1. /\ UNCHANGED <<os, entries>>
        /\ answers' = Append(answers, Answer(c, FALSE, Report(os, {}), 0))
    BY <1>1 DEF WorkerRestarts, Answered
  <2>2. Says(c, FALSE, {})
    BY <2>1 DEF Says
  <2>3. QED
    BY <2>2, Saying
<1>2. CASE call[c].p \in entries
  <2> DEFINE p == call[c].p
  <2>1. PICK q \in Unused : /\ os' = Spawned(Told(p), q, os[p].lifecycle, os[p].start)
                            /\ entries' = (entries \ {p}) \cup {q}
                            /\ answers' = Append(answers, Answer(c, TRUE, Report(os', {q}), q))
    BY <1>2 DEF WorkerRestarts, Answered
  <2>2. /\ p \in entries /\ p \in Begun /\ p \in Procs
        /\ os \in ProcessTable
        /\ os[p].lifecycle \in Lifecycles \cup {"none"}
        /\ os[p].start \in Begun /\ os[p].start \in Procs
    BY <1>2, Started DEF TypeOK, ProcessRecords, ProcessTable
  <2> HIDE DEF p
  <2>3. /\ Told(p) \in ProcessTable
        /\ \A r \in Procs : /\ Told(p)[r].state = os[r].state
                            /\ Told(p)[r].start = os[r].start
                            /\ os[r].told => Told(p)[r].told
                            /\ r \notin {p} => Told(p)[r].told = os[r].told
        /\ Told(p)[p].state = "running" => Told(p)[p].told
    BY <2>2, Telling
  <2>4. ASSUME NEW r \in Begun, os[r].start = os[p].start,
               r \in entries \/ (os[r].state = "running" /\ ~Told(p)[r].told)
        PROVE  r \in {p} /\ (Told(p)[r].state = "running" => Told(p)[r].told)
    <3>1. r \in Procs
      BY Started
    <3>2. r \in entries \/ (os[r].state = "running" /\ ~os[r].told)
      BY <2>3, <2>4, <3>1
    <3>3. p = r
      BY <2>2, <2>4, <3>2 DEF OneEntryPerStart
    <3>4. QED
      BY <2>3, <3>3
  <2>5. Adds(c, Told(p), q, os[p].lifecycle, os[p].start, {p})
    BY <2>1, <2>2, <2>3, <2>4 DEF Adds
  <2>6. QED
    BY <2>5, Adding
<1>3. QED
  BY <1>1, <1>2

LEMMA AnswersInv ==
    ASSUME Inv, NEW c \in Calls, WorkerAnswers(c)
    PROVE  Inv'
<1> USE DEF Inv
<1>1. Serves(c)
  BY ServesStart, ServesObserve, ServesStop, ServesRestart DEF WorkerAnswers
<1>2. /\ worker
      /\ call[c].at # "idle"
      /\ handled' = handled \cup {c}
      /\ UNCHANGED <<rows, call, core, worker, stops>>
  BY DEF WorkerAnswers
<1>3. PICK a \in Answers : Tells(c, a) /\ answers' = Append(answers, a)
  BY <1>1 DEF Serves
<1>4. /\ answers \in Seq(Answers) /\ answers' \in Seq(Answers)
      /\ Len(answers) \in Nat
      /\ Len(answers') = Len(answers) + 1
      /\ \A i \in 1..Len(answers) : i \in 1..Len(answers') /\ answers'[i] = answers[i] /\ answers[i] \in Answers
      /\ answers'[Len(answers) + 1] = a
      /\ \A i \in 1..Len(answers') : i \in 1..Len(answers) \/ i = Len(answers) + 1
  BY <1>3 DEF TypeOK
<1>5. TypeOK'
  BY <1>1, <1>2, <1>4 DEF TypeOK, Serves, ProcessTable, Begun
<1>6. OfBegun'
  <2>1. Known' = Known /\ \A p \in Begun : p \in Begun'
    BY <1>1, <1>2 DEF Known, Serves, Stay
  <2>2. ASSUME NEW i \in 1..Len(answers')
        PROVE  DOMAIN answers'[i].report \subseteq Begun' /\ answers'[i].child \in Begun' \cup {0}
    BY <2>1, <1>3, <1>4 DEF Tells, OfBegun
  <2>3. QED
    BY <2>1, <2>2, <1>1 DEF OfBegun, Serves
<1>7. NoneKnownWhileDown'
  BY <1>2 DEF NoneKnownWhileDown
<1>8. \A p \in Begun : os'[p].state = os[p].state
  BY <1>1 DEF Serves, Stay
<1>9. ReportsAreTrue'
  BY <1>3, <1>4, <1>8 DEF ReportsAreTrue, Tells, OfBegun
<1>10. ReportsAreOrdered'
  <2> SUFFICES ASSUME NEW i \in 1..Len(answers'), NEW j \in 1..Len(answers'), i < j,
                      NEW p \in DOMAIN answers'[i].report \cap DOMAIN answers'[j].report,
                      answers'[i].report[p] \in Ends
               PROVE  answers'[j].report[p] = answers'[i].report[p]
    BY DEF ReportsAreOrdered
  <2>1. i \in 1..Len(answers)
    BY <1>4
  <2>2. CASE j \in 1..Len(answers)
    BY <2>1, <2>2, <1>4 DEF ReportsAreOrdered
  <2>3. CASE j = Len(answers) + 1
    <3>1. answers[i].report[p] = os[p].state /\ p \in Begun
      BY <2>1, <1>4 DEF ReportsAreTrue, OfBegun
    <3>2. answers'[j].report[p] = os'[p].state
      BY <2>3, <1>3, <1>4 DEF Tells
    <3>3. QED
      BY <2>1, <3>1, <3>2, <1>4, <1>8
  <2>4. QED
    BY <2>2, <2>3, <1>4
<1>11. ReportsFollowRows'
  <2> SUFFICES ASSUME NEW p \in Procs, rows[p].state \in Ends
               PROVE  /\ os'[p].state = rows[p].state
                      /\ \A i \in 1..Len(answers') :
                            p \in DOMAIN answers'[i].report => answers'[i].report[p] = rows[p].state
    BY <1>2 DEF ReportsFollowRows
  <2>1. p \in Begun
    BY DEF Known, Ends, OfBegun
  <2>2. os'[p].state = rows[p].state
    BY <2>1, <1>8 DEF ReportsFollowRows
  <2>3. ASSUME NEW i \in 1..Len(answers'), p \in DOMAIN answers'[i].report
        PROVE  answers'[i].report[p] = rows[p].state
    BY <2>2, <2>3, <1>3, <1>4 DEF ReportsFollowRows, Tells
  <2>4. QED
    BY <2>2, <2>3
<1>12. AnswersWereAsked'
  BY <1>2, <1>3, <1>4 DEF AnswersWereAsked, Tells
<1>13. OneEntryPerStart' /\ OneWantedPerStart'
  BY <1>1 DEF Serves
<1>14. UncertainIsUnknown'
  BY <1>1, <1>2 DEF UncertainIsUnknown, Serves, Known
<1>15. QED
  BY <1>5, <1>6, <1>7, <1>9, <1>10, <1>11, <1>12, <1>13, <1>14

-----------------------------------------------------------------------------
(* The core asks, takes an answer or gives up *)

\* Nothing but requests changed, and none of them is new to the worker's answers.
LEMMA CallsInv ==
    ASSUME Inv,
           call' \in [Calls -> CallRecords],
           \A c \in Calls : call[c].at # "idle" => call'[c].at # "idle" /\ call'[c].kind = call[c].kind,
           handled' \subseteq Calls,
           UNCHANGED <<os, entries, rows, answers, core, worker, stops>>
    PROVE  Inv'
<1> USE DEF Inv
<1>1. TypeOK'
  BY DEF TypeOK
<1>2. ASSUME NEW i \in 1..Len(answers) PROVE answers[i].call \in Calls
  <2>1. answers[i] \in Answers
    BY DEF TypeOK
  <2>2. QED
    BY <2>1 DEF Answers
<1>3. AnswersWereAsked'
  BY <1>2 DEF AnswersWereAsked
<1>4. OfBegun'
  BY DEF OfBegun, Begun, Unused, Known
<1>5. QED
  BY <1>1, <1>3, <1>4 DEF NoneKnownWhileDown, ReportsAreTrue, ReportsAreOrdered, ReportsFollowRows,
        OneEntryPerStart, OneWantedPerStart, UncertainIsUnknown, Begun, Unused, Known

LEMMA AskInv ==
    ASSUME Inv, NEW c \in Calls, NEW kind \in Kinds, NEW p \in Procs \cup {0},
           NEW l \in Lifecycles \cup {"none"}, NEW known \in SUBSET Procs, Ask(c, kind, p, l, known)
    PROVE  Inv'
BY CallsInv DEF Inv, TypeOK, CallRecords, Ask

LEMMA RequestInv ==
    ASSUME Inv, NEW c \in Calls,
           \/ \E l \in Lifecycles : Start(c, l)
           \/ List(c)
           \/ \E p \in Procs : \/ Observe(c, p)
                               \/ \E kind \in {"stop", "restart"} : Command(c, kind, p)
                               \/ \E kind \in {"localStop", "localRestart"} : LocalCommand(c, kind, p)
    PROVE  Inv'
<1>1. ASSUME NEW l \in Lifecycles, Start(c, l) PROVE Inv'
  BY <1>1, AskInv DEF Start, Kinds
<1>2. CASE List(c)
  BY <1>2, AskInv DEF List, Kinds, Known
<1>3. ASSUME NEW p \in Procs, NEW kind \in Kinds, Ask(c, kind, p, rows[p].lifecycle, {}) PROVE Inv'
  <2>1. rows[p].lifecycle \in Lifecycles \cup {"none"}
    BY DEF Inv, TypeOK, RowRecords
  <2>2. QED
    BY <1>3, <2>1, AskInv
<1>4. QED
  BY <1>1, <1>2, <1>3 DEF Observe, Command, LocalCommand, Kinds

LEMMA DeadlineInv ==
    ASSUME Inv, NEW c \in Calls, Deadline(c)
    PROVE  Inv'
<1>1. call' = [call EXCEPT ![c].at = "over"] /\ UNCHANGED <<os, entries, rows, handled, answers, core, worker, stops>>
  BY DEF Deadline
<1>2. call \in [Calls -> CallRecords] /\ handled \subseteq Calls
  BY DEF Inv, TypeOK
<1>3. call' \in [Calls -> CallRecords]
  <2>1. [call[c] EXCEPT !.at = "over"] \in CallRecords
    BY <1>2 DEF CallRecords
  <2>2. QED
    BY <1>1, <1>2, <2>1
<1>4. \A k \in Calls : call[k].at # "idle" => call'[k].at # "idle" /\ call'[k].kind = call[k].kind
  BY <1>1, <1>2 DEF CallRecords
<1>5. QED
  BY <1>1, <1>2, <1>3, <1>4, CallsInv

\* Nothing but rows changed, and they tell no more of an end than was told.
LEMMA RowsInv ==
    ASSUME Inv,
           rows' \in [Procs -> RowRecords],
           \A p \in Procs :
               /\ rows'[p].state # "none" => p \in Begun
               /\ rows'[p].ownership = "detached-uncertain" => rows'[p].state # "none" /\ p \notin entries
               /\ rows'[p].state \in Ends =>
                     /\ os[p].state = rows'[p].state
                     /\ \A i \in 1..Len(answers) :
                           p \in DOMAIN answers[i].report => answers[i].report[p] = rows'[p].state,
           core' \in BOOLEAN, worker' \in BOOLEAN, ~core' => ~worker' /\ entries = {},
           UNCHANGED <<os, entries, call, handled, answers, stops>>
    PROVE  Inv'
<1> USE DEF Inv
<1>1. TypeOK'
  BY DEF TypeOK
<1>2. OfBegun'
  BY DEF OfBegun, Begun, Unused, Known
<1>3. ReportsFollowRows' /\ UncertainIsUnknown'
  BY DEF ReportsFollowRows, UncertainIsUnknown, Known
<1>4. QED
  BY <1>1, <1>2, <1>3 DEF NoneKnownWhileDown, ReportsAreTrue, ReportsAreOrdered, AnswersWereAsked,
        OneEntryPerStart, OneWantedPerStart, Begun, Unused

LEMMA ForgetInv ==
    ASSUME Inv, NEW p \in Procs, Forget(p)
    PROVE  Inv'
<1> USE DEF Inv
<1>1. rows' = [rows EXCEPT ![p] = NoRow] /\ UNCHANGED <<os, entries, call, handled, answers, core, worker, stops>>
  BY DEF Forget
<1>2. \A q \in Procs : rows'[q] = rows[q] \/ rows'[q] = NoRow
  BY <1>1 DEF TypeOK
<1>3. rows' \in [Procs -> RowRecords]
  BY <1>1 DEF TypeOK, RowRecords, NoRow
<1>4. ASSUME NEW q \in Procs
      PROVE  /\ rows'[q].state # "none" => q \in Begun
             /\ rows'[q].ownership = "detached-uncertain" => rows'[q].state # "none" /\ q \notin entries
             /\ rows'[q].state \in Ends =>
                   /\ os[q].state = rows'[q].state
                   /\ \A i \in 1..Len(answers) :
                         q \in DOMAIN answers[i].report => answers[i].report[q] = rows'[q].state
  BY <1>2 DEF NoRow, Ends, OfBegun, UncertainIsUnknown, ReportsFollowRows, Known
<1>5. QED
  BY <1>1, <1>3, <1>4, RowsInv DEF TypeOK, NoneKnownWhileDown

LEMMA BootInv ==
    ASSUME Inv, Boot
    PROVE  Inv'
<1> USE DEF Inv
<1>1. /\ ~core /\ core' = TRUE /\ worker' = TRUE
      /\ UNCHANGED <<os, entries, call, handled, answers, stops>>
      /\ entries = {}
  BY DEF Boot, NoneKnownWhileDown
<1>2. \A q \in Procs : /\ rows'[q].state = rows[q].state
                       /\ rows'[q].ownership # rows[q].ownership => q \in Known
  BY DEF Boot, TypeOK, RowRecords
<1>3. rows' \in [Procs -> RowRecords]
  BY DEF Boot, TypeOK, RowRecords
<1>4. ASSUME NEW q \in Procs
      PROVE  /\ rows'[q].state # "none" => q \in Begun
             /\ rows'[q].ownership = "detached-uncertain" => rows'[q].state # "none" /\ q \notin entries
             /\ rows'[q].state \in Ends =>
                   /\ os[q].state = rows'[q].state
                   /\ \A i \in 1..Len(answers) :
                         q \in DOMAIN answers[i].report => answers[i].report[q] = rows'[q].state
  <2>1. rows'[q].state = rows[q].state /\ (rows'[q].state # "none" => q \in Begun)
    BY <1>2 DEF OfBegun, Known
  <2>2. rows'[q].ownership = "detached-uncertain" => rows'[q].state # "none" /\ q \notin entries
    BY <1>1, <1>2, <2>1 DEF UncertainIsUnknown, Known
  <2>3. QED
    BY <2>1, <2>2 DEF ReportsFollowRows
<1>5. QED
  BY <1>1, <1>3, <1>4, RowsInv

-----------------------------------------------------------------------------
(* Processes end, and so do the worker and the program *)

LEMMA ExitsInv ==
    ASSUME Inv, NEW p \in Procs, NEW how \in Ends, Exits(p, how)
    PROVE  Inv'
<1> USE DEF Inv
<1>1. /\ os[p].state = "running"
      /\ os' = [os EXCEPT ![p].state = how]
      /\ UNCHANGED <<entries, rows, call, handled, answers, core, worker, stops>>
  BY DEF Exits
<1>2. TypeOK'
  <2>1. os \in ProcessTable
    BY DEF TypeOK, ProcessTable
  <2>2. os' \in ProcessTable
    BY <1>1, <2>1 DEF ProcessTable, ProcessRecords, States
  <2>3. QED
    BY <1>1, <2>2 DEF TypeOK, ProcessTable
<1>3. \A q \in Procs : /\ os'[q].start = os[q].start /\ os'[q].told = os[q].told
                       /\ q # p => os'[q].state = os[q].state
  BY <1>1 DEF TypeOK, ProcessRecords
<1>4. os'[p].state = how /\ how \notin {"none", "running"} /\ "running" \notin Ends
  BY <1>1 DEF TypeOK, ProcessRecords, Ends
<1>5. Begun' = Begun
  BY <1>1, <1>3, <1>4 DEF Begun, Unused
<1>6. OfBegun'
  <2>1. ASSUME NEW q \in Begun PROVE os'[q].start = os[q].start
    BY <1>3 DEF Begun
  <2>2. QED
    BY <1>1, <1>5, <2>1 DEF OfBegun, Known
<1>7. ReportsAreTrue'
  <2> SUFFICES ASSUME NEW i \in 1..Len(answers), NEW q \in DOMAIN answers[i].report, answers[i].report[q] \in Ends
               PROVE  os'[q].state = answers[i].report[q]
    BY <1>1 DEF ReportsAreTrue
  <2>1. q \in Procs /\ os[q].state = answers[i].report[q]
    BY Started DEF OfBegun, ReportsAreTrue
  <2>2. QED
    BY <2>1, <1>1, <1>3, <1>4
<1>8. ReportsFollowRows'
  BY <1>1, <1>3, <1>4 DEF ReportsFollowRows
<1>9. OneEntryPerStart'
  <2> SUFFICES ASSUME NEW q \in entries, NEW r \in Begun, os'[q].start = os'[r].start,
                      r \in entries \/ (os'[r].state = "running" /\ ~os'[r].told)
               PROVE  q = r
    BY <1>1, <1>5 DEF OneEntryPerStart
  <2>1. q \in Procs /\ r \in Procs
    BY Started DEF OfBegun
  <2>2. os'[q].start = os[q].start /\ os'[r].start = os[r].start
    BY <2>1, <1>3
  <2>3. os'[r].state = "running" => os[r].state = "running" /\ os'[r].told = os[r].told
    BY <2>1, <1>3, <1>4
  <2>4. os[q].start = os[r].start /\ (r \in entries \/ (os[r].state = "running" /\ ~os[r].told))
    BY <2>2, <2>3
  <2>5. QED
    BY <2>4 DEF OneEntryPerStart
<1>10. OneWantedPerStart'
  <2> SUFFICES ASSUME NEW q \in Procs, NEW r \in Procs,
                      os'[q].state = "running", os'[r].state = "running", ~os'[q].told, ~os'[r].told,
                      os'[q].start = os'[r].start
               PROVE  q = r
    BY DEF OneWantedPerStart, Procs
  <2>1. q # p /\ r # p
    BY <1>4
  <2>2. /\ os[q].state = "running" /\ os[r].state = "running" /\ ~os[q].told /\ ~os[r].told
        /\ os[q].start = os[r].start
    BY <2>1, <1>3
  <2>3. QED
    BY <2>2 DEF OneWantedPerStart
<1>11. QED
  BY <1>1, <1>2, <1>6, <1>7, <1>8, <1>9, <1>10
     DEF NoneKnownWhileDown, ReportsAreOrdered, AnswersWereAsked, UncertainIsUnknown, Known

LEMMA LossInv ==
    ASSUME Inv, Lost, UNCHANGED <<os, rows>>, core' \in BOOLEAN, worker' = FALSE, stops' \in Nat
    PROVE  Inv'
<1> USE DEF Inv
<1>1. /\ entries' = {} /\ answers' = <<>> /\ handled' \subseteq Calls
      /\ call' = [c \in Calls |-> IF call[c].at = "sent" THEN [call[c] EXCEPT !.at = "over"] ELSE call[c]]
  BY DEF Lost
<1>2. TypeOK'
  <2>1. call' \in [Calls -> CallRecords]
    <3>1. ASSUME NEW c \in Calls PROVE call'[c] \in CallRecords
      <4>1. call[c] \in CallRecords /\ call'[c] \in {call[c], [call[c] EXCEPT !.at = "over"]}
        BY <1>1 DEF TypeOK
      <4>2. QED
        BY <4>1 DEF CallRecords
    <3>2. QED
      BY <1>1, <3>1
  <2>2. answers' \in Seq(Answers)
    BY <1>1
  <2>3. QED
    BY <1>1, <2>1, <2>2 DEF TypeOK
<1>3. Len(answers') = 0 /\ Begun' = Begun /\ Known' = Known
  BY <1>1 DEF Begun, Unused, Known
<1>4. OfBegun'
  BY <1>1, <1>3 DEF OfBegun
<1>5. ReportsAreTrue' /\ ReportsAreOrdered' /\ ReportsFollowRows' /\ AnswersWereAsked'
  BY <1>1, <1>3 DEF ReportsAreTrue, ReportsAreOrdered, ReportsFollowRows, AnswersWereAsked
<1>6. QED
  BY <1>1, <1>2, <1>3, <1>4, <1>5 DEF NoneKnownWhileDown, OneEntryPerStart, OneWantedPerStart, UncertainIsUnknown

-----------------------------------------------------------------------------
(* The core takes an answer *)

LEMMA FirstAnswer ==
    ASSUME Inv, answers # <<>>
    PROVE  /\ Head(answers) \in Answers
           /\ 1 \in 1..Len(answers) /\ Head(answers) = answers[1]
           /\ Head(answers).call \in Calls
           /\ Tail(answers) \in Seq(Answers)
           /\ \A i \in 1..Len(Tail(answers)) : i + 1 \in 1..Len(answers) /\ Tail(answers)[i] = answers[i + 1]
<1>1. answers \in Seq(Answers)
  BY DEF Inv, TypeOK
<1>2. Head(answers) \in Answers
  BY <1>1
<1>3. Head(answers).call \in Calls
  BY <1>2 DEF Answers
<1>4. QED
  BY <1>1, <1>2, <1>3

\* What became of the row of a process: nothing, it went, or it says what was reported.
Follows(a, p) ==
    \/ rows'[p] = rows[p]
    \/ rows'[p] = NoRow
    \/ /\ p \in DOMAIN a.report
       /\ rows'[p] \in RowRecords
       /\ rows'[p].state = a.report[p]
       /\ rows'[p].ownership = "owned" \/ (p \in Known /\ rows'[p].ownership = rows[p].ownership)

LEMMA RowFollows ==
    ASSUME Inv, Receive, NEW p \in Procs
    PROVE  Follows(Head(answers), p)
<1> DEFINE a == Head(answers)
           k == call[a.call]
<1>1. /\ a \in Answers
      /\ 1 \in 1..Len(answers) /\ a = answers[1]
      /\ k \in CallRecords
      /\ rows' = Recorded(a)
      /\ rows \in [Procs -> RowRecords]
  BY FirstAnswer DEF Receive, Inv, TypeOK
<1>2. \A q \in DOMAIN a.report : a.report[q] \in States
  <2>1. a.report \in Reports
    BY <1>1 DEF Answers
  <2>2. QED
    BY <2>1, ReportHas
<1>3. (a.ok /\ k.kind \in {"start", "restart"}) => a.child \in DOMAIN a.report
  BY <1>1 DEF Inv, AnswersWereAsked
<1>4. CASE ~a.ok \/ k.at # "sent"
  BY <1>1, <1>4 DEF Recorded, Follows
<1>5. CASE a.ok /\ k.at = "sent" /\ k.kind \in {"start", "restart"}
  <2>1. rows' = Put(a)
    BY <1>1, <1>5 DEF Recorded
  <2>2. rows'[p] = IF p = a.child THEN Row(a.report[p], k.lifecycle)
                   ELSE IF p = k.p THEN NoRow ELSE rows[p]
    BY <2>1 DEF Put
  <2>3. CASE p = a.child
    <3>1. rows'[p] = Row(a.report[p], k.lifecycle) /\ p \in DOMAIN a.report
      BY <2>2, <2>3, <1>3, <1>5
    <3>2. k.lifecycle \in Lifecycles \cup {"none"}
      BY <1>1 DEF CallRecords
    <3>3. QED
      BY <3>1, <3>2, <1>2 DEF Row, RowRecords, Follows
  <2>4. CASE p # a.child
    BY <2>2, <2>4 DEF Follows
  <2>5. QED
    BY <2>3, <2>4
<1>6. CASE a.ok /\ k.at = "sent" /\ k.kind \notin {"start", "restart"}
  <2>1. rows' = Updated(a)
    BY <1>1, <1>6 DEF Recorded
  <2>2. \/ rows'[p] = rows[p]
        \/ p \in DOMAIN a.report /\ p \in Known /\ rows'[p] = [rows[p] EXCEPT !.state = a.report[p]]
    BY <2>1 DEF Updated
  <2>3. rows[p] \in RowRecords
    BY <1>1
  <2>4. QED
    BY <2>2, <2>3, <1>2 DEF RowRecords, Follows
<1>7. QED
  BY <1>4, <1>5, <1>6

LEMMA ReceiveInv ==
    ASSUME Inv, Receive
    PROVE  Inv'
<1> DEFINE a == Head(answers)
<1> USE DEF Inv
<1>1. /\ core
      /\ call' = [call EXCEPT ![a.call].at = "over"]
      /\ answers' = Tail(answers)
      /\ UNCHANGED <<os, entries, handled, core, worker, stops>>
  BY DEF Receive
<1>2. /\ a \in Answers /\ a.call \in Calls
      /\ 1 \in 1..Len(answers) /\ a = answers[1]
      /\ answers' \in Seq(Answers)
      /\ \A i \in 1..Len(answers') : i + 1 \in 1..Len(answers) /\ answers'[i] = answers[i + 1]
  BY <1>1, FirstAnswer DEF Receive
<1>3. \A p \in Procs : Follows(a, p)
  BY RowFollows
<1>4. rows' \in [Procs -> RowRecords]
  <2>1. NoRow \in RowRecords /\ rows \in [Procs -> RowRecords]
    BY DEF NoRow, RowRecords, TypeOK
  <2>2. \A p \in Procs : rows'[p] \in RowRecords
    BY <2>1, <1>3 DEF Follows
  <2>3. rows' = [p \in Procs |-> rows'[p]]
    BY <2>1 DEF Receive, Recorded, Put, Updated
  <2>4. QED
    BY <2>2, <2>3
<1>5. call' \in [Calls -> CallRecords]
  <2>1. call[a.call] \in CallRecords
    BY <1>2 DEF TypeOK
  <2>2. [call[a.call] EXCEPT !.at = "over"] \in CallRecords
    BY <2>1 DEF CallRecords
  <2>3. QED
    BY <1>1, <1>2, <2>2 DEF TypeOK
<1>6. TypeOK'
  BY <1>1, <1>2, <1>4, <1>5 DEF TypeOK
<1>7. ASSUME NEW p \in Procs
      PROVE  /\ rows'[p].state # "none" => p \in Begun
             /\ rows'[p].ownership = "detached-uncertain" => rows'[p].state # "none" /\ p \notin entries
             /\ rows'[p].state \in Ends =>
                   /\ os[p].state = rows'[p].state
                   /\ \A i \in 1..Len(answers') :
                         p \in DOMAIN answers'[i].report => answers'[i].report[p] = rows'[p].state
  <2>1. CASE rows'[p] = rows[p]
    BY <2>1, <1>2 DEF OfBegun, Known, UncertainIsUnknown, ReportsFollowRows
  <2>2. CASE rows'[p] = NoRow
    BY <2>2 DEF NoRow, Ends
  <2>3. CASE /\ p \in DOMAIN a.report
             /\ rows'[p].state = a.report[p]
             /\ rows'[p].ownership = "owned" \/ (p \in Known /\ rows'[p].ownership = rows[p].ownership)
    <3>1. p \in Begun
      BY <2>3, <1>2 DEF OfBegun
    <3>2. a.report[p] # "none"
      <4>1. a.report \in Reports
        BY <1>2 DEF Answers
      <4>2. a.report[p] \in States
        BY <4>1, <2>3, ReportHas
      <4>3. QED
        BY <4>2 DEF States, Ends
    <3>3. rows'[p].ownership = "detached-uncertain" => p \notin entries
      BY <2>3 DEF UncertainIsUnknown
    <3>4. ASSUME a.report[p] \in Ends PROVE os[p].state = a.report[p]
      BY <2>3, <3>4, <1>2 DEF ReportsAreTrue
    <3>5. ASSUME a.report[p] \in Ends, NEW i \in 1..Len(answers'), p \in DOMAIN answers'[i].report
          PROVE  answers'[i].report[p] = a.report[p]
      <4>1. 1 < i + 1 /\ i + 1 \in 1..Len(answers) /\ answers'[i] = answers[i + 1]
        BY <1>2
      <4>2. QED
        BY <2>3, <3>5, <4>1, <1>2 DEF ReportsAreOrdered
    <3>6. QED
      BY <2>3, <3>1, <3>2, <3>3, <3>4, <3>5
  <2>4. QED
    BY <2>1, <2>2, <2>3, <1>3 DEF Follows
<1>8. OfBegun'
  <2>1. Begun' = Begun
    BY <1>1 DEF Begun, Unused
  <2>2. Known' \subseteq Begun
    BY <1>7 DEF Known
  <2>3. QED
    BY <1>1, <1>2, <2>1, <2>2 DEF OfBegun
<1>9. ReportsFollowRows' /\ UncertainIsUnknown'
  BY <1>1, <1>7 DEF ReportsFollowRows, UncertainIsUnknown, Known
<1>10. ReportsAreTrue' /\ ReportsAreOrdered'
  <2>1. ReportsAreTrue'
    BY <1>1, <1>2 DEF ReportsAreTrue
  <2>2. ASSUME NEW i \in 1..Len(answers'), NEW j \in 1..Len(answers'), i < j
        PROVE  i + 1 \in 1..Len(answers) /\ j + 1 \in 1..Len(answers) /\ i + 1 < j + 1
    BY <2>2, <1>2
  <2>3. ReportsAreOrdered'
    BY <2>2, <1>2 DEF ReportsAreOrdered
  <2>4. QED
    BY <2>1, <2>3
<1>11. AnswersWereAsked'
  <2>1. \A c \in Calls : call[c].at # "idle" => call'[c].at # "idle" /\ call'[c].kind = call[c].kind
    BY <1>1, <1>2 DEF TypeOK, CallRecords
  <2>2. ASSUME NEW i \in 1..Len(answers') PROVE answers'[i].call \in Calls
    <3>1. answers'[i] \in Answers
      BY <1>2
    <3>2. QED
      BY <3>1 DEF Answers
  <2>3. QED
    BY <1>2, <2>1, <2>2 DEF AnswersWereAsked
<1>12. NoneKnownWhileDown' /\ OneEntryPerStart' /\ OneWantedPerStart'
  BY <1>1 DEF NoneKnownWhileDown, OneEntryPerStart, OneWantedPerStart, Begun, Unused
<1>13. QED
  BY <1>6, <1>8, <1>9, <1>10, <1>11, <1>12

-----------------------------------------------------------------------------
(* Theorems *)

LEMMA NextInv == Inv /\ [Next]_vars => Inv'
<1> SUFFICES ASSUME Inv, [Next]_vars PROVE Inv'
  OBVIOUS
<1>1. ASSUME NEW c \in Calls,
             \/ \E l \in Lifecycles : Start(c, l)
             \/ List(c)
             \/ \E p \in Procs : \/ Observe(c, p)
                                 \/ \E kind \in {"stop", "restart"} : Command(c, kind, p)
                                 \/ \E kind \in {"localStop", "localRestart"} : LocalCommand(c, kind, p)
      PROVE  Inv'
  BY <1>1, RequestInv
<1>2. ASSUME NEW c \in Calls, WorkerAnswers(c) PROVE Inv'
  BY <1>2, AnswersInv
<1>3. ASSUME NEW c \in Calls, Deadline(c) PROVE Inv'
  BY <1>3, DeadlineInv
<1>4. ASSUME NEW p \in Procs, Forget(p) PROVE Inv'
  BY <1>4, ForgetInv
<1>5. ASSUME NEW p \in Procs, NEW how \in Ends, Exits(p, how) PROVE Inv'
  BY <1>5, ExitsInv
<1>6. CASE Receive
  BY <1>6, ReceiveInv
<1>7. CASE WorkerDies
  <2>1. Lost /\ UNCHANGED <<os, rows>> /\ worker' = FALSE /\ core' = core /\ stops' = stops
    BY <1>7 DEF WorkerDies
  <2>2. core \in BOOLEAN /\ stops \in Nat
    BY DEF Inv, TypeOK
  <2>3. core' \in BOOLEAN /\ stops' \in Nat
    BY <2>1, <2>2
  <2>4. QED
    BY <2>1, <2>3, LossInv
<1>8. CASE Stop
  <2>1. Lost /\ UNCHANGED <<os, rows>> /\ worker' = FALSE /\ core' = FALSE /\ stops' = stops + 1
    BY <1>8 DEF Stop
  <2>2. stops \in Nat
    BY DEF Inv, TypeOK
  <2>3. stops' \in Nat
    BY <2>1, <2>2, SMT
  <2>4. core' \in BOOLEAN
    BY <2>1, Zenon
  <2>5. QED
    BY <2>1, <2>3, <2>4, LossInv
<1>9. CASE Boot
  BY <1>9, BootInv
<1>10. CASE UNCHANGED vars
  <2>1. UNCHANGED <<os, entries, rows, call, handled, answers, core, worker, stops>>
    BY <1>10 DEF vars
  <2>2. TypeOK' /\ OfBegun' /\ NoneKnownWhileDown'
    BY <2>1 DEF Inv, TypeOK, OfBegun, NoneKnownWhileDown, Begun, Unused, Known
  <2>3. ReportsAreTrue' /\ ReportsAreOrdered' /\ ReportsFollowRows' /\ AnswersWereAsked'
    BY <2>1 DEF Inv, ReportsAreTrue, ReportsAreOrdered, ReportsFollowRows, AnswersWereAsked
  <2>4. OneEntryPerStart' /\ OneWantedPerStart' /\ UncertainIsUnknown'
    BY <2>1 DEF Inv, OneEntryPerStart, OneWantedPerStart, UncertainIsUnknown, Begun, Unused, Known
  <2>5. QED
    BY <2>2, <2>3, <2>4 DEF Inv
<1>11. QED
  BY <1>1, <1>2, <1>3, <1>4, <1>5, <1>6, <1>7, <1>8, <1>9, <1>10 DEF Next

LEMMA SpecInv == Spec => []Inv
BY InitInv, NextInv, PTL DEF Spec

\* Every variable keeps its type.
THEOREM TypeCorrect == Spec => []TypeOK
<1>1. Inv => TypeOK
  BY DEF Inv
<1>2. QED
  BY <1>1, SpecInv, PTL

\* Of the processes that came from one start by restarts one at most runs untold: the worker
\* has one entry of a start, and a process without an entry was told when it lost it, or lost
\* it together with every other (processes.ts:235).
THEOREM OneWanted == Spec => []OneWantedPerStart
<1>1. Inv => OneWantedPerStart
  BY DEF Inv
<1>2. QED
  BY <1>1, SpecInv, PTL

\* What a row tells of the end of a process is true and stays, for answers arrive in the order
\* in which the worker has read the state (process-service.ts:127, store processes.ts:48).
THEOREM EndsAreFinal == Spec => RecordedEndIsFinal
<1>1. ASSUME Inv, [Next]_vars, NEW p \in Procs, rows[p].state \in Ends
      PROVE  os[p].state = rows[p].state /\ rows'[p].state \in {rows[p].state, "none"}
  <2>1. os[p].state = rows[p].state
    BY <1>1 DEF Inv, ReportsFollowRows
  <2>2. ASSUME Receive PROVE rows'[p].state \in {rows[p].state, "none"}
    <3>1. Follows(Head(answers), p)
      BY <1>1, <2>2, RowFollows
    <3>2. 1 \in 1..Len(answers) /\ Head(answers) = answers[1]
      BY <1>1, <2>2, FirstAnswer DEF Receive
    <3>3. p \in DOMAIN Head(answers).report => Head(answers).report[p] = rows[p].state
      BY <1>1, <3>2 DEF Inv, ReportsFollowRows
    <3>4. QED
      BY <3>1, <3>3 DEF Follows, NoRow
  <2>3. ASSUME NEW q \in Procs, Forget(q) PROVE rows'[p].state \in {rows[p].state, "none"}
    BY <1>1, <2>3 DEF Forget, Inv, TypeOK, NoRow
  <2>4. ASSUME Boot PROVE rows'[p].state \in {rows[p].state, "none"}
    BY <1>1, <2>4 DEF Boot, Inv, TypeOK, RowRecords
  <2>5. ASSUME UNCHANGED rows PROVE rows'[p].state \in {rows[p].state, "none"}
    BY <2>5
  <2>6. QED
    BY <1>1, <2>1, <2>2, <2>3, <2>4, <2>5
       DEF Next, vars, Start, List, Observe, Command, LocalCommand, Ask, WorkerAnswers, Deadline, Exits, WorkerDies, Stop
<1>2. Inv /\ [Next]_vars =>
        [\A p \in Procs : rows[p].state \in Ends =>
            os[p].state = rows[p].state /\ rows'[p].state \in {rows[p].state, "none"}]_vars
  BY <1>1
<1>3. QED
  BY <1>2, SpecInv, PTL DEF Spec, RecordedEndIsFinal

\* Nobody tells a process whose ownership is uncertain to stop: the worker has forgotten it
\* (process-service.ts:93, worker-manager.ts:213).
THEOREM UncertainAreLeft == Spec => UncertainIsLeftAlone
<1>1. ASSUME Inv, [Next]_vars, NEW p \in Procs, rows[p].ownership = "detached-uncertain"
      PROVE  os'[p].told = os[p].told
  <2>1. ASSUME NEW c \in Calls, WorkerAnswers(c) PROVE os'[p].told = os[p].told
    <3>1. Serves(c)
      BY <1>1, <2>1, ServesStart, ServesObserve, ServesStop, ServesRestart DEF WorkerAnswers
    <3>2. QED
      BY <1>1, <3>1 DEF Serves
  <2>2. ASSUME NEW q \in Procs, NEW how \in Ends, Exits(q, how) PROVE os'[p].told = os[p].told
    BY <1>1, <2>2 DEF Exits, Inv, TypeOK, ProcessRecords
  <2>3. CASE UNCHANGED os
    BY <2>3
  <2>4. QED
    BY <1>1, <2>1, <2>2, <2>3
       DEF Next, vars, Start, List, Observe, Command, LocalCommand, Ask, Deadline, Forget, Receive, WorkerDies, Stop, Boot
<1>2. Inv /\ [Next]_vars =>
        [\A p \in Procs : rows[p].ownership = "detached-uncertain" => os'[p].told = os[p].told]_vars
  BY <1>1
<1>3. QED
  BY <1>2, SpecInv, PTL DEF Spec, UncertainIsLeftAlone

=============================================================================
