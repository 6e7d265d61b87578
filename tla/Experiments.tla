---------------------------- MODULE Experiments -----------------------------
(***************************************************************************)
(* The experiment runner of python/infra/defw.py: suites of scripts, the   *)
(* operations a user has on them (run, initialize, reload, report), and    *)
(* the table of results.                                                   *)
(*                                                                         *)
(* Every telnet session is a thread of the process and has the same        *)
(* objects at hand as the main shell, so the operations of several         *)
(* consoles interleave; nothing here takes a lock.  A reload of all suites *)
(* builds a new dictionary: loops that are under way keep the old one.     *)
(* Scripts are numbered in the order of their names.                       *)
(***************************************************************************)
EXTENDS Integers, FiniteSets, Sequences, Functions

CONSTANTS
    Consoles,   \* threads that use the runner
    Plans,      \* what the consoles may ask for: [Consoles -> Seq(Kinds)]
    Suites,     \* names of suites
    Scripts,    \* numbers of scripts
    Disks,      \* what may be on disk: [Suites -> [scripts, skip]]
    MaxReloads  \* reloads of all suites

Kinds == {"suites", "suite", "script", "edit", "reload",
          "reload suite", "report"}

NoSkipFile == {-1}    \* stands for a skip.py that is not there

ASSUME ExperimentsAssumption ==
    /\ Scripts \subseteq Nat /\ MaxReloads \in Nat
    /\ \A p \in Plans : \A c \in Consoles : Range(p[c]) \subseteq Kinds
    /\ Disks \subseteq [Suites -> [scripts : SUBSET Scripts,
                                   skip : (SUBSET Scripts) \cup {NoSkipFile}]]

VARIABLES
    disk,     \* the files
    loaded,   \* skip lists in sys.modules
    gen,      \* the dictionary that is Suites.test_db
    dicts,    \* [generation -> suites in it]
    coll,     \* [generation -> [suite -> its scripts and its skip list]]
    results,  \* YamlGlobalTestResults: one record per suite
    halt,     \* preferences['halt_on_exception']
    con,      \* what each console is doing
    plan,     \* what it has still to do, this operation included
    loads,    \* (re)loads begun
    recorded, \* the scripts of which a result was stored
    stale,    \* consoles that hold a verdict a result has overtaken
    torn      \* records whose verdict was overtaken by a result

suiteVars == <<disk, loaded, gen, dicts, coll, loads>>
tableVars == <<results, recorded, stale, torn>>
vars == <<suiteVars, tableVars, halt, con, plan>>

Statuses == {"PASS", "FAIL", "SKIP"}
Methods == {"run", "initialize"}

\* What a script's run() may return: a dictionary with a status, a bool, None
\* or some other value.
Returned == Statuses \cup {"True", "False", "None", "value"}

\* A result on its way to the table: its status, the places of the suite's
\* record and of the script's result in it, and how far finalize is.
NoRecord ==
    [status |-> "unset", at |-> 0, in |-> 0, pos |-> 1, verdict |-> "unset"]

\* A console at its prompt, and with all that an operation keeps.
Idle ==
    [pc |-> "idle", kind |-> "unset", method |-> "unset", want |-> {},
     counted |-> {}, g |-> 0, size |-> 0, left |-> {}, suite |-> "unset",
     todo |-> {}, script |-> 0, rec |-> NoRecord, due |-> {}, ran |-> <<>>,
     why |-> "unset", since |-> -1, filter |-> "unset", rows |-> {},
     known |-> {}]

Set(c, r) == con' = [con EXCEPT ![c] = r]
Goto(c, pc) == Set(c, [con[c] EXCEPT !.pc = pc])

-----------------------------------------------------------------------------
(* Loading                                                                 *)

\* ASuite.__load_suite_controls: skip.py is imported, once per process, and
\* the list the suite had stays when the file is not there.
SkipList(s, old) ==
    IF disk[s].skip = NoSkipFile THEN old
    ELSE IF loaded[s] # NoSkipFile THEN loaded[s] ELSE disk[s].skip

Imported(s) ==
    loaded' = [loaded EXCEPT ![s] =
                 IF @ # NoSkipFile THEN @ ELSE disk[s].skip]

\* Collection.__generate_test_db: the scripts that are on disk now.
Loaded(s, old) == [scripts |-> disk[s].scripts, skip |-> SkipList(s, old)]

Init ==
    /\ disk \in Disks
    /\ loaded = [s \in Suites |-> disk[s].skip]
    /\ gen = 0
    /\ dicts = [g \in 0..MaxReloads |-> IF g = 0 THEN Suites ELSE {}]
    /\ coll = [g \in 0..MaxReloads |-> [s \in Suites |->
                 [scripts |-> disk[s].scripts,
                  skip |-> IF disk[s].skip = NoSkipFile THEN {}
                           ELSE disk[s].skip]]]
    /\ results = <<>>
    /\ halt \in BOOLEAN
    /\ con = [c \in Consoles |-> Idle]
    /\ loads = 0
    /\ plan \in Plans
    /\ recorded = {} /\ stale = {} /\ torn = {}

Asks(c, kind) ==
    con[c].pc = "idle" /\ plan[c] # <<>> /\ Head(plan[c]) = kind

Ended(c) == /\ Set(c, Idle)
            /\ plan' = [plan EXCEPT ![c] = Tail(@)]

\* Script.edit: the files change under the loaded suites.
Edit(c) ==
    /\ Asks(c, "edit")
    /\ disk' \in Disks \ {disk}
    /\ Ended(c)
    /\ UNCHANGED <<loaded, gen, dicts, coll, loads, tableVars, halt>>

\* Suites.reload: test_db is a new dictionary ...
Reload(c) ==
    /\ Asks(c, "reload") /\ gen < MaxReloads
    /\ gen' = gen + 1
    /\ loads' = loads + 1
    /\ Set(c, [Idle EXCEPT !.pc = "fill", !.g = gen + 1])
    /\ UNCHANGED <<disk, loaded, dicts, coll, tableVars, halt, plan>>

\* ... that Suites.generate_test_db fills, one new ASuite after the other.
Fill(c) ==
    /\ con[c].pc = "fill"
    /\ LET g == con[c].g
       IN  \E s \in Suites \ dicts[g] :
              /\ dicts' = [dicts EXCEPT ![g] = @ \cup {s}]
              /\ coll' = [coll EXCEPT ![g][s] = Loaded(s, {})]
              /\ Imported(s)
    /\ UNCHANGED <<disk, gen, tableVars, halt, con, loads, plan>>

Filled(c) ==
    /\ con[c].pc = "fill" /\ dicts[con[c].g] = Suites
    /\ Ended(c)
    /\ UNCHANGED <<suiteVars, tableVars, halt>>

\* ASuite.reload: the object keeps its skip list if skip.py is gone.
ReloadSuite(c) ==
    /\ Asks(c, "reload suite")
    /\ \E s \in dicts[gen] :
          /\ coll' = [coll EXCEPT ![gen][s] = Loaded(s, @.skip)]
          /\ Imported(s)
    /\ loads' = loads + 1
    /\ Ended(c)
    /\ UNCHANGED <<disk, gen, dicts, tableVars, halt>>

Filling(g) == \E c \in Consoles : con[c].pc = "fill" /\ con[c].g = g

-----------------------------------------------------------------------------
(* run and initialize                                                      *)

\* Collection.execute_method_by_name: the scripts it goes through.
Selected(g, s, match) == (coll[g][s].scripts \cap match) \ coll[g][s].skip

\* A console that starts on the scripts of `want'.  due: what it would execute
\* if nobody interfered; since: loads when it started, -1 in mid-reload.
Job(kind, method, want, due) ==
    [Idle EXCEPT !.pc = "count", !.kind = kind, !.method = method,
                 !.want = want, !.g = gen, !.due = due,
                 !.since = IF Filling(gen) THEN -1 ELSE loads]

Pairs(s, xs) == {<<s, x>> : x \in xs}

\* Suites.run and Suites.initialize: `match' is not passed on to the suites.
RunSuites(c) ==
    /\ Asks(c, "suites")
    /\ \E method \in Methods, want \in (SUBSET Suites) \ {{}} :
          Set(c, Job("suites", method, want,
                     UNION {Pairs(s, Selected(gen, s, Scripts)) :
                              s \in want \cap dicts[gen]}))
    /\ UNCHANGED <<suiteVars, tableVars, halt, plan>>

\* ASuite.run: the collection the suite has now.
RunSuite(c) ==
    /\ Asks(c, "suite")
    /\ \E s \in dicts[gen], match \in {Scripts} \cup {{x} : x \in Scripts} :
          LET xs == Selected(gen, s, match)
          IN  Set(c, [Job("suite", "run", {s}, Pairs(s, xs)) EXCEPT
                        !.pc = "scripts", !.suite = s, !.todo = xs])
    /\ UNCHANGED <<suiteVars, tableVars, halt, plan>>

\* Script.run of one script: its collection's skip list does not matter.
RunScript(c) ==
    /\ Asks(c, "script")
    /\ \E s \in dicts[gen] : \E x \in coll[gen][s].scripts :
          Set(c, [Job("script", "run", {s}, {<<s, x>>}) EXCEPT
                    !.pc = "script", !.suite = s, !.script = x])
    /\ UNCHANGED <<suiteVars, tableVars, halt, plan>>

\* An exception leaves the whole operation.
Raise(c, why) == Set(c, [con[c] EXCEPT !.pc = "raised", !.why = why])

\* The first loop of Suites.execute_method_by_name counts the scripts; a
\* dictionary that grows under the loop ends it with a RuntimeError.
Count(c) ==
    /\ con[c].pc = "count"
    /\ \/ Set(c, [con[c] EXCEPT !.pc = "begin",
                                !.counted = con[c].want \cap dicts[gen]])
       \/ Filling(gen) /\ Raise(c, "reload")
    /\ UNCHANGED <<suiteVars, tableVars, halt, plan>>

\* The second loop takes the dictionary that is test_db by then.
Begin(c) ==
    /\ con[c].pc = "begin"
    /\ Set(c, [con[c] EXCEPT !.pc = "suites", !.g = gen,
                             !.size = Cardinality(dicts[gen]),
                             !.left = dicts[gen]])
    /\ UNCHANGED <<suiteVars, tableVars, halt, plan>>

\* One round of it: a dictionary that has grown is a RuntimeError, a suite
\* that was not counted a KeyError.
NextSuite(c) ==
    LET j == con[c]
        grown == Cardinality(dicts[j.g]) # j.size
    IN  /\ j.pc = "suites"
        /\ \/ grown /\ Raise(c, "reload")
           \/ ~grown /\ j.left = {} /\ Goto(c, "returned")
           \/ /\ ~grown
              /\ \E s \in j.left :
                    \/ /\ s \notin j.want
                       /\ Set(c, [j EXCEPT !.left = @ \ {s}])
                    \/ s \in j.want \ j.counted /\ Raise(c, "reload")
                    \/ /\ s \in j.want \cap j.counted
                       /\ Set(c, [j EXCEPT !.pc = "scripts",
                                           !.left = @ \ {s}, !.suite = s,
                                           !.todo = Selected(j.g, s, Scripts)])
        /\ UNCHANGED <<suiteVars, tableVars, halt, plan>>

\* The loop of Collection.execute_method_by_name, by name.
NextScript(c) ==
    LET j == con[c]
    IN  /\ j.pc = "scripts"
        /\ \/ /\ j.todo = {}
              /\ Goto(c, IF j.kind = "suites" THEN "suites" ELSE "returned")
           \/ \E x \in j.todo :
                 /\ \A y \in j.todo : x <= y
                 /\ Set(c, [j EXCEPT !.pc = "script", !.script = x,
                                     !.todo = @ \ {x}])
        /\ UNCHANGED <<suiteVars, tableVars, halt, plan>>

AfterScript(j) == IF j.kind = "script" THEN "returned" ELSE "scripts"

\* normalize_experiment_result
Normalize(r) == IF r \in Statuses THEN r
                ELSE IF r = "False" THEN "FAIL" ELSE "PASS"

\* Script.execute_method_by_name: the method ended with `status'; the result
\* of run is recorded.
Executed(c, status) ==
    LET j == con[c]
    IN  Set(c, [j EXCEPT
                  !.pc = IF j.method = "run" THEN "lookup" ELSE AfterScript(j),
                  !.rec.status = IF j.method = "run" THEN status ELSE "unset",
                  !.ran = Append(@, <<j.suite, j.script>>)])

\* Mutant: an exception always leaves the loop.
MutExecute(c) ==
    /\ con[c].pc = "script"
    /\ \/ Raise(c, "error")
       \/ \E r \in Returned : Executed(c, Normalize(r))
    /\ UNCHANGED <<suiteVars, tableVars, halt, plan>>

\* The script is imported again and its method called.  A script that cannot
\* be imported raises outside the try; one without the method is passed over.
Execute(c) ==
    LET j == con[c]
    IN  /\ j.pc = "script"
        /\ \/ Raise(c, "import")
           \/ Set(c, [j EXCEPT !.pc = AfterScript(j),
                               !.ran = Append(@, <<j.suite, j.script>>)])
           \/ \E r \in Returned : Executed(c, Normalize(r))
           \/ Raise(c, "halt")             \* a DEFwError that asks for it
           \/ halt /\ Raise(c, "halt")     \* any exception
           \/ ~halt /\ Executed(c, "FAIL")
        /\ UNCHANGED <<suiteVars, tableVars, halt, plan>>

-----------------------------------------------------------------------------
(* The table of results                                                    *)

\* i is the place of the first entry with a name, from a place on; 0: there is
\* none.
IsFirst(i, entries, from, name) ==
    \/ i = 0 /\ \A k \in from..Len(entries) : entries[k].name # name
    \/ /\ i \in from..Len(entries) /\ entries[i].name = name
       /\ \A k \in from..(i - 1) : entries[k].name # name

\* YamlGlobalTestResults.__setitem__ looks for the suite's record, and
\* YamlResults.__setitem__ in it for the script's result; 0: there is none.
Lookup(c) ==
    LET j == con[c]
    IN  /\ j.pc = "lookup"
        /\ \E at \in 0..Len(results) :
              /\ IsFirst(at, results, 1, j.suite)
              /\ \E in \in 0..(IF at = 0 THEN 0 ELSE Len(results[at].sub)) :
                    /\ at # 0 => IsFirst(in, results[at].sub, 1, j.script)
                    /\ Set(c, [j EXCEPT !.pc = "store", !.rec.at = at,
                                        !.rec.in = in])
        /\ UNCHANGED <<suiteVars, tableVars, halt, plan>>

\* The place where a console puts its result.
Place(j) == IF j.rec.at = 0 THEN Len(results) + 1 ELSE j.rec.at

\* The table with the result of a console.
WithResult(j) ==
    LET r == [name |-> j.script, status |-> j.rec.status]
    IN  IF j.rec.at = 0
        THEN Append(results, [name |-> j.suite, sub |-> <<r>>,
                              status |-> "unset"])
        ELSE IF j.rec.in = 0
        THEN [results EXCEPT ![j.rec.at].sub = Append(@, r)]
        ELSE [results EXCEPT ![j.rec.at].sub[j.rec.in] = r]

\* Mutant: finalize is called for a new record only.
MutStore(c) ==
    /\ con[c].pc = "store"
    /\ results' = WithResult(con[c])
    /\ recorded' = recorded \cup {<<con[c].suite, con[c].script>>}
    /\ Goto(c, IF con[c].rec.at = 0 THEN "read" ELSE AfterScript(con[c]))
    /\ UNCHANGED <<suiteVars, halt, plan, stale, torn>>

\* It is stored; what another console has just computed for the suite's
\* record is out of date.
Store(c) ==
    /\ con[c].pc = "store"
    /\ results' = WithResult(con[c])
    /\ recorded' = recorded \cup {<<con[c].suite, con[c].script>>}
    /\ stale' = stale \cup {d \in Consoles : /\ con[d].pc = "write"
                                             /\ con[d].rec.pos = Place(con[c])}
    /\ Goto(c, "read")
    /\ UNCHANGED <<suiteVars, halt, plan, torn>>

\* finalize: FAIL before SKIP before PASS.
Verdict(sub) ==
    LET got == {sub[i].status : i \in 1..Len(sub)}
    IN  IF "FAIL" \in got THEN "FAIL"
        ELSE IF "SKIP" \in got THEN "SKIP" ELSE "PASS"

\* The loop of finalize over the records with the suite's name: the verdict
\* is computed ...
FinalizeRead(c) ==
    LET j == con[c]
    IN  /\ j.pc = "read"
        /\ \E i \in 0..Len(results) :
              /\ IsFirst(i, results, j.rec.pos, j.suite)
              /\ Set(c, IF i = 0
                        THEN [j EXCEPT !.pc = AfterScript(j), !.rec = NoRecord]
                        ELSE [j EXCEPT !.pc = "write", !.rec.pos = i,
                                       !.rec.verdict = Verdict(results[i].sub)])
        /\ UNCHANGED <<suiteVars, tableVars, halt, plan>>

\* ... and written.
FinalizeWrite(c) ==
    LET j == con[c]
    IN  /\ j.pc = "write"
        /\ results' = [results EXCEPT ![j.rec.pos].status = j.rec.verdict]
        /\ torn' = IF c \in stale THEN torn \cup {j.rec.pos}
                   ELSE torn \ {j.rec.pos}
        /\ stale' = stale \ {c}
        /\ Set(c, [j EXCEPT !.pc = "read", !.rec.pos = @ + 1])
        /\ UNCHANGED <<suiteVars, recorded, halt, plan>>

\* formatGlobalTestResultsTable and formatGlobalTestResultsDetail: a row for
\* every result with the status asked for.
All == "all"
Rows(filter) ==
    {row \in UNION {{<<e.name, e.sub[i].name, e.sub[i].status>> :
                       i \in 1..Len(e.sub)} : e \in Range(results)} :
        filter = All \/ row[3] = filter}

\* get_report_mode
ReportMode(m) == IF m \in {"summary", "detail"} THEN m ELSE "both"

\* formatGlobalTestResultsReport: one copy of the table, or one for each half
\* of the report.  Copying a record that finalize is completing fails.
Report(c) ==
    /\ Asks(c, "report")
    /\ \E m \in {"summary", "detail", "other"}, filter \in Statuses \cup {All} :
          \/ Set(c, [Idle EXCEPT !.pc = IF ReportMode(m) = "both" THEN "detail"
                                        ELSE "reported",
                                 !.filter = filter, !.rows = Rows(filter),
                                 !.known = recorded])
          \/ /\ \E k \in 1..Len(results) : results[k].status = "unset"
             /\ Set(c, [Idle EXCEPT !.pc = "raised", !.kind = "report",
                                    !.why = "report"])
    /\ UNCHANGED <<suiteVars, tableVars, halt, plan>>

ReportDetail(c) ==
    /\ con[c].pc = "detail"
    /\ Set(c, [con[c] EXCEPT !.pc = "reported", !.known = recorded,
                             !.rows = Rows(con[c].filter)])
    /\ UNCHANGED <<suiteVars, tableVars, halt, plan>>

\* The prompt is back.
Prompt(c) ==
    /\ con[c].pc \in {"returned", "raised", "reported"}
    /\ Ended(c)
    /\ UNCHANGED <<suiteVars, tableVars, halt>>

Ask(c) == \/ RunSuites(c) \/ RunSuite(c) \/ RunScript(c)
          \/ Edit(c) \/ Reload(c) \/ ReloadSuite(c) \/ Report(c)

Work(c) == \/ Count(c) \/ Begin(c) \/ NextSuite(c) \/ NextScript(c)
           \/ Execute(c) \/ Lookup(c) \/ Store(c)
           \/ FinalizeRead(c) \/ FinalizeWrite(c) \/ ReportDetail(c)
           \/ Fill(c) \/ Filled(c) \/ Prompt(c)

Next == \E c \in Consoles : Ask(c) \/ Work(c)

Spec == Init /\ [][Next]_vars

-----------------------------------------------------------------------------
(* Properties                                                              *)

Runs(c) == con[c].pc \in {"returned", "raised"} /\ con[c].kind # "report"

\* A run or initialize that ends left nothing out: each script it was to go
\* through, the skipped ones not among them, was executed once, in the order
\* of the names within a suite.  An exception ends it early only if a script
\* asked for that, halt_on_exception is set, a script cannot be imported, or
\* another console reloaded suites meanwhile; the failure of a script alone
\* never does.
RunIsComplete ==
    \A c \in Consoles : (Runs(c) /\ con[c].since = loads) =>
        LET j == con[c]
        IN  /\ Range(j.ran) \subseteq j.due
            /\ IsInjective(j.ran)
            /\ j.pc = "returned" => Range(j.ran) = j.due
            /\ j.why \in {"unset", "halt", "import"}
            /\ \A a, b \in 1..Len(j.ran) :
                  a < b /\ j.ran[a][1] = j.ran[b][1] => j.ran[a][2] < j.ran[b][2]

\* The status of a suite is what its results add up to, but for the moments
\* in which finalize is at work on it: only a result that another console
\* stores between the two halves of finalize leaves a wrong one behind, until
\* the next result of the suite.  And no result is lost, whichever consoles
\* stored theirs at the same time: a report without a filter has a row for
\* every script that has a result.
ResultsAddUp ==
    /\ \A k \in 1..Len(results) :
          \/ results[k].status = Verdict(results[k].sub)
          \/ k \in torn
          \/ \E c \in Consoles : /\ con[c].pc \in {"read", "write"}
                                 /\ con[c].suite = results[k].name
                                 /\ con[c].rec.pos <= k
    /\ \A c \in Consoles :
          (con[c].pc \in {"detail", "reported"} /\ con[c].filter = All) =>
              con[c].known \subseteq {<<r[1], r[2]>> : r \in con[c].rows}
=============================================================================
