------------------------- MODULE ExperimentsProofs --------------------------
(***************************************************************************)
(* The experiment runner, for any number of consoles, suites, scripts and  *)
(* reloads.                                                                *)
(*                                                                         *)
(* RunIsComplete is about the end of a run; RunsInv says of every point of *)
(* it that what was executed and what is still ahead make up what the run  *)
(* was to do, unless suites were loaded since it began (Calm), and that    *)
(* the loops take suites and scripts in order and only once (Ordered).     *)
(*                                                                         *)
(* ResultsAddUp rests on the table only growing and keeping its names: a   *)
(* place that a console has looked up is the place of its suite and script *)
(* when it stores (Stored), a verdict in hand is right unless a result has *)
(* overtaken it (Verdicts), and a stored result is never lost (InTable).   *)
(*                                                                         *)
(* The steps are first shown on the record of one console alone (Good),    *)
(* then for the state.                                                     *)
(***************************************************************************)
EXTENDS Experiments, TLAPS

-----------------------------------------------------------------------------
(* The inductive invariant                                                 *)

IsOver(f, fields) == f = [x \in fields |-> f[x]]

JobFields == {"pc", "kind", "method", "want", "counted", "g", "size", "left",
              "suite", "todo", "script", "rec", "due", "ran", "why", "since",
              "filter", "rows", "known"}
RecFields == {"status", "at", "in", "pos", "verdict"}

IsJob(j) == IsOver(j, JobFields) /\ IsOver(j.rec, RecFields)

\* What is loaded has the names of suites and of scripts.
LoadShapes ==
    /\ disk \in Disks
    /\ gen \in 0..MaxReloads
    /\ loads \in Nat
    /\ dicts \in [0..MaxReloads -> SUBSET Suites]
    /\ IsOver(coll, 0..MaxReloads)
    /\ \A g \in 0..MaxReloads :
          /\ IsOver(coll[g], Suites)
          /\ \A s \in Suites : coll[g][s].scripts \in SUBSET Scripts

\* Where a console has a suite in its hands.
Looping == {"scripts", "script", "lookup", "store", "read", "write"}

\* The scripts of that suite it has still to execute.
AtHand(j) == j.todo \cup (IF j.pc = "script" THEN {j.script} ELSE {})

\* A loop goes through the suites and, within one, through the scripts in
\* order; what is behind it is in ran.
Ordered(j, now) ==
    /\ j.g \in 0..MaxReloads /\ j.since \in Int /\ j.since <= now
    /\ j.left \in SUBSET Suites /\ j.todo \in SUBSET Scripts
    /\ j.ran \in Seq(Suites \X Scripts)
    /\ j.pc \in Looping => j.suite \in Suites /\ j.suite \notin j.left
    /\ j.pc \in Looping \ {"scripts"} => j.script \in Scripts
    /\ j.pc \in {"count", "begin", "suites"} => j.kind = "suites" /\ j.todo = {}
    /\ j.pc \in {"count", "begin"} => j.ran = <<>>
    /\ j.pc = "returned" => j.left = {} /\ j.todo = {}
    /\ j.kind # "suites" => j.left = {}
    /\ j.kind = "script" => j.todo = {}
    /\ j.pc = "script" => \A x \in j.todo : j.script < x
    /\ \A a, b \in 1..Len(j.ran) :
          a < b /\ j.ran[a][1] = j.ran[b][1] => j.ran[a][2] < j.ran[b][2]
    /\ \A a \in 1..Len(j.ran) :
          /\ j.ran[a][1] \notin j.left
          /\ j.pc \in Looping /\ j.ran[a][1] = j.suite =>
                \A x \in AtHand(j) : j.ran[a][2] < x

\* The suites before a console, of those that are loaded.
Ahead(j, in) == IF j.pc \in {"count", "begin"} THEN in ELSE j.left

\* What it has executed and will execute, when `chosen' are the scripts of
\* each suite that are not skipped.
Coming(j, in, chosen) ==
    Range(j.ran) \cup Pairs(j.suite, AtHand(j))
    \cup UNION {Pairs(s, chosen[s]) : s \in j.want \cap Ahead(j, in)}

\* With no load since it began, what a console was to do is what it has done
\* and has still to do, and it can see nothing that would raise.
Calm(j, now, g, in, chosen) ==
    j.since = now =>
        /\ j.pc # "raised" => j.due = Coming(j, in, chosen)
        /\ j.pc = "raised" => Range(j.ran) \subseteq j.due
        /\ j.why \in {"unset", "halt", "import"}
        /\ j.kind = "suites" /\ j.pc # "count" => j.counted = j.want \cap in
        /\ j.kind = "suites" /\ j.pc \notin {"count", "begin"} =>
              j.g = g /\ j.size = Cardinality(in) /\ j.left \subseteq in

Good(j, now, g, in, chosen) ==
    IsJob(j) /\ Ordered(j, now) /\ Calm(j, now, g, in, chosen)

\* The scripts of the loaded suites that are not skipped.
Chosen == [s \in Suites |-> Selected(gen, s, Scripts)]

RunsInv ==
    \A c \in Consoles : /\ Good(con[c], loads, gen, dicts[gen], Chosen)
                        /\ con[c].since = loads => ~Filling(gen)

\* The records of the table, one per suite, with a result per script.
Result == [name : Scripts, status : Statuses]
Entry == [name : Suites, sub : Seq(Result), status : Statuses \cup {"unset"}]

\* What a console has looked up in the table is still there.
Stored(j, table) ==
    /\ j.pc \in {"lookup", "store"} => j.rec.status \in Statuses
    /\ j.rec.pos \in Nat \ {0}
    /\ j.pc \notin {"read", "write"} => j.rec.pos = 1
    /\ j.pc = "store" =>
          /\ j.rec.at \in 0..Len(table)
          /\ j.rec.at # 0 =>
                /\ table[j.rec.at].name = j.suite
                /\ j.rec.in \in 0..Len(table[j.rec.at].sub)
                /\ j.rec.in # 0 => table[j.rec.at].sub[j.rec.in].name = j.script
    /\ j.pc = "write" => j.rec.pos \in 1..Len(table) /\ j.rec.verdict \in Statuses

\* A verdict in hand is the right one, unless it was overtaken.
Verdicts ==
    \A c \in Consoles :
        /\ con[c].pc = "write" /\ c \notin stale =>
              con[c].rec.verdict = Verdict(results[con[c].rec.pos].sub)
        /\ con[c].pc # "write" => c \notin stale

\* Every stored result has its place in the table.
InTable(p, table) ==
    \E k \in 1..Len(table) : \E i \in 1..Len(table[k].sub) :
        p = <<table[k].name, table[k].sub[i].name>>

\* A status is right, or somebody is about to write it.
Settled(k) ==
    \/ results[k].status = Verdict(results[k].sub)
    \/ k \in torn
    \/ \E c \in Consoles : /\ con[c].pc \in {"read", "write"}
                           /\ con[c].suite = results[k].name
                           /\ con[c].rec.pos <= k

\* A report has a row for every result.
Reported(j) == (j.pc \in {"detail", "reported"} /\ j.filter = All) =>
                   j.known \subseteq {<<r[1], r[2]>> : r \in j.rows}

TableInv == /\ results \in Seq(Entry)
            /\ \A c \in Consoles : Stored(con[c], results) /\ Reported(con[c])
            /\ Verdicts
            /\ \A p \in recorded : InTable(p, results)
            /\ \A k \in 1..Len(results) : Settled(k)

ExperimentsInv == LoadShapes /\ IsOver(con, Consoles) /\ RunsInv /\ TableInv

-----------------------------------------------------------------------------
(* The steps of a run, on the record of the console alone                  *)

\* The scripts executed, and one more.
LEMMA RangeAppend ==
    ASSUME NEW S, NEW q \in Seq(S), NEW x
    PROVE  Range(Append(q, x)) = Range(q) \cup {x}
<1>1. /\ DOMAIN q = 1..Len(q) /\ Len(q) \in Nat
      /\ DOMAIN Append(q, x) = 1..(Len(q) + 1)
      /\ Append(q, x)[Len(q) + 1] = x
      /\ \A a \in 1..Len(q) : Append(q, x)[a] = q[a]
  OBVIOUS
<1>2. \A y \in Range(Append(q, x)) : y \in Range(q) \cup {x}
  BY SMTT(30), <1>1 DEF Range
<1>3. x \in Range(Append(q, x))
  BY SMTT(30), <1>1 DEF Range
<1>4. \A y \in Range(q) : y \in Range(Append(q, x))
  BY SMTT(30), <1>1 DEF Range
<1>. QED
  BY Zenon, <1>2, <1>3, <1>4

\* Suites.execute_method_by_name has counted.
LEMMA CountJob ==
    ASSUME NEW j, NEW now \in Nat, NEW g \in 0..MaxReloads,
           NEW in \in SUBSET Suites, NEW chosen \in [Suites -> SUBSET Scripts],
           Good(j, now, g, in, chosen), j.pc = "count",
           NEW r, r = [j EXCEPT !.pc = "begin", !.counted = j.want \cap in]
    PROVE  Good(r, now, g, in, chosen)
<1>1. /\ IsJob(r) /\ r.pc = "begin" /\ r.counted = j.want \cap in
      /\ r.kind = j.kind /\ r.want = j.want /\ r.g = j.g /\ r.size = j.size
      /\ r.left = j.left /\ r.suite = j.suite /\ r.todo = j.todo
      /\ r.script = j.script /\ r.due = j.due /\ r.ran = j.ran
      /\ r.why = j.why /\ r.since = j.since
  BY Zenon DEF Good, IsJob, IsOver, JobFields
<1>2. AtHand(r) = AtHand(j) /\ Ahead(r, in) = Ahead(j, in)
  BY Zenon, <1>1 DEF AtHand, Ahead
<1>3. Coming(r, in, chosen) = Coming(j, in, chosen)
  BY Zenon, <1>1, <1>2 DEF Coming
<1>4. Ordered(r, now)
  BY SMTT(30), <1>1, <1>2 DEF Good, Ordered, Looping
<1>5. Calm(r, now, g, in, chosen)
  BY Zenon, <1>1, <1>3 DEF Good, Calm
<1>. QED
  BY Zenon, <1>1, <1>4, <1>5 DEF Good

\* Suites.execute_method_by_name begins with the dictionary that is test_db.
LEMMA BeginJob ==
    ASSUME NEW j, NEW now \in Nat, NEW g \in 0..MaxReloads,
           NEW in \in SUBSET Suites, NEW chosen \in [Suites -> SUBSET Scripts],
           Good(j, now, g, in, chosen), j.pc = "begin",
           NEW r, r = [j EXCEPT !.pc = "suites", !.g = g,
                                !.size = Cardinality(in), !.left = in]
    PROVE  Good(r, now, g, in, chosen)
<1>1. /\ IsJob(r) /\ r.pc = "suites" /\ r.counted = j.counted
      /\ r.kind = j.kind /\ r.want = j.want /\ r.g = g /\ r.size = Cardinality(in)
      /\ r.left = in /\ r.suite = j.suite /\ r.todo = j.todo
      /\ r.script = j.script /\ r.due = j.due /\ r.ran = j.ran
      /\ r.why = j.why /\ r.since = j.since
  <2>1. IsJob(j)
    BY Zenon DEF Good
  <2>2. /\ IsJob(r) /\ r.pc = "suites" /\ r.counted = j.counted
        /\ r.kind = j.kind /\ r.want = j.want /\ r.g = g
        /\ r.size = Cardinality(in)
    BY Zenon, <2>1 DEF IsJob, IsOver, JobFields
  <2>3. /\ r.left = in /\ r.suite = j.suite /\ r.todo = j.todo
        /\ r.script = j.script /\ r.due = j.due /\ r.ran = j.ran
        /\ r.why = j.why /\ r.since = j.since
    BY Zenon, <2>1 DEF IsJob, IsOver, JobFields
  <2>. QED
    BY Zenon, <2>2, <2>3
<1>2. AtHand(r) = AtHand(j) /\ Ahead(r, in) = Ahead(j, in)
  BY Zenon, <1>1 DEF AtHand, Ahead
<1>3. Coming(r, in, chosen) = Coming(j, in, chosen)
  BY Zenon, <1>1, <1>2 DEF Coming
<1>4. Ordered(r, now)
  BY SMTT(30), <1>1, <1>2 DEF Good, Ordered, Looping
<1>5. Calm(r, now, g, in, chosen)
  BY Zenon, <1>1, <1>3 DEF Good, Calm
<1>. QED
  BY Zenon, <1>1, <1>4, <1>5 DEF Good

\* The operation ends with an exception: it is only behind what it was to do.
LEMMA RaiseJob ==
    ASSUME NEW j, NEW now \in Nat, NEW g \in 0..MaxReloads,
           NEW in \in SUBSET Suites, NEW chosen \in [Suites -> SUBSET Scripts],
           Good(j, now, g, in, chosen),
           j.pc \in {"count", "suites", "script"},
           NEW why, j.since = now => j.pc # "count" /\ why \in {"halt", "import"},
           NEW r, r = [j EXCEPT !.pc = "raised", !.why = why]
    PROVE  Good(r, now, g, in, chosen)
<1>1. /\ IsJob(r) /\ r.pc = "raised" /\ r.counted = j.counted
      /\ r.kind = j.kind /\ r.want = j.want /\ r.g = j.g /\ r.size = j.size
      /\ r.left = j.left /\ r.suite = j.suite /\ r.todo = j.todo
      /\ r.script = j.script /\ r.due = j.due /\ r.ran = j.ran
      /\ r.why = why /\ r.since = j.since
  BY Zenon DEF Good, IsJob, IsOver, JobFields
<1>4. Ordered(r, now)
  BY SMTT(30), <1>1 DEF Good, Ordered, Looping
<1>5. Calm(r, now, g, in, chosen)
  <2>1. Range(j.ran) \subseteq Coming(j, in, chosen)
    BY Zenon DEF Coming
  <2>. QED
    BY SMTT(30), <1>1, <2>1 DEF Good, Calm
<1>. QED
  BY Zenon, <1>1, <1>4, <1>5 DEF Good
\* Suites.execute_method_by_name passes over a suite nobody asked for.
LEMMA PassOver ==
    ASSUME NEW j, NEW now \in Nat, NEW g \in 0..MaxReloads,
           NEW in \in SUBSET Suites, NEW chosen \in [Suites -> SUBSET Scripts],
           Good(j, now, g, in, chosen), j.pc = "suites",
           NEW s \in j.left, s \notin j.want,
           NEW r, r = [j EXCEPT !.left = @ \ {s}]
    PROVE  Good(r, now, g, in, chosen)
<1>1. /\ IsJob(r) /\ r.pc = "suites" /\ r.counted = j.counted
      /\ r.kind = j.kind /\ r.want = j.want /\ r.g = j.g /\ r.size = j.size
      /\ r.left = j.left \ {s} /\ r.suite = j.suite /\ r.todo = j.todo
      /\ r.script = j.script /\ r.due = j.due /\ r.ran = j.ran
      /\ r.why = j.why /\ r.since = j.since
  BY Zenon DEF Good, IsJob, IsOver, JobFields, RecFields
<1>2. AtHand(r) = AtHand(j)
      /\ r.want \cap Ahead(r, in) = j.want \cap Ahead(j, in)
  BY Zenon, <1>1 DEF AtHand, Ahead
<1>3. Coming(r, in, chosen) = Coming(j, in, chosen)
  BY Zenon, <1>1, <1>2 DEF Coming
<1>4. Ordered(r, now)
  BY SMTT(30), <1>1, <1>2 DEF Good, Ordered, Looping
<1>5. Calm(r, now, g, in, chosen)
  BY Zenon, <1>1, <1>3 DEF Good, Calm
<1>. QED
  BY Zenon, <1>1, <1>4, <1>5 DEF Good

\* It begins with the scripts of a suite.
LEMMA EnterSuite ==
    ASSUME NEW j, NEW now \in Nat, NEW g \in 0..MaxReloads,
           NEW in \in SUBSET Suites, NEW chosen \in [Suites -> SUBSET Scripts],
           Good(j, now, g, in, chosen), j.pc = "suites",
           NEW s \in j.left, s \in j.want,
           NEW xs \in SUBSET Scripts, j.since = now => xs = chosen[s],
           NEW r, r = [j EXCEPT !.pc = "scripts", !.left = @ \ {s}, !.suite = s,
                                !.todo = xs]
    PROVE  Good(r, now, g, in, chosen)
<1>1. /\ IsJob(r) /\ r.pc = "scripts" /\ r.counted = j.counted
      /\ r.kind = j.kind /\ r.want = j.want /\ r.g = j.g /\ r.size = j.size
      /\ r.left = j.left \ {s} /\ r.suite = s /\ r.todo = xs
      /\ r.script = j.script /\ r.due = j.due /\ r.ran = j.ran
      /\ r.why = j.why /\ r.since = j.since
  <2>1. IsJob(j)
    BY Zenon DEF Good
  <2>2. /\ IsJob(r) /\ r.pc = "scripts" /\ r.counted = j.counted
        /\ r.kind = j.kind /\ r.want = j.want /\ r.g = j.g /\ r.size = j.size
    BY Zenon, <2>1 DEF IsJob, IsOver, JobFields
  <2>3. /\ r.left = j.left \ {s} /\ r.suite = s /\ r.todo = xs
        /\ r.script = j.script /\ r.due = j.due /\ r.ran = j.ran
        /\ r.why = j.why /\ r.since = j.since
    BY Zenon, <2>1 DEF IsJob, IsOver, JobFields
  <2>. QED
    BY Zenon, <2>2, <2>3
<1>2. /\ AtHand(j) = {} /\ AtHand(r) = xs
      /\ Ahead(j, in) = j.left /\ Ahead(r, in) = j.left \ {s}
  BY Zenon, <1>1 DEF AtHand, Ahead, Good, Ordered
<1>3. j.since = now => Coming(r, in, chosen) = Coming(j, in, chosen)
  <2>1. Pairs(j.suite, AtHand(j)) = {}
    BY Zenon, <1>2 DEF Pairs
  <2>2. UNION {Pairs(x, chosen[x]) : x \in j.want \cap j.left}
        = Pairs(s, chosen[s])
          \cup UNION {Pairs(x, chosen[x]) : x \in j.want \cap (j.left \ {s})}
    BY Zenon
  <2>. QED
    BY SMTT(30), <1>1, <1>2, <2>1, <2>2 DEF Coming
<1>4. Ordered(r, now)
  BY SMTT(30), <1>1, <1>2 DEF Good, Ordered, Looping
<1>5. Calm(r, now, g, in, chosen)
  BY Zenon, <1>1, <1>3 DEF Good, Calm
<1>. QED
  BY Zenon, <1>1, <1>4, <1>5 DEF Good

\* No suite is left.
LEMMA LastSuite ==
    ASSUME NEW j, NEW now \in Nat, NEW g \in 0..MaxReloads,
           NEW in \in SUBSET Suites, NEW chosen \in [Suites -> SUBSET Scripts],
           Good(j, now, g, in, chosen), j.pc = "suites", j.left = {},
           NEW r, r = [j EXCEPT !.pc = "returned"]
    PROVE  Good(r, now, g, in, chosen)
<1>1. /\ IsJob(r) /\ r.pc = "returned" /\ r.counted = j.counted
      /\ r.kind = j.kind /\ r.want = j.want /\ r.g = j.g /\ r.size = j.size
      /\ r.left = j.left /\ r.suite = j.suite /\ r.todo = j.todo
      /\ r.script = j.script /\ r.due = j.due /\ r.ran = j.ran
      /\ r.why = j.why /\ r.since = j.since
  BY Zenon DEF Good, IsJob, IsOver, JobFields, RecFields
<1>2. AtHand(r) = AtHand(j) /\ Ahead(r, in) = Ahead(j, in)
  BY Zenon, <1>1 DEF AtHand, Ahead
<1>3. Coming(r, in, chosen) = Coming(j, in, chosen)
  BY Zenon, <1>1, <1>2 DEF Coming
<1>4. Ordered(r, now)
  BY SMTT(30), <1>1, <1>2 DEF Good, Ordered, Looping
<1>5. Calm(r, now, g, in, chosen)
  BY Zenon, <1>1, <1>3 DEF Good, Calm
<1>. QED
  BY Zenon, <1>1, <1>4, <1>5 DEF Good

\* Collection.execute_method_by_name has been through the scripts.
LEMMA LastScript ==
    ASSUME NEW j, NEW now \in Nat, NEW g \in 0..MaxReloads,
           NEW in \in SUBSET Suites, NEW chosen \in [Suites -> SUBSET Scripts],
           Good(j, now, g, in, chosen), j.pc = "scripts", j.todo = {},
           NEW to \in {"suites", "returned"}, to = "suites" <=> j.kind = "suites",
           NEW r, r = [j EXCEPT !.pc = to]
    PROVE  Good(r, now, g, in, chosen)
<1>1. /\ IsJob(r) /\ r.pc = to /\ r.counted = j.counted /\ r.kind = j.kind
      /\ r.want = j.want /\ r.g = j.g /\ r.size = j.size /\ r.left = j.left
      /\ r.suite = j.suite /\ r.todo = j.todo /\ r.script = j.script
      /\ r.due = j.due /\ r.ran = j.ran /\ r.why = j.why
      /\ r.since = j.since
  BY Zenon DEF Good, IsJob, IsOver, JobFields, RecFields
<1>2. AtHand(r) = AtHand(j) /\ Ahead(r, in) = Ahead(j, in)
  BY Zenon, <1>1 DEF AtHand, Ahead
<1>3. Coming(r, in, chosen) = Coming(j, in, chosen)
  BY Zenon, <1>1, <1>2 DEF Coming
<1>4. Ordered(r, now)
  BY SMTT(30), <1>1, <1>2 DEF Good, Ordered, Looping
<1>5. Calm(r, now, g, in, chosen)
  BY Zenon, <1>1, <1>3 DEF Good, Calm
<1>. QED
  BY Zenon, <1>1, <1>4, <1>5 DEF Good

\* It takes the next one, in the order of the names.
LEMMA TakeScript ==
    ASSUME NEW j, NEW now \in Nat, NEW g \in 0..MaxReloads,
           NEW in \in SUBSET Suites, NEW chosen \in [Suites -> SUBSET Scripts],
           Good(j, now, g, in, chosen), j.pc = "scripts",
           NEW x \in j.todo, \A y \in j.todo : x <= y,
           NEW r, r = [j EXCEPT !.pc = "script", !.script = x, !.todo = @ \ {x}]
    PROVE  Good(r, now, g, in, chosen)
<1>1. /\ IsJob(r) /\ r.pc = "script" /\ r.counted = j.counted
      /\ r.kind = j.kind /\ r.want = j.want /\ r.g = j.g /\ r.size = j.size
      /\ r.left = j.left /\ r.suite = j.suite /\ r.todo = j.todo \ {x}
      /\ r.script = x /\ r.due = j.due /\ r.ran = j.ran /\ r.why = j.why
      /\ r.since = j.since
  BY ZenonT(30) DEF Good, IsJob, IsOver, JobFields, RecFields
<1>2. AtHand(r) = AtHand(j) /\ Ahead(r, in) = Ahead(j, in)
  BY SMTT(30), <1>1 DEF AtHand, Ahead
<1>3. Coming(r, in, chosen) = Coming(j, in, chosen)
  BY Zenon, <1>1, <1>2 DEF Coming
<1>4. Ordered(r, now)
  <2>1. \A y \in r.todo : x < y
    BY SMTT(30), <1>1, ExperimentsAssumption DEF Good, Ordered
  <2>. QED
    BY SMTT(30), <1>1, <1>2, <2>1 DEF Good, Ordered, Looping
<1>5. Calm(r, now, g, in, chosen)
  BY Zenon, <1>1, <1>3 DEF Good, Calm
<1>. QED
  BY Zenon, <1>1, <1>4, <1>5 DEF Good
\* What a console keeps while it is at one script.
Follows(r, j) ==
    /\ r.kind = j.kind /\ r.want = j.want /\ r.counted = j.counted
    /\ r.g = j.g /\ r.size = j.size /\ r.left = j.left /\ r.suite = j.suite
    /\ r.todo = j.todo /\ r.script = j.script /\ r.due = j.due
    /\ r.why = j.why /\ r.since = j.since

\* Script.execute_method_by_name has executed its script.
LEMMA ExecutedJob ==
    ASSUME NEW j, NEW now \in Nat, NEW g \in 0..MaxReloads,
           NEW in \in SUBSET Suites, NEW chosen \in [Suites -> SUBSET Scripts],
           Good(j, now, g, in, chosen), j.pc = "script",
           NEW r, IsJob(r), Follows(r, j),
           r.ran = Append(j.ran, <<j.suite, j.script>>),
           r.pc \in {"lookup", "scripts", "returned"},
           r.pc = "returned" => j.kind = "script"
    PROVE  Good(r, now, g, in, chosen)
<1>1. /\ j.ran \in Seq(Suites \X Scripts) /\ j.suite \in Suites
      /\ j.script \in Scripts /\ j.todo \in SUBSET Scripts
      /\ \A x \in j.todo : j.script < x
      /\ AtHand(j) = j.todo \cup {j.script} /\ AtHand(r) = j.todo
      /\ Ahead(r, in) = Ahead(j, in)
  BY Zenon DEF Good, Ordered, Looping, AtHand, Ahead, Follows
<1>2. /\ r.ran \in Seq(Suites \X Scripts) /\ Len(r.ran) = Len(j.ran) + 1
      /\ Len(j.ran) \in Nat
      /\ r.ran[Len(j.ran) + 1] = <<j.suite, j.script>>
      /\ \A a \in 1..Len(j.ran) : r.ran[a] = j.ran[a]
  BY SMTT(30), <1>1
<1>3. Coming(r, in, chosen) = Coming(j, in, chosen)
  <2>1. Range(r.ran) = Range(j.ran) \cup {<<j.suite, j.script>>}
    BY SMTT(30), <1>1, RangeAppend
  <2>2. Pairs(j.suite, AtHand(j)) = Pairs(j.suite, j.todo)
                                    \cup {<<j.suite, j.script>>}
    BY Zenon, <1>1 DEF Pairs
  <2>. QED
    BY Zenon, <1>1, <2>1, <2>2 DEF Coming, Follows
<1>4. Ordered(r, now)
  <2>1. \A a, b \in 1..Len(r.ran) :
           a < b /\ r.ran[a][1] = r.ran[b][1] => r.ran[a][2] < r.ran[b][2]
    <3>. SUFFICES ASSUME NEW a \in 1..Len(r.ran), NEW b \in 1..Len(r.ran),
                         a < b, r.ran[a][1] = r.ran[b][1]
                  PROVE  r.ran[a][2] < r.ran[b][2]
      BY Zenon
    <3>1. a \in 1..Len(j.ran) /\ r.ran[a] = j.ran[a]
      BY SMTT(30), <1>2
    <3>2. CASE b = Len(j.ran) + 1
      BY SMTT(30), <1>1, <1>2, <3>1, <3>2 DEF Good, Ordered, Looping
    <3>3. CASE b # Len(j.ran) + 1
      BY SMTT(30), <1>2, <3>1, <3>3 DEF Good, Ordered
    <3>. QED
      BY Zenon, <3>2, <3>3
  <2>2. \A a \in 1..Len(r.ran) :
           /\ r.ran[a][1] \notin r.left
           /\ r.ran[a][1] = r.suite => \A x \in AtHand(r) : r.ran[a][2] < x
    <3>. SUFFICES ASSUME NEW a \in 1..Len(r.ran)
                  PROVE  /\ r.ran[a][1] \notin r.left
                         /\ r.ran[a][1] = r.suite =>
                               \A x \in AtHand(r) : r.ran[a][2] < x
      BY Zenon
    <3>1. CASE a = Len(j.ran) + 1
      BY SMTT(30), <1>1, <1>2, <3>1 DEF Good, Ordered, Looping, Follows
    <3>2. CASE a # Len(j.ran) + 1
      BY SMTT(30), <1>1, <1>2, <3>2 DEF Good, Ordered, Looping, Follows
    <3>. QED
      BY Zenon, <3>1, <3>2
  <2>. QED
    BY Zenon, <1>1, <1>2, <2>1, <2>2 DEF Good, Ordered, Looping, Follows
<1>5. Calm(r, now, g, in, chosen)
  BY Zenon, <1>3 DEF Good, Calm, Follows
<1>. QED
  BY Zenon, <1>4, <1>5 DEF Good

\* A console that is at the table of results stays where it is in its run.
LEMMA RecordJob ==
    ASSUME NEW j, NEW now \in Nat, NEW g \in 0..MaxReloads,
           NEW in \in SUBSET Suites, NEW chosen \in [Suites -> SUBSET Scripts],
           Good(j, now, g, in, chosen),
           j.pc \in {"lookup", "store", "read", "write"},
           NEW r, IsJob(r), Follows(r, j), r.ran = j.ran,
           r.pc \in {"store", "read", "write", "scripts", "returned"},
           r.pc = "returned" => j.kind = "script"
    PROVE  Good(r, now, g, in, chosen)
<1>1. AtHand(r) = AtHand(j) /\ Ahead(r, in) = Ahead(j, in)
  BY Zenon DEF AtHand, Ahead, Follows
<1>2. Coming(r, in, chosen) = Coming(j, in, chosen)
  BY Zenon, <1>1 DEF Coming, Follows
<1>3. Ordered(r, now)
  BY SMTT(30), <1>1 DEF Good, Ordered, Looping, Follows
<1>4. Calm(r, now, g, in, chosen)
  BY Zenon, <1>2 DEF Good, Calm, Follows
<1>. QED
  BY Zenon, <1>3, <1>4 DEF Good
-----------------------------------------------------------------------------
(* The steps on the table                                                  *)

\* Nothing leaves the table, and no record or result changes its name.
KeepsNames(new, old) ==
    /\ Len(new) \in Nat /\ Len(old) \in Nat /\ Len(old) <= Len(new)
    /\ \A k \in 1..Len(old) : new[k].name = old[k].name

Keeps(new, old) ==
    /\ KeepsNames(new, old)
    /\ \A k \in 1..Len(old) : KeepsNames(new[k].sub, old[k].sub)

\* A sequence with one place overwritten, or with one more.
LEMMA Overwritten ==
    ASSUME NEW S, NEW q \in Seq(S), NEW p \in 1..Len(q), NEW x \in S,
           NEW new, new = [q EXCEPT ![p] = x]
    PROVE  /\ new \in Seq(S) /\ Len(new) = Len(q) /\ new[p] = x
           /\ \A k \in 1..Len(q) : k # p => new[k] = q[k]
  OBVIOUS

\* What a sequence holds after an append.
LEMMA Appended ==
    ASSUME NEW S, NEW q \in Seq(S), NEW x \in S, NEW new, new = Append(q, x)
    PROVE  /\ new \in Seq(S)
           /\ Len(q) \in Nat /\ Len(new) = Len(q) + 1 /\ new[Len(q) + 1] = x
           /\ \A k \in 1..Len(q) : new[k] = q[k]
  OBVIOUS

\* The parts of a record of the table.
LEMMA EntryParts ==
    ASSUME NEW e \in Entry
    PROVE  /\ e.name \in Suites /\ e.sub \in Seq(Result)
           /\ e.status \in Statuses \cup {"unset"} /\ Len(e.sub) \in Nat
<1>1. e.sub \in Seq(Result) /\ e.name \in Suites /\ e.status \in Statuses \cup {"unset"}
  BY Zenon DEF Entry
<1>2. \A q \in Seq(Result) : Len(q) \in Nat
  OBVIOUS
<1>. QED
  BY Zenon, <1>1, <1>2

\* Every record of a table.
LEMMA Entries ==
    ASSUME NEW q \in Seq(Entry), NEW k \in 1..Len(q)
    PROVE  /\ q[k] \in Entry /\ q[k].sub \in Seq(Result)
           /\ Len(q[k].sub) \in Nat /\ KeepsNames(q[k].sub, q[k].sub)
<1>1. q[k] \in Entry
  OBVIOUS
<1>2. q[k].sub \in Seq(Result) /\ Len(q[k].sub) \in Nat
  BY Zenon, <1>1, EntryParts
<1>3. \A n \in Nat : n <= n
  OBVIOUS
<1>. QED
  BY Zenon, <1>1, <1>2, <1>3 DEF KeepsNames

\* An entry with a name is there.
HasName(seq, name) == \E n \in 1..Len(seq) : seq[n].name = name

\* YamlResults.__setitem__ adds a result, or puts it in the place of an earlier
\* one of the same script.
LEMMA AddedResult ==
    ASSUME NEW old \in Seq(Result), NEW x \in Result,
           NEW new, new = Append(old, x)
    PROVE  /\ new \in Seq(Result) /\ KeepsNames(new, old)
           /\ HasName(new, x.name)
<1>1. /\ new \in Seq(Result)
      /\ Len(old) \in Nat /\ Len(new) = Len(old) + 1 /\ new[Len(old) + 1] = x
      /\ \A k \in 1..Len(old) : new[k] = old[k]
  BY SMTT(30), Appended
<1>2. Len(new) \in Nat /\ Len(old) <= Len(new) /\ Len(old) + 1 \in 1..Len(new)
  BY SMTT(30), <1>1
<1>3. KeepsNames(new, old)
  BY Zenon, <1>1, <1>2 DEF KeepsNames
<1>. QED
  BY Zenon, <1>1, <1>2, <1>3 DEF HasName

\* A result that replaces the one of its script (YamlResults.__setitem__).
LEMMA ReplacedResult ==
    ASSUME NEW old \in Seq(Result), NEW x \in Result, NEW i \in 1..Len(old),
           old[i].name = x.name, NEW new, new = [old EXCEPT ![i] = x]
    PROVE  /\ new \in Seq(Result) /\ KeepsNames(new, old)
           /\ HasName(new, x.name)
<1>1. /\ new \in Seq(Result) /\ Len(new) = Len(old) /\ new[i] = x
      /\ \A k \in 1..Len(old) : k # i => new[k] = old[k]
  BY SMTT(30), Overwritten
<1>2. Len(new) \in Nat /\ Len(old) \in Nat /\ Len(old) <= Len(new)
  BY SMTT(30), <1>1
<1>3. KeepsNames(new, old)
  BY Zenon, <1>1, <1>2 DEF KeepsNames
<1>. QED
  BY Zenon, <1>1, <1>3 DEF HasName

\* A table with one record overwritten, or with one more.
LEMMA NewTable ==
    ASSUME NEW old \in Seq(Entry), NEW new \in Seq(Entry), NEW at \in Nat,
           NEW e, new[at] = e, Len(old) <= Len(new),
           \A k \in 1..Len(old) : k # at => new[k] = old[k],
           at \in 1..Len(old) => /\ e.name = old[at].name
                                 /\ KeepsNames(e.sub, old[at].sub)
    PROVE  Keeps(new, old)
<1>1. Len(old) \in Nat /\ Len(new) \in Nat
  OBVIOUS
<1>2. ASSUME NEW k \in 1..Len(old)
      PROVE  new[k].name = old[k].name /\ KeepsNames(new[k].sub, old[k].sub)
  <2>1. CASE k = at
    BY Zenon, <2>1
  <2>2. CASE k # at
    BY Zenon, <2>2, Entries
  <2>. QED
    BY Zenon, <2>1, <2>2
<1>. QED
  BY Zenon, <1>1, <1>2 DEF Keeps, KeepsNames

\* YamlGlobalTestResults.__setitem__ puts the result of a console into the
\* record of its suite.
LEMMA StoredResult ==
    ASSUME NEW j, results \in Seq(Entry), Stored(j, results), j.pc = "store",
           j.suite \in Suites, j.script \in Scripts,
           NEW new, new = WithResult(j), NEW at, at = Place(j)
    PROVE  /\ new \in Seq(Entry) /\ Keeps(new, results)
           /\ at \in 1..Len(new) /\ new[at].name = j.suite
           /\ InTable(<<j.suite, j.script>>, new)
           /\ \A k \in 1..Len(new) :
                 k # at => k \in 1..Len(results) /\ new[k] = results[k]
<1>. DEFINE x == [name |-> j.script, status |-> j.rec.status]
            p == j.rec.at
            i == j.rec.in
<1>1. /\ x \in Result /\ x.name = j.script /\ p \in 0..Len(results)
      /\ Len(results) \in Nat
  BY SMTT(30) DEF Stored, Result
<1>2. CASE p = 0
  <2>. DEFINE sub == <<x>>
              e == [name |-> j.suite, sub |-> sub, status |-> "unset"]
  <2>1. new = Append(results, e) /\ at = Len(results) + 1
    BY Zenon, <1>2 DEF WithResult, Place
  <2>. HIDE DEF x
  <2>2. sub \in Seq(Result) /\ Len(sub) = 1 /\ sub[1] = x
    BY SMTT(30), <1>1
  <2>. HIDE DEF sub
  <2>3. e \in Entry /\ e.name = j.suite /\ e.sub = sub
    BY Zenon, <2>2 DEF Entry
  <2>. HIDE DEF e
  <2>4. /\ new \in Seq(Entry) /\ Len(new) = Len(results) + 1 /\ new[at] = e
        /\ \A k \in 1..Len(results) : new[k] = results[k]
    BY SMTT(30), <2>1, <2>3, Appended
  <2>5. /\ at \in 1..Len(new) /\ at \in Nat /\ at \notin 1..Len(results)
        /\ Len(results) <= Len(new)
        /\ \A k \in 1..Len(new) : k # at => k \in 1..Len(results)
    BY SMTT(30), <1>1, <2>1, <2>4
  <2>6. Keeps(new, results)
    BY Zenon, <2>4, <2>5, NewTable
  <2>7. 1 \in 1..Len(new[at].sub)
    <3>1. Len(new[at].sub) = 1
      BY Zenon, <2>2, <2>3, <2>4
    <3>. QED
      BY SMTT(30), <3>1
  <2>8. InTable(<<j.suite, j.script>>, new)
    BY Zenon, <1>1, <2>2, <2>3, <2>4, <2>5, <2>7 DEF InTable
  <2>. QED
    BY Zenon, <2>3, <2>4, <2>5, <2>6, <2>8
<1>3. CASE p # 0
  <2>1. /\ p \in 1..Len(results) /\ p \in Nat /\ at = p
        /\ results[p].name = j.suite
        /\ i \in 0..Len(results[p].sub)
        /\ i # 0 => results[p].sub[i].name = j.script
    BY SMTT(30), <1>1, <1>3 DEF Stored, Place
  <2>2. results[p] \in Entry /\ results[p].sub \in Seq(Result)
    BY Zenon, <2>1, Entries
  <2>. DEFINE sub == IF i = 0 THEN Append(results[p].sub, x)
                     ELSE [results[p].sub EXCEPT ![i] = x]
              e == [results[p] EXCEPT !.sub = sub]
  <2>3. new = [results EXCEPT ![p] = e]
    BY Zenon, <1>3, <2>1 DEF WithResult
  <2>. HIDE DEF x
  <2>4. /\ sub \in Seq(Result) /\ KeepsNames(sub, results[p].sub)
        /\ HasName(sub, x.name)
    <3>1. CASE i = 0
      <4>1. sub = Append(results[p].sub, x)
        BY Zenon, <3>1
      <4>. HIDE DEF sub, p
      <4>2. PICK old : old = results[p].sub
        BY Zenon
      <4>3. old \in Seq(Result) /\ x \in Result /\ sub = Append(old, x)
        BY Zenon, <1>1, <2>2, <4>1, <4>2
      <4>4. /\ sub \in Seq(Result) /\ KeepsNames(sub, old)
            /\ HasName(sub, x.name)
        BY Zenon, <4>3, AddedResult
      <4>. QED
        BY Zenon, <4>2, <4>4
    <3>2. CASE i # 0
      <4>1. i \in 1..Len(results[p].sub)
        BY SMTT(30), <2>1, <2>2, <3>2
      <4>2. sub = [results[p].sub EXCEPT ![i] = x]
        BY Zenon, <3>2
      <4>. HIDE DEF sub
      <4>3. results[p].sub[i].name = x.name
        BY Zenon, <1>1, <2>1, <3>2
      <4>. HIDE DEF p, i
      <4>4. PICK old : old = results[p].sub
        BY Zenon
      <4>5. /\ old \in Seq(Result) /\ x \in Result /\ i \in 1..Len(old)
            /\ old[i].name = x.name /\ sub = [old EXCEPT ![i] = x]
        BY Zenon, <1>1, <2>2, <4>1, <4>2, <4>3, <4>4
      <4>6. /\ sub \in Seq(Result) /\ KeepsNames(sub, old)
            /\ HasName(sub, x.name)
        BY Zenon, <4>5, ReplacedResult
      <4>. QED
        BY Zenon, <4>4, <4>6
    <3>. QED
      BY Zenon, <3>1, <3>2
  <2>. HIDE DEF sub
  <2>5. e \in Entry /\ e.name = j.suite /\ e.sub = sub
    BY Zenon, <2>1, <2>2, <2>4 DEF Entry
  <2>. HIDE DEF e
  <2>6. /\ new \in Seq(Entry) /\ Len(new) = Len(results) /\ new[p] = e
        /\ \A k \in 1..Len(results) : k # p => new[k] = results[k]
    BY SMTT(30), <2>1, <2>3, <2>5, Overwritten
  <2>7. Len(results) <= Len(new)
    BY SMTT(30), <1>1, <2>6
  <2>8. Keeps(new, results)
    BY Zenon, <2>1, <2>4, <2>5, <2>6, <2>7, NewTable
  <2>9. InTable(<<j.suite, j.script>>, new)
    <3>1. PICK n \in 1..Len(sub) : sub[n].name = x.name
      BY Zenon, <2>4 DEF HasName
    <3>2. /\ n \in 1..Len(new[p].sub)
          /\ <<j.suite, j.script>> = <<new[p].name, new[p].sub[n].name>>
      BY Zenon, <1>1, <2>5, <2>6, <3>1
    <3>3. p \in 1..Len(new)
      BY Zenon, <2>1, <2>6
    <3>. HIDE DEF p
    <3>. QED
      BY Zenon, <3>2, <3>3 DEF InTable
  <2>. QED
    BY ZenonT(30), <2>1, <2>5, <2>6, <2>8, <2>9
<1>. QED
  BY Zenon, <1>2, <1>3

\* YamlGlobalTestResults.finalize writes a verdict.
Finalized(q, p, v) == [q EXCEPT ![p].status = v]

\* finalize writes the status of one record and nothing else.
LEMMA WrittenVerdict ==
    ASSUME results \in Seq(Entry), NEW p \in 1..Len(results),
           NEW v \in Statuses, NEW new, new = Finalized(results, p, v)
    PROVE  /\ new \in Seq(Entry) /\ Keeps(new, results)
           /\ Len(new) = Len(results)
           /\ new[p].status = v
           /\ \A k \in 1..Len(new) : /\ new[k].sub = results[k].sub
                                     /\ new[k].name = results[k].name
                                     /\ k # p => new[k] = results[k]
<1>. DEFINE e == [results[p] EXCEPT !.status = v]
<1>1. results[p] \in Entry /\ KeepsNames(results[p].sub, results[p].sub)
  BY Zenon, Entries
<1>2. /\ e \in Entry /\ e.status = v /\ e.sub = results[p].sub
      /\ e.name = results[p].name
  BY Zenon, <1>1 DEF Entry
<1>3. new = [results EXCEPT ![p] = e]
  BY Zenon DEF Finalized
<1>. HIDE DEF e
<1>4. /\ new \in Seq(Entry) /\ Len(new) = Len(results) /\ new[p] = e
      /\ \A k \in 1..Len(results) : k # p => new[k] = results[k]
  BY SMTT(30), <1>2, <1>3, Overwritten
<1>5. \A k \in 1..Len(new) : /\ new[k].sub = results[k].sub
                             /\ new[k].name = results[k].name
  BY Zenon, <1>2, <1>4
<1>6. Len(results) <= Len(new) /\ p \in Nat
  BY SMTT(30), <1>4
<1>7. Keeps(new, results)
  BY Zenon, <1>1, <1>2, <1>4, <1>6, NewTable
<1>. QED
  BY Zenon, <1>2, <1>4, <1>5, <1>7

\* What a console has looked up is still there in a table that keeps it.
LEMMA KeptStored ==
    ASSUME NEW j, NEW old, NEW new, Keeps(new, old), Stored(j, old)
    PROVE  Stored(j, new)
<1>1. /\ \A k \in 0..Len(old) : k \in 0..Len(new)
      /\ \A k \in 1..Len(old) : k \in 1..Len(new)
      /\ \A k \in 0..Len(old) : k # 0 => k \in 1..Len(old)
  BY SMTT(30) DEF Keeps, KeepsNames
<1>2. \A k \in 1..Len(old) :
         /\ \A i \in 0..Len(old[k].sub) : i \in 0..Len(new[k].sub)
         /\ \A i \in 0..Len(old[k].sub) : i # 0 => i \in 1..Len(old[k].sub)
  BY SMTT(30) DEF Keeps, KeepsNames
<1>. QED
  BY Zenon, <1>1, <1>2 DEF Stored, Keeps, KeepsNames

\* So is every result.
LEMMA KeptResult ==
    ASSUME NEW p, NEW old, NEW new, Keeps(new, old), InTable(p, old)
    PROVE  InTable(p, new)
<1>1. /\ \A k \in 1..Len(old) : k \in 1..Len(new)
      /\ \A k \in 1..Len(old) :
            \A i \in 1..Len(old[k].sub) : i \in 1..Len(new[k].sub)
  BY SMTT(30) DEF Keeps, KeepsNames
<1>. QED
  BY Zenon, <1>1 DEF InTable, Keeps, KeepsNames
-----------------------------------------------------------------------------
(* The invariant is kept                                                   *)

\* Every step of a console changes its own record alone.
LEMMA Moved ==
    ASSUME IsOver(con, Consoles), NEW c \in Consoles, NEW r, Set(c, r)
    PROVE  /\ IsOver(con, Consoles)' /\ con'[c] = r
           /\ \A d \in Consoles : d # c => con'[d] = con[d]
  BY Zenon DEF IsOver, Set

\* What the invariant says of the loaded suites.
LEMMA LoadedParts ==
    ASSUME LoadShapes
    PROVE  /\ loads \in Nat /\ gen \in 0..MaxReloads
           /\ dicts[gen] \in SUBSET Suites
           /\ Chosen \in [Suites -> SUBSET Scripts]
           /\ \A s \in Suites : Chosen[s] = Selected(gen, s, Scripts)
           /\ \A g \in 0..MaxReloads, s \in Suites : \A match :
                 Selected(g, s, match) \in SUBSET Scripts
<1>1. loads \in Nat /\ gen \in 0..MaxReloads /\ dicts[gen] \in SUBSET Suites
  BY Zenon DEF LoadShapes
<1>2. \A g \in 0..MaxReloads, s \in Suites : \A match :
         Selected(g, s, match) \in SUBSET Scripts
  BY Zenon DEF LoadShapes, Selected
<1>3. /\ Chosen \in [Suites -> SUBSET Scripts]
      /\ \A s \in Suites : Chosen[s] = Selected(gen, s, Scripts)
  BY Zenon, <1>1, <1>2 DEF Chosen
<1>. QED
  BY Zenon, <1>1, <1>2, <1>3

\* They are the same while the loaded suites are.
LEMMA ChosenKept ==
    ASSUME gen' = gen, coll'[gen] = coll[gen]
    PROVE  Chosen' = Chosen
  BY Zenon DEF Chosen, Selected

\* A step of a console that loads nothing.
LEMMA RunsMoved ==
    ASSUME IsOver(con, Consoles), RunsInv, NEW c \in Consoles, NEW r, Set(c, r),
           gen' = gen, loads' = loads, dicts'[gen] = dicts[gen],
           coll'[gen] = coll[gen], r.pc # "fill",
           Good(r, loads, gen, dicts[gen], Chosen),
           r.since = loads => ~Filling(gen)
    PROVE  RunsInv'
<1>1. /\ con'[c] = r /\ \A d \in Consoles : d # c => con'[d] = con[d]
      /\ Chosen' = Chosen
  BY Zenon, Moved, ChosenKept
<1>2. Filling(gen)' => Filling(gen)
  BY Zenon, <1>1 DEF Filling
<1>. SUFFICES ASSUME NEW d \in Consoles
              PROVE  /\ Good(con[d], loads, gen, dicts[gen], Chosen)'
                     /\ con'[d].since = loads' => ~Filling(gen)'
  BY Zenon DEF RunsInv
<1>3. CASE d = c
  BY Zenon, <1>1, <1>2, <1>3
<1>4. CASE d # c
  BY Zenon, <1>1, <1>2, <1>4 DEF RunsInv
<1>. QED
  BY Zenon, <1>3, <1>4

\* A step of a console that is not at the table.
LEMMA TableMoved ==
    ASSUME IsOver(con, Consoles), TableInv, NEW c \in Consoles, NEW r, Set(c, r),
           UNCHANGED tableVars, con[c].pc \notin {"read", "write"},
           r.pc # "write", Stored(r, results), Reported(r)
    PROVE  TableInv'
<1>1. /\ con'[c] = r /\ \A d \in Consoles : d # c => con'[d] = con[d]
      /\ results' = results /\ recorded' = recorded /\ stale' = stale
      /\ torn' = torn
  BY Zenon, Moved DEF tableVars
<1>2. ASSUME NEW d \in Consoles
      PROVE  Stored(con[d], results)' /\ Reported(con[d])'
  <2>1. CASE d = c
    BY Zenon, <1>1, <2>1
  <2>2. CASE d # c
    BY Zenon, <1>1, <2>2 DEF TableInv
  <2>. QED
    BY Zenon, <2>1, <2>2
<1>3. Verdicts'
  BY Zenon, <1>1 DEF Verdicts, TableInv
<1>4. ASSUME NEW k \in 1..Len(results)
      PROVE  Settled(k)'
  BY Zenon, <1>1 DEF Settled, TableInv
<1>5. \A p \in recorded' : InTable(p, results)'
  BY Zenon, <1>1 DEF TableInv
<1>. QED
  BY Zenon, <1>1, <1>2, <1>3, <1>4, <1>5 DEF TableInv

\* Both.
LEMMA Quiet ==
    ASSUME ExperimentsInv, NEW c \in Consoles, NEW r, Set(c, r),
           disk' \in Disks, UNCHANGED <<gen, loads, dicts, coll>>,
           UNCHANGED tableVars, con[c].pc \notin {"read", "write"},
           r.pc \notin {"fill", "write"},
           Good(r, loads, gen, dicts[gen], Chosen),
           r.since = loads => ~Filling(gen),
           Stored(r, results), Reported(r)
    PROVE  ExperimentsInv'
<1>1. LoadShapes'
  BY Zenon DEF ExperimentsInv, LoadShapes
<1>2. IsOver(con, Consoles)'
  BY Zenon, Moved DEF ExperimentsInv
<1>3. RunsInv'
  BY Zenon, RunsMoved DEF ExperimentsInv
<1>4. TableInv'
  BY Zenon, TableMoved DEF ExperimentsInv
<1>. QED
  BY Zenon, <1>1, <1>2, <1>3, <1>4 DEF ExperimentsInv

\* A console at its prompt owes nothing.
LEMMA IdleGood ==
    ASSUME NEW now \in Nat, NEW g, NEW in, NEW chosen, NEW table
    PROVE  /\ Good(Idle, now, g, in, chosen) /\ Idle.since # now
           /\ Idle.pc = "idle" /\ Stored(Idle, table) /\ Reported(Idle)
<1>. SUFFICES ASSUME NEW j, j = Idle
              PROVE  /\ Good(j, now, g, in, chosen) /\ j.since # now
                     /\ j.pc = "idle" /\ Stored(j, table) /\ Reported(j)
  BY Zenon
<1>1. /\ IsJob(j) /\ j.pc = "idle" /\ j.kind = "unset" /\ j.g = 0
      /\ j.left = {} /\ j.todo = {} /\ j.ran = <<>>
      /\ j.since = -1 /\ j.rec.pos = 1
  BY Zenon DEF Idle, NoRecord, IsJob, IsOver, JobFields, RecFields
<1>2. /\ -1 \in Int /\ -1 <= now /\ -1 # now /\ 0 \in 0..MaxReloads
      /\ <<>> \in Seq(Suites \X Scripts) /\ Len(<<>>) = 0
      /\ 1 \in Nat \ {0} /\ 1..0 = {}
  BY SMTT(30), ExperimentsAssumption
<1>3. Ordered(j, now)
  BY Zenon, <1>1, <1>2 DEF Ordered, Looping
<1>4. Calm(j, now, g, in, chosen) /\ j.since # now
  BY Zenon, <1>1, <1>2 DEF Calm
<1>5. Stored(j, table) /\ Reported(j)
  BY Zenon, <1>1, <1>2 DEF Stored, Reported
<1>. QED
  BY Zenon, <1>1, <1>3, <1>4, <1>5 DEF Good

\* The prompt is back.
LEMMA EndedStep ==
    ASSUME ExperimentsInv, NEW c \in Consoles, Ended(c), disk' \in Disks,
           UNCHANGED <<gen, loads, dicts, coll>>, UNCHANGED tableVars,
           con[c].pc \notin {"read", "write"}
    PROVE  ExperimentsInv'
<1>1. /\ Good(Idle, loads, gen, dicts[gen], Chosen) /\ Idle.since # loads
      /\ Idle.pc = "idle" /\ Stored(Idle, results) /\ Reported(Idle)
  BY Zenon, IdleGood DEF ExperimentsInv, LoadShapes
<1>. QED
  BY Zenon, <1>1, Quiet DEF Ended
\* What the invariant says of one console.
LEMMA ConsoleParts ==
    ASSUME ExperimentsInv, NEW c \in Consoles
    PROVE  /\ Good(con[c], loads, gen, dicts[gen], Chosen) /\ IsJob(con[c])
           /\ Ordered(con[c], loads)
           /\ Calm(con[c], loads, gen, dicts[gen], Chosen)
           /\ con[c].since = loads => ~Filling(gen)
           /\ Stored(con[c], results) /\ Reported(con[c])
           /\ IsOver(con, Consoles)
           /\ disk \in Disks
           /\ loads \in Nat /\ gen \in 0..MaxReloads
           /\ dicts[gen] \in SUBSET Suites
           /\ Chosen \in [Suites -> SUBSET Scripts]
  BY Zenon, LoadedParts DEF ExperimentsInv, RunsInv, TableInv, Good, LoadShapes

\* A console that stays away from the table has nothing to look up.
LEMMA AwayStored ==
    ASSUME NEW j, NEW r, NEW table, Stored(j, table),
           j.pc \notin {"read", "write"}, r.rec = j.rec,
           r.pc \in {"count", "begin", "suites", "scripts", "script", "returned",
                     "raised"}
    PROVE  Stored(r, table) /\ Reported(r)
  BY Zenon DEF Stored, Reported

\* A step of a run.
LEMMA RunStep ==
    ASSUME ExperimentsInv, NEW c \in Consoles, NEW r, Set(c, r),
           Good(r, loads, gen, dicts[gen], Chosen), r.rec = con[c].rec,
           r.since = con[c].since, con[c].pc \notin {"read", "write"},
           r.pc \in {"count", "begin", "suites", "scripts", "script", "returned",
                     "raised"},
           UNCHANGED <<suiteVars, tableVars>>
    PROVE  ExperimentsInv'
<1>1. Stored(r, results) /\ Reported(r)
  BY Zenon, ConsoleParts, AwayStored
<1>2. UNCHANGED <<gen, loads, dicts, coll>> /\ UNCHANGED tableVars /\ disk' = disk
  BY Zenon DEF suiteVars
<1>. QED
  BY Zenon, <1>1, <1>2, ConsoleParts, Quiet

\* The loops of the runner.
LEMMA CountStep ==
    ASSUME ExperimentsInv, NEW c \in Consoles, Count(c) PROVE ExperimentsInv'
<1>. DEFINE j == con[c]
<1>0. UNCHANGED <<suiteVars, tableVars>> /\ j.pc = "count"
  BY Zenon DEF Count
<1>1. CASE Set(c, [j EXCEPT !.pc = "begin", !.counted = j.want \cap dicts[gen]])
  <2>1. PICK r : r = [j EXCEPT !.pc = "begin", !.counted = j.want \cap dicts[gen]]
    BY Zenon
  <2>2. r.pc = "begin" /\ r.rec = j.rec /\ r.since = j.since
    BY SMTT(30), <2>1, ConsoleParts DEF IsJob, IsOver, JobFields
  <2>3. Good(r, loads, gen, dicts[gen], Chosen)
    BY Zenon, <1>0, <2>1, ConsoleParts, CountJob
  <2>. QED
    BY Zenon, <1>0, <1>1, <2>1, <2>2, <2>3, RunStep
<1>2. CASE Filling(gen) /\ Raise(c, "reload")
  <2>1. PICK r : r = [j EXCEPT !.pc = "raised", !.why = "reload"]
    BY Zenon
  <2>2. r.pc = "raised" /\ r.rec = j.rec /\ r.since = j.since
    BY SMTT(30), <2>1, ConsoleParts DEF IsJob, IsOver, JobFields
  <2>3. Good(r, loads, gen, dicts[gen], Chosen)
    BY Zenon, <1>0, <1>2, <2>1, ConsoleParts, RaiseJob
  <2>. QED
    BY Zenon, <1>0, <1>2, <2>1, <2>2, <2>3, RunStep DEF Raise
<1>. QED
  BY Zenon, <1>1, <1>2 DEF Count

\* Suites.execute_method_by_name takes the dictionary for its second loop.
LEMMA BeginStep ==
    ASSUME ExperimentsInv, NEW c \in Consoles, Begin(c) PROVE ExperimentsInv'
<1>. DEFINE j == con[c]
<1>0. UNCHANGED <<suiteVars, tableVars>> /\ j.pc = "begin"
  BY Zenon DEF Begin
<1>1. Set(c, [j EXCEPT !.pc = "suites", !.g = gen,
                       !.size = Cardinality(dicts[gen]), !.left = dicts[gen]])
  BY Zenon DEF Begin
<1>2. PICK r : r = [j EXCEPT !.pc = "suites", !.g = gen,
                             !.size = Cardinality(dicts[gen]), !.left = dicts[gen]]
  BY Zenon
<1>3. r.pc = "suites" /\ r.rec = j.rec /\ r.since = j.since
  BY SMTT(30), <1>2, ConsoleParts DEF IsJob, IsOver, JobFields
<1>4. Good(r, loads, gen, dicts[gen], Chosen)
  BY Zenon, <1>0, <1>2, ConsoleParts, BeginJob
<1>. QED
  BY Zenon, <1>0, <1>1, <1>2, <1>3, <1>4, RunStep

\* ... and goes on to its next suite, or ends.
LEMMA NextSuiteStep ==
    ASSUME ExperimentsInv, NEW c \in Consoles, NextSuite(c) PROVE ExperimentsInv'
<1>. DEFINE j == con[c]
<1>0. UNCHANGED <<suiteVars, tableVars>> /\ j.pc = "suites"
  BY Zenon DEF NextSuite
<1>1. CASE Cardinality(dicts[j.g]) # j.size /\ Raise(c, "reload")
  <2>0. j.since # loads
    BY Zenon, <1>0, <1>1, ConsoleParts DEF Ordered, Calm
  <2>1. PICK r : r = [j EXCEPT !.pc = "raised", !.why = "reload"]
    BY Zenon
  <2>2. r.pc = "raised" /\ r.rec = j.rec /\ r.since = j.since
    BY ZenonT(30), <2>1, ConsoleParts DEF IsJob, IsOver, JobFields
  <2>3. Good(r, loads, gen, dicts[gen], Chosen)
    BY Zenon, <1>0, <2>0, <2>1, ConsoleParts, RaiseJob
  <2>. QED
    BY Zenon, <1>0, <1>1, <2>1, <2>2, <2>3, RunStep DEF Raise
<1>2. CASE j.left = {} /\ Goto(c, "returned")
  <2>1. PICK r : r = [j EXCEPT !.pc = "returned"]
    BY Zenon
  <2>2. r.pc = "returned" /\ r.rec = j.rec /\ r.since = j.since
    BY SMTT(30), <2>1, ConsoleParts DEF IsJob, IsOver, JobFields
  <2>3. Good(r, loads, gen, dicts[gen], Chosen)
    BY Zenon, <1>0, <1>2, <2>1, ConsoleParts, LastSuite
  <2>. QED
    BY Zenon, <1>0, <1>2, <2>1, <2>2, <2>3, RunStep DEF Goto
<1>3. ASSUME NEW s \in j.left, s \notin j.want, Set(c, [j EXCEPT !.left = @ \ {s}])
      PROVE  ExperimentsInv'
  <2>1. PICK r : r = [j EXCEPT !.left = @ \ {s}]
    BY Zenon
  <2>2. r.pc = j.pc /\ r.rec = j.rec /\ r.since = j.since
    BY SMTT(30), <2>1, ConsoleParts DEF IsJob, IsOver, JobFields
  <2>3. Good(r, loads, gen, dicts[gen], Chosen)
    BY Zenon, <1>0, <1>3, <2>1, ConsoleParts, PassOver
  <2>. QED
    BY Zenon, <1>0, <1>3, <2>1, <2>2, <2>3, RunStep
<1>4. ASSUME NEW s \in j.left, s \in j.want \ j.counted, Raise(c, "reload")
      PROVE  ExperimentsInv'
  <2>0. j.since # loads
    BY Zenon, <1>0, <1>4, ConsoleParts DEF Ordered, Calm
  <2>1. PICK r : r = [j EXCEPT !.pc = "raised", !.why = "reload"]
    BY Zenon
  <2>2. r.pc = "raised" /\ r.rec = j.rec /\ r.since = j.since
    BY SMTT(30), <2>1, ConsoleParts DEF IsJob, IsOver, JobFields
  <2>3. Good(r, loads, gen, dicts[gen], Chosen)
    BY Zenon, <1>0, <2>0, <2>1, ConsoleParts, RaiseJob
  <2>. QED
    BY Zenon, <1>0, <1>4, <2>1, <2>2, <2>3, RunStep DEF Raise
<1>5. ASSUME NEW s \in j.left, s \in j.want,
             Set(c, [j EXCEPT !.pc = "scripts", !.left = @ \ {s}, !.suite = s,
                              !.todo = Selected(j.g, s, Scripts)])
      PROVE  ExperimentsInv'
  <2>0. /\ Selected(j.g, s, Scripts) \in SUBSET Scripts
        /\ j.since = loads => Selected(j.g, s, Scripts) = Chosen[s]
    <3>1. s \in Suites /\ j.g \in 0..MaxReloads
      BY Zenon, <1>5, ConsoleParts DEF Ordered
    <3>2. j.since = loads => j.g = gen
      BY Zenon, <1>0, ConsoleParts DEF Ordered, Calm
    <3>. QED
      BY Zenon, <3>1, <3>2, LoadedParts DEF ExperimentsInv
  <2>1. PICK r : r = [j EXCEPT !.pc = "scripts", !.left = @ \ {s}, !.suite = s,
                               !.todo = Selected(j.g, s, Scripts)]
    BY Zenon
  <2>2. r.pc = "scripts" /\ r.rec = j.rec /\ r.since = j.since
    BY SMTT(30), <2>1, ConsoleParts DEF IsJob, IsOver, JobFields
  <2>3. Good(r, loads, gen, dicts[gen], Chosen)
    BY Zenon, <1>0, <1>5, <2>0, <2>1, ConsoleParts, EnterSuite
  <2>. QED
    BY Zenon, <1>0, <1>5, <2>1, <2>2, <2>3, RunStep
<1>. QED
  BY Zenon, <1>1, <1>2, <1>3, <1>4, <1>5 DEF NextSuite

\* Collection.execute_method_by_name goes on to its next script, or ends.
LEMMA NextScriptStep ==
    ASSUME ExperimentsInv, NEW c \in Consoles, NextScript(c) PROVE ExperimentsInv'
<1>. DEFINE j == con[c]
<1>0. UNCHANGED <<suiteVars, tableVars>> /\ j.pc = "scripts"
  BY Zenon DEF NextScript
<1>1. CASE j.todo = {} /\ Goto(c, IF j.kind = "suites" THEN "suites" ELSE "returned")
  <2>0. PICK to \in {"suites", "returned"} :
           to = IF j.kind = "suites" THEN "suites" ELSE "returned"
    BY Zenon
  <2>1. PICK r : r = [j EXCEPT !.pc = to]
    BY Zenon
  <2>2. r.pc = to /\ r.rec = j.rec /\ r.since = j.since
    BY SMTT(30), <2>1, ConsoleParts DEF IsJob, IsOver, JobFields
  <2>3. Good(r, loads, gen, dicts[gen], Chosen)
    BY Zenon, <1>0, <1>1, <2>0, <2>1, ConsoleParts, LastScript
  <2>. QED
    BY Zenon, <1>0, <1>1, <2>0, <2>1, <2>2, <2>3, RunStep DEF Goto
<1>2. ASSUME NEW x \in j.todo, \A y \in j.todo : x <= y,
             Set(c, [j EXCEPT !.pc = "script", !.script = x, !.todo = @ \ {x}])
      PROVE  ExperimentsInv'
  <2>1. PICK r : r = [j EXCEPT !.pc = "script", !.script = x, !.todo = @ \ {x}]
    BY Zenon
  <2>2. r.pc = "script" /\ r.rec = j.rec /\ r.since = j.since
    BY SMTT(30), <2>1, ConsoleParts DEF IsJob, IsOver, JobFields
  <2>3. Good(r, loads, gen, dicts[gen], Chosen)
    BY Zenon, <1>0, <1>2, <2>1, ConsoleParts, TakeScript
  <2>. QED
    BY Zenon, <1>0, <1>2, <2>1, <2>2, <2>3, RunStep
<1>. QED
  BY Zenon, <1>1, <1>2 DEF NextScript
\* Script.execute_method_by_name: the script is done, and its result is to be
\* recorded or not.
LEMMA ExecutedStep ==
    ASSUME ExperimentsInv, NEW c \in Consoles, con[c].pc = "script",
           UNCHANGED <<suiteVars, tableVars>>,
           NEW r, Set(c, r), IsJob(r), Follows(r, con[c]),
           r.ran = Append(con[c].ran, <<con[c].suite, con[c].script>>),
           r.rec.pos = con[c].rec.pos,
           \/ r.pc = "lookup" /\ r.rec.status \in Statuses
           \/ r.pc = AfterScript(con[c])
    PROVE  ExperimentsInv'
<1>1. /\ r.pc \in {"lookup", "scripts", "returned"}
      /\ r.pc = "returned" => con[c].kind = "script"
  BY Zenon DEF AfterScript
<1>2. Good(r, loads, gen, dicts[gen], Chosen)
  BY Zenon, <1>1, ConsoleParts, ExecutedJob
<1>3. Stored(r, results) /\ Reported(r)
  <2>1. Stored(con[c], results)
    BY Zenon, ConsoleParts
  <2>. QED
    BY Zenon, <1>1, <2>1 DEF Stored, Reported, AfterScript
<1>4. UNCHANGED <<gen, loads, dicts, coll>> /\ UNCHANGED tableVars /\ disk' = disk
  BY Zenon DEF suiteVars
<1>5. r.since = loads => ~Filling(gen)
  BY Zenon, ConsoleParts DEF Follows
<1>. QED
  BY Zenon, <1>1, <1>2, <1>3, <1>4, <1>5, ConsoleParts, Quiet

\* A script is behind the console; its result may be in its hands.
Passed(j, pc) ==
    [j EXCEPT !.pc = pc, !.ran = Append(@, <<j.suite, j.script>>)]
Taken(j, pc, status) ==
    [j EXCEPT !.pc = pc, !.rec.status = status,
              !.ran = Append(@, <<j.suite, j.script>>)]

RanOn(j) == Append(j.ran, <<j.suite, j.script>>)

\* A script without the method is passed over.
LEMMA PassedOn ==
    ASSUME NEW j, IsJob(j), NEW pc, NEW r, r = Passed(j, pc)
    PROVE  /\ IsJob(r) /\ Follows(r, j) /\ r.pc = pc /\ r.rec = j.rec
           /\ r.ran = RanOn(j)
<1>1. PICK ran : ran = RanOn(j)
  BY Zenon
<1>2. r = [j EXCEPT !.pc = pc, !.ran = ran]
  BY Zenon, <1>1 DEF Passed, RanOn
<1>3. IsJob(r) /\ r.pc = pc /\ r.rec = j.rec /\ r.ran = ran
  BY Zenon, <1>2 DEF IsJob, IsOver, JobFields
<1>4. Follows(r, j)
  <2>1. /\ r.kind = j.kind /\ r.want = j.want /\ r.counted = j.counted
        /\ r.g = j.g /\ r.size = j.size /\ r.left = j.left
    BY Zenon, <1>2 DEF IsJob, IsOver, JobFields
  <2>2. /\ r.suite = j.suite /\ r.todo = j.todo /\ r.script = j.script
        /\ r.due = j.due /\ r.why = j.why /\ r.since = j.since
    BY Zenon, <1>2 DEF IsJob, IsOver, JobFields
  <2>. QED
    BY Zenon, <2>1, <2>2 DEF Follows
<1>. QED
  BY Zenon, <1>1, <1>3, <1>4

\* A script has ended with a status.
LEMMA TakenDown ==
    ASSUME NEW j, IsJob(j), NEW pc, NEW status, NEW r, r = Taken(j, pc, status)
    PROVE  /\ IsJob(r) /\ Follows(r, j) /\ r.pc = pc /\ r.rec.status = status
           /\ r.rec.pos = j.rec.pos
           /\ r.ran = RanOn(j)
<1>1. PICK ran : ran = RanOn(j)
  BY Zenon
<1>2. PICK m : m = [j.rec EXCEPT !.status = status]
  BY Zenon
<1>3. IsOver(m, RecFields) /\ m.status = status /\ m.pos = j.rec.pos
  BY Zenon, <1>2 DEF IsJob, IsOver, RecFields
<1>4. r = [j EXCEPT !.pc = pc, !.rec = m, !.ran = ran]
  BY Zenon, <1>1, <1>2 DEF Taken, RanOn
<1>5. IsOver(r, JobFields) /\ r.pc = pc /\ r.rec = m /\ r.ran = ran
  BY Zenon, <1>4 DEF IsJob, IsOver, JobFields
<1>6. Follows(r, j)
  <2>1. /\ r.kind = j.kind /\ r.want = j.want /\ r.counted = j.counted
        /\ r.g = j.g /\ r.size = j.size /\ r.left = j.left
    BY ZenonT(30), <1>4 DEF IsJob, IsOver, JobFields
  <2>2. /\ r.suite = j.suite /\ r.todo = j.todo /\ r.script = j.script
        /\ r.due = j.due /\ r.why = j.why /\ r.since = j.since
    BY ZenonT(30), <1>4 DEF IsJob, IsOver, JobFields
  <2>. QED
    BY Zenon, <2>1, <2>2 DEF Follows
<1>. QED
  BY Zenon, <1>1, <1>3, <1>5, <1>6 DEF IsJob

\* Script.execute_method_by_name has a result to record.
LEMMA RecordedStep ==
    ASSUME ExperimentsInv, NEW c \in Consoles, con[c].pc = "script",
           UNCHANGED <<suiteVars, tableVars>>,
           NEW status \in Statuses, Executed(c, status)
    PROVE  ExperimentsInv'
<1>. DEFINE j == con[c]
<1>1. PICK pc : pc = IF j.method = "run" THEN "lookup" ELSE AfterScript(j)
  BY Zenon
<1>2. PICK st : st = IF j.method = "run" THEN status ELSE "unset"
  BY Zenon
<1>3. PICK r : r = Taken(j, pc, st)
  BY Zenon
<1>4. Set(c, r)
  BY Zenon, <1>1, <1>2, <1>3 DEF Executed, Taken
<1>5. /\ IsJob(r) /\ Follows(r, j) /\ r.pc = pc /\ r.rec.status = st
      /\ r.ran = RanOn(j)
      /\ r.rec.pos = j.rec.pos
  <2>1. IsJob(j)
    BY Zenon, ConsoleParts
  <2>. QED
    BY SMTT(30), <1>3, <2>1, TakenDown
<1>6. \/ r.pc = "lookup" /\ r.rec.status \in Statuses
      \/ r.pc = AfterScript(j)
  BY Zenon, <1>1, <1>2, <1>5
<1>. QED
  BY Zenon, <1>4, <1>5, <1>6, ExecutedStep DEF RanOn

\* Script.execute_method_by_name, whatever the script does.
LEMMA ExecuteStep ==
    ASSUME ExperimentsInv, NEW c \in Consoles, Execute(c) PROVE ExperimentsInv'
<1>. DEFINE j == con[c]
<1>0. UNCHANGED <<suiteVars, tableVars>> /\ j.pc = "script"
  BY Zenon DEF Execute
<1>1. ASSUME NEW why \in {"halt", "import"}, Raise(c, why)
      PROVE  ExperimentsInv'
  <2>1. PICK r : r = [j EXCEPT !.pc = "raised", !.why = why]
    BY Zenon
  <2>2. r.pc = "raised" /\ r.rec = j.rec /\ r.since = j.since
    BY SMTT(30), <2>1, ConsoleParts DEF IsJob, IsOver, JobFields
  <2>3. Good(r, loads, gen, dicts[gen], Chosen)
    BY Zenon, <1>0, <2>1, ConsoleParts, RaiseJob
  <2>. QED
    BY Zenon, <1>0, <1>1, <2>1, <2>2, <2>3, RunStep DEF Raise
<1>2. CASE Set(c, Passed(j, AfterScript(j)))
  <2>1. PICK r : r = Passed(j, AfterScript(j))
    BY Zenon
  <2>2. /\ IsJob(r) /\ Follows(r, j) /\ r.pc = AfterScript(j)
        /\ r.ran = RanOn(j)
        /\ r.rec = j.rec
    <3>1. IsJob(j)
      BY Zenon, ConsoleParts
    <3>. QED
      BY SMTT(30), <2>1, <3>1, PassedOn
  <2>. QED
    BY Zenon, <1>0, <1>2, <2>1, <2>2, ExecutedStep DEF RanOn
<1>3. ASSUME NEW x \in Returned, Executed(c, Normalize(x))
      PROVE  ExperimentsInv'
  <2>1. Normalize(x) \in Statuses
    BY Zenon DEF Normalize, Statuses
  <2>. QED
    BY Zenon, <1>0, <1>3, <2>1, RecordedStep
<1>4. CASE Executed(c, "FAIL")
  <2>1. "FAIL" \in Statuses
    BY Zenon DEF Statuses
  <2>. QED
    BY Zenon, <1>0, <1>4, <2>1, RecordedStep
<1>. QED
  BY Zenon, <1>1, <1>2, <1>3, <1>4 DEF Execute, Passed

\* An operation that begins: nothing is behind it.
LEMMA JobParts ==
    ASSUME loads \in Nat, NEW kind, NEW method, NEW want, NEW due,
           NEW j, j = Job(kind, method, want, due)
    PROVE  /\ IsJob(j) /\ j.pc = "count" /\ j.kind = kind /\ j.want = want
           /\ j.g = gen /\ j.left = {} /\ j.suite = "unset" /\ j.todo = {}
           /\ j.rec = NoRecord /\ j.due = due /\ j.ran = <<>> /\ j.why = "unset"
           /\ j.since \in {-1, loads} /\ (j.since = loads => ~Filling(gen))
<1>1. PICK since : since = IF Filling(gen) THEN -1 ELSE loads
  BY Zenon
<1>2. j = [Idle EXCEPT !.pc = "count", !.kind = kind, !.method = method,
                       !.want = want, !.g = gen, !.due = due, !.since = since]
  BY Zenon, <1>1 DEF Job
<1>3. /\ IsJob(j) /\ j.pc = "count" /\ j.kind = kind /\ j.want = want
      /\ j.g = gen /\ j.left = {} /\ j.suite = "unset" /\ j.todo = {}
      /\ j.rec = NoRecord /\ j.due = due /\ j.ran = <<>> /\ j.why = "unset"
      /\ j.since = since
  <2>1. PICK i : i = Idle
    BY Zenon
  <2>2. /\ IsOver(i, JobFields) /\ i.left = {} /\ i.suite = "unset" /\ i.todo = {}
        /\ i.rec = NoRecord /\ i.ran = <<>> /\ i.why = "unset"
    BY Zenon, <2>1 DEF Idle, IsOver, JobFields
  <2>3. IsOver(NoRecord, RecFields)
    BY Zenon DEF NoRecord, IsOver, RecFields
  <2>4. IsOver(j, JobFields)
    BY Zenon, <1>2, <2>1, <2>2 DEF IsOver, JobFields
  <2>5. /\ j.pc = "count" /\ j.kind = kind /\ j.want = want /\ j.g = gen
        /\ j.due = due /\ j.since = since
    BY SMTT(30), <1>2, <2>1, <2>2 DEF IsOver, JobFields
  <2>6. /\ j.left = i.left /\ j.suite = i.suite /\ j.todo = i.todo
        /\ j.rec = i.rec /\ j.ran = i.ran /\ j.why = i.why
    BY SMTT(30), <1>2, <2>1, <2>2 DEF IsOver, JobFields
  <2>. QED
    BY Zenon, <2>2, <2>3, <2>4, <2>5, <2>6 DEF IsJob
<1>4. since \in {-1, loads} /\ (since = loads => ~Filling(gen))
  BY SMTT(30), <1>1
<1>. QED
  BY Zenon, <1>3, <1>4

Starts(r, in, chosen) ==
    \/ /\ r.pc = "count" /\ r.kind = "suites" /\ r.todo = {}
       /\ r.due = UNION {Pairs(s, chosen[s]) : s \in r.want \cap in}
    \/ /\ r.pc = "scripts" /\ r.kind = "suite" /\ r.suite \in Suites
       /\ r.todo \in SUBSET Scripts /\ r.due = Pairs(r.suite, r.todo)
    \/ /\ r.pc = "script" /\ r.kind = "script" /\ r.suite \in Suites
       /\ r.todo = {} /\ r.script \in Scripts
       /\ r.due = {<<r.suite, r.script>>}

\* A console at its prompt starts an operation on scripts.
LEMMA Began ==
    ASSUME ExperimentsInv, NEW c \in Consoles, NEW r, Set(c, r),
           con[c].pc = "idle", UNCHANGED <<suiteVars, tableVars>>,
           IsJob(r), r.rec = NoRecord, r.g = gen, r.left = {}, r.ran = <<>>,
           r.why = "unset", r.since \in {-1, loads},
           r.since = loads => ~Filling(gen),
           Starts(r, dicts[gen], Chosen)
    PROVE  ExperimentsInv'
<1>1. /\ r.pc \in {"count", "scripts", "script"} /\ r.rec.pos = 1
      /\ r.todo \in SUBSET Scripts
  BY SMTT(30) DEF NoRecord, Starts
<1>2. /\ -1 \in Int /\ -1 <= loads /\ loads \in Int /\ loads <= loads
      /\ <<>> \in Seq(Suites \X Scripts) /\ Len(<<>>) = 0 /\ 1..0 = {}
      /\ gen \in 0..MaxReloads
  BY SMTT(30), ConsoleParts
<1>3. Ordered(r, loads)
  BY Zenon, <1>1, <1>2 DEF Ordered, Looping, Starts
<1>4. Coming(r, dicts[gen], Chosen) = r.due
  <2>1. Range(<<>>) = {}
    BY SMTT(30) DEF Range
  <2>2. CASE r.pc = "count"
    <3>1. Pairs(r.suite, AtHand(r)) = {}
      BY Zenon, <2>2 DEF Pairs, AtHand, Starts
    <3>. QED
      BY Zenon, <2>1, <2>2, <3>1 DEF Coming, Ahead, Starts
  <2>3. CASE r.pc = "scripts"
    <3>1. AtHand(r) = r.todo /\ Ahead(r, dicts[gen]) = {}
      BY Zenon, <2>3 DEF AtHand, Ahead, Starts
    <3>. QED
      BY ZenonT(30), <2>1, <2>3, <3>1 DEF Coming, Starts
  <2>4. CASE r.pc = "script"
    <3>1. AtHand(r) = {r.script} /\ Ahead(r, dicts[gen]) = {}
      BY Zenon, <2>4 DEF AtHand, Ahead, Starts
    <3>. QED
      BY SMTT(30), <2>1, <2>4, <3>1 DEF Coming, Pairs, Starts
  <2>. QED
    BY Zenon, <1>1, <2>2, <2>3, <2>4
<1>5. Calm(r, loads, gen, dicts[gen], Chosen)
  BY Zenon, <1>1, <1>4 DEF Calm, Starts
<1>6. Stored(r, results) /\ Reported(r)
  BY SMTT(30), <1>1 DEF Stored, Reported
<1>7. UNCHANGED <<gen, loads, dicts, coll>> /\ UNCHANGED tableVars /\ disk' = disk
  BY Zenon DEF suiteVars
<1>8. Good(r, loads, gen, dicts[gen], Chosen)
  BY Zenon, <1>3, <1>5 DEF Good
<1>. QED
  BY Zenon, <1>1, <1>6, <1>7, <1>8, ConsoleParts, Quiet
\* Suites.run and Suites.initialize.
LEMMA RunSuitesStep ==
    ASSUME ExperimentsInv, NEW c \in Consoles, RunSuites(c) PROVE ExperimentsInv'
<1>1. PICK method \in Methods, want \in (SUBSET Suites) \ {{}} :
         Set(c, Job("suites", method, want,
                    UNION {Pairs(s, Selected(gen, s, Scripts)) :
                             s \in want \cap dicts[gen]}))
  BY Zenon DEF RunSuites
<1>2. PICK due : due = UNION {Pairs(s, Selected(gen, s, Scripts)) :
                                s \in want \cap dicts[gen]}
  BY Zenon
<1>3. PICK r : r = Job("suites", method, want, due)
  BY Zenon
<1>4. /\ IsJob(r) /\ r.pc = "count" /\ r.kind = "suites" /\ r.want = want
      /\ r.g = gen /\ r.left = {} /\ r.todo = {} /\ r.rec = NoRecord
      /\ r.due = due /\ r.ran = <<>> /\ r.why = "unset"
      /\ r.since \in {-1, loads} /\ (r.since = loads => ~Filling(gen))
  <2>1. loads \in Nat
    BY Zenon, ConsoleParts
  <2>. QED
    BY SMTT(30), <1>3, <2>1, JobParts
<1>5. due = UNION {Pairs(s, Chosen[s]) : s \in want \cap dicts[gen]}
  BY Zenon, <1>2 DEF Chosen
<1>6. Starts(r, dicts[gen], Chosen)
  BY Zenon, <1>4, <1>5 DEF Starts
<1>7. /\ Set(c, r) /\ con[c].pc = "idle" /\ UNCHANGED <<suiteVars, tableVars>>
  BY Zenon, <1>1, <1>2, <1>3 DEF RunSuites, Asks
<1>. QED
  BY Zenon, <1>4, <1>6, <1>7, Began

\* ASuite.run.
LEMMA RunSuiteStep ==
    ASSUME ExperimentsInv, NEW c \in Consoles, RunSuite(c) PROVE ExperimentsInv'
<1>1. PICK s \in dicts[gen], match \in {Scripts} \cup {{x} : x \in Scripts} :
         Set(c, [Job("suite", "run", {s}, Pairs(s, Selected(gen, s, match))) EXCEPT
                   !.pc = "scripts", !.suite = s,
                   !.todo = Selected(gen, s, match)])
  BY Zenon DEF RunSuite
<1>2. PICK xs : xs = Selected(gen, s, match)
  BY Zenon
<1>3. PICK k : k = Job("suite", "run", {s}, Pairs(s, xs))
  BY Zenon
<1>4. PICK r : r = [k EXCEPT !.pc = "scripts", !.suite = s, !.todo = xs]
  BY Zenon
<1>5. /\ IsJob(k) /\ k.kind = "suite" /\ k.g = gen /\ k.left = {}
      /\ k.rec = NoRecord /\ k.due = Pairs(s, xs) /\ k.ran = <<>>
      /\ k.why = "unset"
      /\ k.since \in {-1, loads} /\ (k.since = loads => ~Filling(gen))
  <2>1. loads \in Nat
    BY Zenon, ConsoleParts
  <2>. QED
    BY SMTT(30), <1>3, <2>1, JobParts
<1>6. /\ IsJob(r) /\ r.pc = "scripts" /\ r.kind = "suite" /\ r.suite = s
      /\ r.todo = xs /\ r.g = gen /\ r.left = {} /\ r.rec = NoRecord
      /\ r.due = Pairs(s, xs) /\ r.ran = <<>> /\ r.why = "unset"
      /\ r.since = k.since
  BY Zenon, <1>4, <1>5 DEF IsJob, IsOver, JobFields
<1>7. s \in Suites /\ xs \in SUBSET Scripts
  BY Zenon, <1>2, LoadedParts DEF ExperimentsInv
<1>8. Starts(r, dicts[gen], Chosen)
  BY Zenon, <1>6, <1>7 DEF Starts
<1>9. /\ Set(c, r) /\ con[c].pc = "idle" /\ UNCHANGED <<suiteVars, tableVars>>
  BY Zenon, <1>1, <1>2, <1>3, <1>4 DEF RunSuite, Asks
<1>. QED
  BY Zenon, <1>5, <1>6, <1>8, <1>9, Began

\* Script.run.
LEMMA RunScriptStep ==
    ASSUME ExperimentsInv, NEW c \in Consoles, RunScript(c) PROVE ExperimentsInv'
<1>1. PICK s \in dicts[gen] : \E x \in coll[gen][s].scripts :
         Set(c, [Job("script", "run", {s}, {<<s, x>>}) EXCEPT
                   !.pc = "script", !.suite = s, !.script = x])
  BY Zenon DEF RunScript
<1>2. PICK x \in coll[gen][s].scripts :
         Set(c, [Job("script", "run", {s}, {<<s, x>>}) EXCEPT
                   !.pc = "script", !.suite = s, !.script = x])
  BY Zenon, <1>1
<1>3. PICK k : k = Job("script", "run", {s}, {<<s, x>>})
  BY Zenon
<1>4. PICK r : r = [k EXCEPT !.pc = "script", !.suite = s, !.script = x]
  BY Zenon
<1>5. /\ IsJob(k) /\ k.kind = "script" /\ k.g = gen /\ k.left = {}
      /\ k.todo = {}
      /\ k.rec = NoRecord /\ k.due = {<<s, x>>} /\ k.ran = <<>>
      /\ k.why = "unset"
      /\ k.since \in {-1, loads} /\ (k.since = loads => ~Filling(gen))
  <2>1. loads \in Nat
    BY Zenon, ConsoleParts
  <2>. QED
    BY SMTT(30), <1>3, <2>1, JobParts
<1>6. /\ IsJob(r) /\ r.pc = "script" /\ r.kind = "script" /\ r.suite = s
      /\ r.script = x /\ r.todo = {} /\ r.g = gen /\ r.left = {}
      /\ r.rec = NoRecord /\ r.due = {<<s, x>>} /\ r.ran = <<>>
      /\ r.why = "unset" /\ r.since = k.since
  BY Zenon, <1>4, <1>5 DEF IsJob, IsOver, JobFields
<1>7. s \in Suites /\ x \in Scripts
  BY Zenon DEF ExperimentsInv, LoadShapes
<1>8. Starts(r, dicts[gen], Chosen)
  BY Zenon, <1>6, <1>7 DEF Starts
<1>9. /\ Set(c, r) /\ con[c].pc = "idle" /\ UNCHANGED <<suiteVars, tableVars>>
  BY Zenon, <1>2, <1>3, <1>4 DEF RunScript, Asks
<1>. QED
  BY Zenon, <1>5, <1>6, <1>8, <1>9, Began

\* Steps that bring the prompt back.
LEMMA EndSteps ==
    ASSUME ExperimentsInv, NEW c \in Consoles,
           Edit(c) \/ Filled(c) \/ Prompt(c)
    PROVE  ExperimentsInv'
<1>1. /\ Ended(c) /\ disk' \in Disks /\ UNCHANGED <<gen, loads, dicts, coll>>
      /\ UNCHANGED tableVars
  BY Zenon, ConsoleParts DEF Edit, Filled, Prompt, suiteVars
<1>2. con[c].pc \notin {"read", "write"}
  BY Zenon DEF Edit, Filled, Prompt, Asks
<1>. QED
  BY Zenon, <1>1, <1>2, EndedStep
\* A report without a filter has a row for every result.
LEMMA RowsComplete ==
    ASSUME ExperimentsInv
    PROVE  recorded \subseteq {<<w[1], w[2]>> : w \in Rows(All)}
<1>. SUFFICES ASSUME NEW p \in recorded
              PROVE  \E w \in Rows(All) : p = <<w[1], w[2]>>
  BY Zenon
<1>1. InTable(p, results) /\ results \in Seq(Entry)
  BY Zenon DEF ExperimentsInv, TableInv
<1>2. PICK k \in 1..Len(results) : \E i \in 1..Len(results[k].sub) :
         p = <<results[k].name, results[k].sub[i].name>>
  BY Zenon, <1>1 DEF InTable
<1>3. PICK i \in 1..Len(results[k].sub) :
         p = <<results[k].name, results[k].sub[i].name>>
  BY Zenon, <1>2
<1>. DEFINE e == results[k]
            w == <<e.name, e.sub[i].name, e.sub[i].status>>
<1>4. e \in Range(results)
  BY SMTT(30), <1>1 DEF Range
<1>5. w \in Rows(All)
  <2>1. w \in {<<e.name, e.sub[n].name, e.sub[n].status>> : n \in 1..Len(e.sub)}
    BY Zenon
  <2>. QED
    BY Zenon, <1>4, <2>1 DEF Rows
<1>6. p = <<w[1], w[2]>>
  BY Zenon, <1>3
<1>. QED
  BY Zenon, <1>5, <1>6

\* A console that is not at a run.
LEMMA RestGood ==
    ASSUME NEW now \in Nat, NEW g, NEW in, NEW chosen, NEW table,
           NEW r, IsJob(r), r.pc \in {"fill", "detail", "reported", "raised"},
           r.kind \in {"unset", "report"}, r.g \in 0..MaxReloads, r.left = {},
           r.todo = {}, r.ran = <<>>, r.since = -1, r.rec = NoRecord
    PROVE  /\ Good(r, now, g, in, chosen) /\ r.since # now
           /\ Stored(r, table)
<1>1. /\ -1 \in Int /\ -1 <= now /\ -1 # now
      /\ <<>> \in Seq(Suites \X Scripts) /\ Len(<<>>) = 0
      /\ 1 \in Nat \ {0} /\ 1..0 = {} /\ r.rec.pos = 1
  BY SMTT(30) DEF NoRecord
<1>2. Ordered(r, now)
  BY Zenon, <1>1 DEF Ordered, Looping
<1>3. Calm(r, now, g, in, chosen) /\ r.since # now
  BY Zenon, <1>1 DEF Calm
<1>4. Stored(r, table)
  BY Zenon, <1>1 DEF Stored
<1>. QED
  BY Zenon, <1>2, <1>3, <1>4 DEF Good

\* What the record of a console at its prompt has.
LEMMA IdleParts ==
    /\ IsJob(Idle) /\ Idle.kind = "unset" /\ Idle.g = 0 /\ Idle.left = {}
    /\ Idle.todo = {} /\ Idle.ran = <<>> /\ Idle.since = -1
    /\ Idle.rec = NoRecord
  BY Zenon DEF Idle, NoRecord, IsJob, IsOver, JobFields, RecFields

\* formatGlobalTestResultsReport.
LEMMA ReportStep ==
    ASSUME ExperimentsInv, NEW c \in Consoles, Report(c) PROVE ExperimentsInv'
<1>0. /\ con[c].pc = "idle" /\ UNCHANGED <<gen, loads, dicts, coll>>
      /\ UNCHANGED tableVars /\ disk' = disk /\ disk \in Disks
  BY Zenon, ConsoleParts DEF Report, Asks, suiteVars
<1>1. PICK m \in {"summary", "detail", "other"}, filter \in Statuses \cup {All} :
         \/ Set(c, [Idle EXCEPT !.pc = IF ReportMode(m) = "both" THEN "detail"
                                       ELSE "reported",
                                !.filter = filter, !.rows = Rows(filter),
                                !.known = recorded])
         \/ Set(c, [Idle EXCEPT !.pc = "raised", !.kind = "report",
                                !.why = "report"])
  BY Zenon DEF Report
<1>2. PICK k : k = Idle
  BY Zenon
<1>3. /\ IsJob(k) /\ k.kind = "unset" /\ k.g = 0 /\ k.left = {} /\ k.todo = {}
      /\ k.ran = <<>> /\ k.since = -1 /\ k.rec = NoRecord
      /\ 0 \in 0..MaxReloads /\ loads \in Nat
  BY SMTT(30), <1>2, IdleParts, ConsoleParts, ExperimentsAssumption
<1>4. ASSUME NEW pc \in {"detail", "reported"},
             Set(c, [k EXCEPT !.pc = pc, !.filter = filter,
                              !.rows = Rows(filter), !.known = recorded])
      PROVE  ExperimentsInv'
  <2>1. PICK rows : rows = Rows(filter)
    BY Zenon
  <2>2. PICK r : r = [k EXCEPT !.pc = pc, !.filter = filter, !.rows = rows,
                               !.known = recorded]
    BY Zenon
  <2>3. /\ IsJob(r) /\ r.pc = pc /\ r.filter = filter /\ r.rows = rows
        /\ r.known = recorded /\ r.kind = "unset" /\ r.g = 0 /\ r.left = {}
        /\ r.todo = {} /\ r.ran = <<>> /\ r.since = -1 /\ r.rec = NoRecord
    BY Zenon, <1>3, <2>2 DEF IsJob, IsOver, JobFields
  <2>4. /\ Good(r, loads, gen, dicts[gen], Chosen) /\ r.since # loads
        /\ Stored(r, results)
    BY Zenon, <1>3, <2>3, RestGood
  <2>5. Reported(r)
    BY Zenon, <2>1, <2>3, RowsComplete DEF Reported
  <2>6. Set(c, r)
    BY Zenon, <1>4, <2>1, <2>2
  <2>. QED
    BY Zenon, <1>0, <2>3, <2>4, <2>5, <2>6, Quiet
<1>5. CASE Set(c, [k EXCEPT !.pc = "raised", !.kind = "report", !.why = "report"])
  <2>1. PICK r : r = [k EXCEPT !.pc = "raised", !.kind = "report",
                               !.why = "report"]
    BY Zenon
  <2>2. /\ IsJob(r) /\ r.pc = "raised" /\ r.kind = "report" /\ r.g = 0
        /\ r.left = {} /\ r.todo = {} /\ r.ran = <<>> /\ r.since = -1
        /\ r.rec = NoRecord
    BY Zenon, <1>3, <2>1 DEF IsJob, IsOver, JobFields
  <2>3. /\ Good(r, loads, gen, dicts[gen], Chosen) /\ r.since # loads
        /\ Stored(r, results)
    BY Zenon, <1>3, <2>2, RestGood
  <2>4. Reported(r)
    BY Zenon, <2>2 DEF Reported
  <2>. QED
    BY Zenon, <1>0, <1>5, <2>1, <2>2, <2>3, <2>4, Quiet
<1>6. (IF ReportMode(m) = "both" THEN "detail" ELSE "reported")
      \in {"detail", "reported"}
  BY Zenon
<1>. QED
  BY Zenon, <1>1, <1>2, <1>4, <1>5, <1>6

\* The second half of a report copies the table again.
LEMMA ReportDetailStep ==
    ASSUME ExperimentsInv, NEW c \in Consoles, ReportDetail(c)
    PROVE  ExperimentsInv'
<1>. DEFINE j == con[c]
<1>0. /\ j.pc = "detail" /\ UNCHANGED <<gen, loads, dicts, coll>>
      /\ UNCHANGED tableVars /\ disk' = disk /\ disk \in Disks
  BY Zenon, ConsoleParts DEF ReportDetail, suiteVars
<1>1. PICK rows : rows = Rows(j.filter)
  BY Zenon
<1>2. PICK r : r = [j EXCEPT !.pc = "reported", !.known = recorded, !.rows = rows]
  BY Zenon
<1>3. /\ IsJob(r) /\ r.pc = "reported" /\ r.filter = j.filter /\ r.rows = rows
      /\ r.known = recorded /\ Follows(r, j) /\ r.ran = j.ran /\ r.rec = j.rec
  <2>1. IsJob(j)
    BY Zenon, ConsoleParts
  <2>2. /\ IsJob(r) /\ r.pc = "reported" /\ r.filter = j.filter /\ r.rows = rows
        /\ r.known = recorded /\ r.ran = j.ran /\ r.rec = j.rec
    BY Zenon, <1>2, <2>1 DEF IsJob, IsOver, JobFields
  <2>3. Follows(r, j)
    BY Zenon, <1>2, <2>1 DEF IsJob, IsOver, JobFields, Follows
  <2>. QED
    BY Zenon, <2>2, <2>3
<1>4. Good(r, loads, gen, dicts[gen], Chosen)
  <2>1. AtHand(r) = AtHand(j) /\ Ahead(r, dicts[gen]) = Ahead(j, dicts[gen])
    BY Zenon, <1>0, <1>3 DEF AtHand, Ahead, Follows
  <2>2. Coming(r, dicts[gen], Chosen) = Coming(j, dicts[gen], Chosen)
    BY ZenonT(30), <1>3, <2>1 DEF Coming, Follows
  <2>3. Ordered(r, loads)
    BY SMTT(30), <1>0, <1>3, <2>1, ConsoleParts DEF Ordered, Looping, Follows
  <2>4. Calm(r, loads, gen, dicts[gen], Chosen)
    <3>1. Calm(j, loads, gen, dicts[gen], Chosen)
      BY Zenon, ConsoleParts DEF Good
    <3>. QED
      BY Zenon, <1>0, <1>3, <2>2, <3>1 DEF Calm, Follows
  <2>. QED
    BY Zenon, <1>3, <2>3, <2>4 DEF Good
<1>5. Stored(r, results)
  BY Zenon, <1>0, <1>3, ConsoleParts DEF Stored
<1>6. Reported(r)
  BY Zenon, <1>1, <1>3, RowsComplete DEF Reported
<1>7. r.since = loads => ~Filling(gen)
  BY Zenon, <1>3, ConsoleParts DEF Follows
<1>8. Set(c, r)
  BY Zenon, <1>1, <1>2 DEF ReportDetail
<1>. QED
  BY Zenon, <1>0, <1>3, <1>4, <1>5, <1>6, <1>7, <1>8, Quiet
\* A console goes on with another result, or none, in its hands.
WithRec(j, pc, m) == [j EXCEPT !.pc = pc, !.rec = m]

\* A console that stores its result moves on within the table.
LEMMA AtTable ==
    ASSUME NEW j, IsJob(j), NEW pc, NEW m, IsOver(m, RecFields),
           NEW r, r = WithRec(j, pc, m)
    PROVE  /\ IsJob(r) /\ Follows(r, j) /\ r.pc = pc /\ r.rec = m
           /\ r.ran = j.ran
<1>1. IsOver(r, JobFields) /\ r.pc = pc /\ r.rec = m /\ r.ran = j.ran
  BY Zenon DEF IsJob, IsOver, JobFields, WithRec
<1>2. Follows(r, j)
  BY Zenon DEF IsJob, IsOver, JobFields, Follows, WithRec
<1>. QED
  BY Zenon, <1>1, <1>2 DEF IsJob

\* It stays where it is in its run.
LEMMA TableStep ==
    ASSUME ExperimentsInv, NEW c \in Consoles, NEW r, Set(c, r),
           UNCHANGED suiteVars,
           con[c].pc \in {"lookup", "store", "read", "write"},
           IsJob(r), Follows(r, con[c]), r.ran = con[c].ran,
           r.pc \in {"store", "read", "write", "scripts", "returned"},
           r.pc = "returned" => con[c].kind = "script"
    PROVE  LoadShapes' /\ IsOver(con, Consoles)' /\ RunsInv'
<1>1. Good(r, loads, gen, dicts[gen], Chosen)
  BY Zenon, ConsoleParts, RecordJob
<1>2. UNCHANGED <<disk, gen, loads, dicts, coll>>
  BY Zenon DEF suiteVars
<1>3. LoadShapes'
  BY Zenon, <1>2 DEF ExperimentsInv, LoadShapes
<1>4. IsOver(con, Consoles)'
  BY Zenon, Moved DEF ExperimentsInv
<1>5. r.since = loads => ~Filling(gen)
  BY Zenon, ConsoleParts DEF Follows
<1>6. RunsInv'
  BY Zenon, <1>1, <1>2, <1>5, RunsMoved DEF ExperimentsInv
<1>. QED
  BY Zenon, <1>3, <1>4, <1>6

\* YamlGlobalTestResults.__setitem__ looks for the place of a result.
LEMMA LookupStep ==
    ASSUME ExperimentsInv, NEW c \in Consoles, Lookup(c) PROVE ExperimentsInv'
<1>. DEFINE j == con[c]
<1>0. /\ j.pc = "lookup" /\ UNCHANGED suiteVars /\ UNCHANGED tableVars
  BY Zenon DEF Lookup
<1>1. PICK at \in 0..Len(results) :
         /\ IsFirst(at, results, 1, j.suite)
         /\ \E in \in 0..(IF at = 0 THEN 0 ELSE Len(results[at].sub)) :
               /\ at # 0 => IsFirst(in, results[at].sub, 1, j.script)
               /\ Set(c, [j EXCEPT !.pc = "store", !.rec.at = at, !.rec.in = in])
  BY Zenon DEF Lookup
<1>2. PICK in \in 0..(IF at = 0 THEN 0 ELSE Len(results[at].sub)) :
         /\ at # 0 => IsFirst(in, results[at].sub, 1, j.script)
         /\ Set(c, [j EXCEPT !.pc = "store", !.rec.at = at, !.rec.in = in])
  BY Zenon, <1>1
<1>3. PICK m : m = [j.rec EXCEPT !.at = at, !.in = in]
  BY Zenon
<1>4. PICK r : r = WithRec(j, "store", m)
  BY Zenon
<1>5. IsJob(j)
  BY Zenon, ConsoleParts
<1>6. /\ IsOver(m, RecFields) /\ m.at = at /\ m.in = in /\ m.pos = j.rec.pos
      /\ m.status = j.rec.status
  BY ZenonT(30), <1>3, <1>5 DEF IsJob, IsOver, RecFields
<1>7. /\ IsJob(r) /\ Follows(r, j) /\ r.pc = "store" /\ r.rec = m
      /\ r.ran = j.ran
  BY SMTT(30), <1>4, <1>5, <1>6, AtTable
<1>8. Set(c, r)
  BY ZenonT(30), <1>2, <1>3, <1>4, <1>5 DEF IsJob, IsOver, JobFields, WithRec
<1>9. Stored(r, results) /\ Reported(r)
  <2>1. /\ at # 0 => /\ results[at].name = j.suite
                     /\ in \in 0..Len(results[at].sub)
        /\ at # 0 /\ in # 0 => results[at].sub[in].name = j.script
    BY Zenon, <1>1, <1>2 DEF IsFirst
  <2>2. j.rec.status \in Statuses /\ j.rec.pos = 1
    BY Zenon, <1>0, ConsoleParts DEF Stored
  <2>3. r.suite = j.suite /\ r.script = j.script
    BY Zenon, <1>7 DEF Follows
  <2>. QED
    BY SMTT(30), <1>6, <1>7, <2>1, <2>2, <2>3 DEF Stored, Reported
<1>10. LoadShapes' /\ IsOver(con, Consoles)' /\ RunsInv'
  BY Zenon, <1>0, <1>7, <1>8, TableStep
<1>11. TableInv'
  BY Zenon, <1>0, <1>7, <1>8, <1>9, TableMoved DEF ExperimentsInv
<1>. QED
  BY Zenon, <1>10, <1>11 DEF ExperimentsInv
\* The result is stored.
LEMMA StoreStep ==
    ASSUME ExperimentsInv, NEW c \in Consoles, Store(c) PROVE ExperimentsInv'
<1>. DEFINE j == con[c]
<1>0. /\ j.pc = "store" /\ UNCHANGED suiteVars /\ torn' = torn
      /\ results' = WithResult(j)
      /\ recorded' = recorded \cup {<<j.suite, j.script>>}
      /\ stale' = stale \cup {d \in Consoles : /\ con[d].pc = "write"
                                               /\ con[d].rec.pos = Place(j)}
  BY Zenon DEF Store
<1>1. IsJob(j) /\ IsOver(con, Consoles) /\ Stored(j, results)
  BY Zenon, ConsoleParts
<1>2. PICK r : r = WithRec(j, "read", j.rec)
  BY Zenon
<1>3. /\ IsJob(r) /\ Follows(r, j) /\ r.pc = "read" /\ r.rec = j.rec
      /\ r.ran = j.ran
  BY SMTT(30), <1>1, <1>2, AtTable DEF IsJob
<1>4. Set(c, r)
  BY Zenon, <1>1, <1>2 DEF IsJob, IsOver, JobFields, WithRec, Store, Goto
<1>5. LoadShapes' /\ IsOver(con, Consoles)' /\ RunsInv'
  BY Zenon, <1>0, <1>3, <1>4, TableStep
<1>6. con'[c] = r /\ \A d \in Consoles : d # c => con'[d] = con[d]
  BY Zenon, <1>1, <1>4, Moved
<1>7. PICK at : at = Place(j)
  BY Zenon
<1>8. PICK new : new = WithResult(j)
  BY Zenon
<1>9. j.suite \in Suites /\ j.script \in Scripts /\ results \in Seq(Entry)
  BY ZenonT(30), <1>0, ConsoleParts DEF Ordered, Looping, ExperimentsInv, TableInv
<1>10. /\ new \in Seq(Entry) /\ Keeps(new, results)
       /\ at \in 1..Len(new) /\ new[at].name = j.suite
       /\ InTable(<<j.suite, j.script>>, new)
       /\ \A k \in 1..Len(new) :
             k # at => k \in 1..Len(results) /\ new[k] = results[k]
  BY SMTT(30), <1>0, <1>1, <1>7, <1>8, <1>9, StoredResult
<1>11. r.rec.pos = 1
  BY Zenon, <1>0, <1>1, <1>3 DEF Stored
<1>12. ASSUME NEW d \in Consoles
       PROVE  Stored(con'[d], new) /\ Reported(con'[d])
  <2>1. CASE d = c
    BY SMTT(30), <1>3, <1>6, <1>11, <2>1 DEF Stored, Reported
  <2>2. CASE d # c
    BY Zenon, <1>6, <1>10, <2>2, ConsoleParts, KeptStored
  <2>. QED
    BY ZenonT(30), <2>1, <2>2
<1>13. ASSUME NEW d \in Consoles
       PROVE  /\ con'[d].pc = "write" /\ d \notin stale' =>
                    con'[d].rec.verdict = Verdict(new[con'[d].rec.pos].sub)
              /\ con'[d].pc # "write" => d \notin stale'
  <2>1. CASE d = c
    BY Zenon, <1>0, <1>3, <1>6, <2>1 DEF ExperimentsInv, TableInv, Verdicts
  <2>2. CASE d # c
    <3>1. con[d].pc = "write" => con[d].rec.pos \in 1..Len(results)
      BY Zenon, ConsoleParts DEF Stored
    <3>2. con[d].pc = "write" /\ d \notin stale' => con[d].rec.pos # at
      BY Zenon, <1>0, <1>7
    <3>3. \A k \in 1..Len(results) : k \in 1..Len(new)
      BY SMTT(30), <1>10 DEF Keeps, KeepsNames
    <3>4. con[d].pc = "write" /\ d \notin stale' =>
             new[con[d].rec.pos] = results[con[d].rec.pos]
      BY Zenon, <1>10, <3>1, <3>2, <3>3
    <3>5. /\ d \notin stale' => d \notin stale
          /\ con[d].pc # "write" /\ d \notin stale => d \notin stale'
      BY Zenon, <1>0
    <3>6. /\ con[d].pc = "write" /\ d \notin stale =>
                con[d].rec.verdict = Verdict(results[con[d].rec.pos].sub)
          /\ con[d].pc # "write" => d \notin stale
      BY Zenon DEF ExperimentsInv, TableInv, Verdicts
    <3>. QED
      BY Zenon, <1>6, <2>2, <3>4, <3>5, <3>6
  <2>. QED
    BY Zenon, <2>1, <2>2
<1>14. \A p \in recorded' : InTable(p, new)
  BY Zenon, <1>0, <1>10, KeptResult DEF ExperimentsInv, TableInv
<1>15. ASSUME NEW k \in 1..Len(new)
       PROVE  \/ new[k].status = Verdict(new[k].sub)
              \/ k \in torn'
              \/ \E d \in Consoles : /\ con'[d].pc \in {"read", "write"}
                                     /\ con'[d].suite = new[k].name
                                     /\ con'[d].rec.pos <= k
  <2>1. CASE k = at
    <3>1. con'[c].suite = new[k].name
      BY Zenon, <1>3, <1>6, <1>10, <2>1 DEF Follows
    <3>2. con'[c].rec.pos <= k
      BY SMTT(30), <1>6, <1>11
    <3>. QED
      BY Zenon, <1>3, <1>6, <3>1, <3>2
  <2>2. CASE k # at
    <3>1. k \in 1..Len(results) /\ new[k] = results[k]
      BY Zenon, <1>10, <2>2
    <3>2. Settled(k)
      BY Zenon, <3>1 DEF ExperimentsInv, TableInv
    <3>3. \A d \in Consoles : con[d].pc \in {"read", "write"} => con'[d] = con[d]
      BY Zenon, <1>0, <1>6
    <3>. QED
      BY Zenon, <1>0, <3>1, <3>2, <3>3 DEF Settled
  <2>. QED
    BY Zenon, <2>1, <2>2
<1>16. results' = new
  BY Zenon, <1>0, <1>8
<1>17. TableInv'
  BY Zenon, <1>10, <1>12, <1>13, <1>14, <1>15, <1>16
     DEF TableInv, Verdicts, Settled
<1>. QED
  BY Zenon, <1>5, <1>17 DEF ExperimentsInv
\* The first half of finalize.
LEMMA FinalizeReadStep ==
    ASSUME ExperimentsInv, NEW c \in Consoles, FinalizeRead(c)
    PROVE  ExperimentsInv'
<1>. DEFINE j == con[c]
<1>0. j.pc = "read" /\ UNCHANGED suiteVars /\ UNCHANGED tableVars
  BY Zenon DEF FinalizeRead
<1>1. PICK i \in 0..Len(results) :
         /\ IsFirst(i, results, j.rec.pos, j.suite)
         /\ Set(c, IF i = 0
                   THEN [j EXCEPT !.pc = AfterScript(j), !.rec = NoRecord]
                   ELSE [j EXCEPT !.pc = "write", !.rec.pos = i,
                                  !.rec.verdict = Verdict(results[i].sub)])
  BY Zenon DEF FinalizeRead
<1>2. /\ IsJob(j) /\ IsOver(con, Consoles) /\ Stored(j, results)
      /\ results \in Seq(Entry)
  BY Zenon, ConsoleParts DEF ExperimentsInv, TableInv
<1>3. PICK v : v = Verdict(results[i].sub)
  BY Zenon
<1>4. v \in Statuses
  BY Zenon, <1>3 DEF Verdict, Statuses
<1>5. PICK m : m = IF i = 0 THEN NoRecord
                   ELSE [j.rec EXCEPT !.pos = i, !.verdict = v]
  BY Zenon
<1>6. PICK pc : pc = IF i = 0 THEN AfterScript(j) ELSE "write"
  BY Zenon
<1>7. PICK r : r = WithRec(j, pc, m)
  BY Zenon
<1>8. Set(c, r)
  <2>1. CASE i = 0
    BY Zenon, <1>1, <1>5, <1>6, <1>7, <2>1 DEF WithRec
  <2>2. CASE i # 0
    BY Zenon, <1>1, <1>2, <1>3, <1>5, <1>6, <1>7, <2>2
       DEF WithRec, IsJob, IsOver, JobFields
  <2>. QED
    BY Zenon, <2>1, <2>2
<1>9. /\ IsOver(m, RecFields)
      /\ i = 0 => m.pos = 1
      /\ i # 0 => m.pos = i /\ m.verdict = v
  BY Zenon, <1>2, <1>5 DEF IsJob, IsOver, RecFields, NoRecord
<1>10. /\ IsJob(r) /\ Follows(r, j) /\ r.pc = pc /\ r.rec = m /\ r.ran = j.ran
  BY SMTT(30), <1>2, <1>7, <1>9, AtTable
<1>11. /\ pc \in {"write", "scripts", "returned"}
       /\ pc = "returned" => j.kind = "script"
       /\ pc = "write" <=> i # 0
  BY Zenon, <1>6 DEF AfterScript
<1>12. LoadShapes' /\ IsOver(con, Consoles)' /\ RunsInv'
  BY Zenon, <1>0, <1>8, <1>10, <1>11, TableStep
<1>13. /\ con'[c] = r /\ \A d \in Consoles : d # c => con'[d] = con[d]
       /\ results' = results /\ recorded' = recorded /\ stale' = stale
       /\ torn' = torn
  BY ZenonT(30), <1>0, <1>2, <1>8, Moved DEF tableVars
<1>14. Stored(r, results) /\ Reported(r)
  <2>1. i # 0 => i \in 1..Len(results) /\ i \in Nat \ {0}
    BY SMTT(30), <1>2
  <2>. QED
    BY SMTT(30), <1>4, <1>9, <1>10, <1>11, <2>1 DEF Stored, Reported
<1>15. ASSUME NEW d \in Consoles
       PROVE  Stored(con'[d], results) /\ Reported(con'[d])
  BY Zenon, <1>13, <1>14, ConsoleParts
<1>16. ASSUME NEW d \in Consoles
       PROVE  /\ con'[d].pc = "write" /\ d \notin stale =>
                    con'[d].rec.verdict = Verdict(results[con'[d].rec.pos].sub)
              /\ con'[d].pc # "write" => d \notin stale
  <2>1. CASE d = c
    <3>1. c \notin stale
      BY Zenon, <1>0 DEF ExperimentsInv, TableInv, Verdicts
    <3>. QED
      BY ZenonT(30), <1>3, <1>9, <1>10, <1>11, <1>13, <2>1, <3>1
  <2>2. CASE d # c
    BY Zenon, <1>13, <2>2 DEF ExperimentsInv, TableInv, Verdicts
  <2>. QED
    BY Zenon, <2>1, <2>2
<1>17. ASSUME NEW k \in 1..Len(results)
       PROVE  \/ results[k].status = Verdict(results[k].sub)
              \/ k \in torn
              \/ \E d \in Consoles : /\ con'[d].pc \in {"read", "write"}
                                     /\ con'[d].suite = results[k].name
                                     /\ con'[d].rec.pos <= k
  <2>. SUFFICES ASSUME NEW d \in Consoles, con[d].pc \in {"read", "write"},
                       con[d].suite = results[k].name, con[d].rec.pos <= k
                PROVE  /\ con'[d].pc \in {"read", "write"}
                       /\ con'[d].suite = results[k].name
                       /\ con'[d].rec.pos <= k
    BY Zenon DEF ExperimentsInv, TableInv, Settled
  <2>1. CASE d # c
    BY Zenon, <1>13, <2>1
  <2>2. CASE d = c
    <3>1. j.rec.pos \in Nat \ {0} /\ Len(results) \in Nat
      BY SMTT(30), <1>2 DEF Stored
    <3>2. k \in j.rec.pos..Len(results) /\ results[k].name = j.suite
      BY SMTT(30), <2>2, <3>1
    <3>0. IsFirst(i, results, j.rec.pos, j.suite)
      BY Zenon, <1>1
    <3>3. i # 0
      BY SMTT(30), <3>0, <3>1, <3>2 DEF IsFirst
    <3>4. i <= k
      <4>1. \A n \in j.rec.pos..(i - 1) : results[n].name # j.suite
        BY Zenon, <3>0, <3>3 DEF IsFirst
      <4>2. k \notin j.rec.pos..(i - 1)
        BY Zenon, <3>2, <4>1
      <4>. QED
        BY SMTT(30), <3>1, <3>2, <4>2
    <3>5. con'[d].pc = "write" /\ con'[d].suite = j.suite /\ con'[d].rec.pos = i
      BY ZenonT(30), <1>9, <1>10, <1>11, <1>13, <2>2, <3>3 DEF Follows
    <3>. QED
      BY ZenonT(30), <2>2, <3>4, <3>5
  <2>. QED
    BY Zenon, <2>1, <2>2
<1>18. TableInv'
  BY ZenonT(30), <1>2, <1>13, <1>15, <1>16, <1>17
     DEF ExperimentsInv, TableInv, Verdicts, Settled
<1>. QED
  BY Zenon, <1>12, <1>18 DEF ExperimentsInv
\* The second half of finalize.
LEMMA FinalizeWriteStep ==
    ASSUME ExperimentsInv, NEW c \in Consoles, FinalizeWrite(c)
    PROVE  ExperimentsInv'
<1>. DEFINE j == con[c]
<1>1. PICK p : p = j.rec.pos
  BY Zenon
<1>2. PICK v : v = j.rec.verdict
  BY Zenon
<1>0. /\ j.pc = "write" /\ UNCHANGED suiteVars /\ recorded' = recorded
      /\ results' = [results EXCEPT ![p].status = v]
      /\ c \in stale => torn' = torn \cup {p}
      /\ c \notin stale => torn' = torn \ {p}
      /\ stale' = stale \ {c}
      /\ Set(c, [j EXCEPT !.pc = "read", !.rec.pos = @ + 1])
  BY Zenon, <1>1, <1>2 DEF FinalizeWrite
<1>3. /\ IsJob(j) /\ IsOver(con, Consoles) /\ Stored(j, results)
      /\ results \in Seq(Entry)
  BY Zenon, ConsoleParts DEF ExperimentsInv, TableInv
<1>4. p \in 1..Len(results) /\ p \in Nat \ {0} /\ v \in Statuses
  BY Zenon, <1>0, <1>1, <1>2, <1>3 DEF Stored
<1>5. PICK m : m = [j.rec EXCEPT !.pos = p + 1]
  BY Zenon
<1>6. PICK r : r = WithRec(j, "read", m)
  BY Zenon
<1>7. Set(c, r)
  BY Zenon, <1>0, <1>1, <1>3, <1>5, <1>6 DEF WithRec, IsJob, IsOver, JobFields, RecFields
<1>8. IsOver(m, RecFields) /\ m.pos = p + 1
  BY Zenon, <1>3, <1>5 DEF IsJob, IsOver, RecFields
<1>9. IsJob(r) /\ Follows(r, j) /\ r.pc = "read" /\ r.rec = m /\ r.ran = j.ran
  BY SMTT(30), <1>3, <1>6, <1>8, AtTable
<1>10. LoadShapes' /\ IsOver(con, Consoles)' /\ RunsInv'
  BY Zenon, <1>0, <1>7, <1>9, TableStep
<1>11. con'[c] = r /\ \A d \in Consoles : d # c => con'[d] = con[d]
  BY Zenon, <1>3, <1>7, Moved
<1>12. PICK new : new = results'
  BY Zenon
<1>13. /\ new \in Seq(Entry) /\ Keeps(new, results) /\ Len(new) = Len(results)
       /\ new[p].status = v
       /\ \A k \in 1..Len(new) : /\ new[k].sub = results[k].sub
                                 /\ new[k].name = results[k].name
                                 /\ k # p => new[k] = results[k]
  <2>1. new = Finalized(results, p, v)
    BY Zenon, <1>0, <1>12 DEF Finalized
  <2>. QED
    BY SMTT(30), <1>3, <1>4, <2>1, WrittenVerdict
<1>14. ASSUME NEW d \in Consoles
       PROVE  Stored(con'[d], new) /\ Reported(con'[d])
  <2>1. CASE d = c
    <3>1. p + 1 \in Nat \ {0}
      BY SMTT(30), <1>4
    <3>. QED
      BY Zenon, <1>8, <1>9, <1>11, <2>1, <3>1 DEF Stored, Reported
  <2>2. CASE d # c
    BY Zenon, <1>11, <1>13, <2>2, ConsoleParts, KeptStored
  <2>. QED
    BY Zenon, <2>1, <2>2
<1>15. ASSUME NEW d \in Consoles
       PROVE  /\ con'[d].pc = "write" /\ d \notin stale' =>
                    con'[d].rec.verdict = Verdict(new[con'[d].rec.pos].sub)
              /\ con'[d].pc # "write" => d \notin stale'
  <2>1. CASE d = c
    BY Zenon, <1>0, <1>9, <1>11, <2>1
  <2>2. CASE d # c
    <3>1. con[d].pc = "write" => con[d].rec.pos \in 1..Len(new)
      BY Zenon, <1>13, ConsoleParts DEF Stored
    <3>2. /\ con[d].pc = "write" /\ d \notin stale =>
                con[d].rec.verdict = Verdict(results[con[d].rec.pos].sub)
          /\ con[d].pc # "write" => d \notin stale
      BY Zenon DEF ExperimentsInv, TableInv, Verdicts
    <3>3. d \in stale' <=> d \in stale
      BY Zenon, <1>0, <2>2
    <3>. QED
      BY Zenon, <1>11, <1>13, <2>2, <3>1, <3>2, <3>3
  <2>. QED
    BY Zenon, <2>1, <2>2
<1>16. \A q \in recorded' : InTable(q, new)
  BY Zenon, <1>0, <1>13, KeptResult DEF ExperimentsInv, TableInv
<1>17. ASSUME NEW k \in 1..Len(new)
       PROVE  \/ new[k].status = Verdict(new[k].sub)
              \/ k \in torn'
              \/ \E d \in Consoles : /\ con'[d].pc \in {"read", "write"}
                                     /\ con'[d].suite = new[k].name
                                     /\ con'[d].rec.pos <= k
  <2>1. CASE k = p
    <3>1. c \notin stale => v = Verdict(results[p].sub)
      BY Zenon, <1>0, <1>1, <1>2 DEF ExperimentsInv, TableInv, Verdicts
    <3>2. c \in stale => k \in torn'
      BY Zenon, <1>0, <2>1
    <3>. QED
      BY Zenon, <1>13, <2>1, <3>1, <3>2
  <2>2. CASE k # p
    <3>1. Settled(k) /\ new[k] = results[k] /\ k \in Nat
      BY SMTT(30), <1>13, <2>2 DEF ExperimentsInv, TableInv
    <3>2. k \in torn => k \in torn'
      BY Zenon, <1>0, <2>2
    <3>3. ASSUME NEW d \in Consoles, con[d].pc \in {"read", "write"},
                 con[d].suite = results[k].name, con[d].rec.pos <= k
          PROVE  /\ con'[d].pc \in {"read", "write"}
                 /\ con'[d].suite = new[k].name /\ con'[d].rec.pos <= k
      <4>1. CASE d # c
        BY Zenon, <1>11, <3>1, <3>3, <4>1
      <4>2. CASE d = c
        <5>1. p + 1 <= k
          BY SMTT(30), <1>1, <1>4, <2>2, <3>1, <3>3, <4>2
        <5>2. /\ con'[d].pc = "read" /\ con'[d].suite = results[k].name
              /\ con'[d].rec.pos = p + 1
          BY Zenon, <1>8, <1>9, <1>11, <3>3, <4>2 DEF Follows
        <5>. QED
          BY Zenon, <3>1, <5>1, <5>2
      <4>. QED
        BY Zenon, <4>1, <4>2
    <3>. QED
      BY Zenon, <3>1, <3>2, <3>3 DEF Settled
  <2>. QED
    BY Zenon, <2>1, <2>2
<1>18. TableInv'
  BY Zenon, <1>12, <1>13, <1>14, <1>15, <1>16, <1>17
     DEF TableInv, Verdicts, Settled
<1>. QED
  BY Zenon, <1>10, <1>18 DEF ExperimentsInv
\* A load makes the runs that are under way owe nothing.
LEMMA NewLoad ==
    ASSUME NEW j, NEW now \in Nat, NEW g, NEW in, NEW chosen,
           Good(j, now, g, in, chosen), NEW g2, NEW in2, NEW chosen2
    PROVE  Good(j, now + 1, g2, in2, chosen2) /\ j.since # now + 1
<1>1. /\ j.since \in Int /\ j.since <= now
      /\ j.since <= now + 1 /\ j.since # now + 1
  BY SMTT(30) DEF Good, Ordered
<1>2. Ordered(j, now + 1)
  BY Zenon, <1>1 DEF Good, Ordered
<1>3. Calm(j, now + 1, g2, in2, chosen2)
  BY Zenon, <1>1 DEF Calm
<1>. QED
  BY ZenonT(30), <1>1, <1>2, <1>3 DEF Good

\* A load leaves nothing to say about the runs that are under way.
LEMMA LoadMoved ==
    ASSUME ExperimentsInv, NEW c \in Consoles, NEW r, Set(c, r),
           loads' = loads + 1, Good(r, loads, gen, dicts[gen], Chosen)
    PROVE  RunsInv'
<1>1. con'[c] = r /\ \A d \in Consoles : d # c => con'[d] = con[d]
  BY Zenon, Moved DEF ExperimentsInv
<1>2. ASSUME NEW d \in Consoles
      PROVE  Good(con'[d], loads, gen, dicts[gen], Chosen) /\ loads \in Nat
  BY Zenon, <1>1, ConsoleParts
<1>3. ASSUME NEW d \in Consoles
      PROVE  /\ Good(con'[d], loads + 1, gen', dicts'[gen'], Chosen')
             /\ con'[d].since # loads + 1
  BY Zenon, <1>2, NewLoad
<1>. QED
  BY Zenon, <1>3 DEF RunsInv

\* Suites.reload.
LEMMA ReloadStep ==
    ASSUME ExperimentsInv, NEW c \in Consoles, Reload(c) PROVE ExperimentsInv'
<1>0. /\ con[c].pc = "idle" /\ gen < MaxReloads /\ gen' = gen + 1
      /\ loads' = loads + 1 /\ UNCHANGED <<disk, dicts, coll>>
      /\ UNCHANGED tableVars
      /\ Set(c, [Idle EXCEPT !.pc = "fill", !.g = gen + 1])
  BY Zenon DEF Reload, Asks
<1>1. LoadShapes'
  BY SMTT(30), <1>0, ExperimentsAssumption DEF ExperimentsInv, LoadShapes
<1>2. gen + 1 \in 0..MaxReloads /\ loads \in Nat
  BY SMTT(30), <1>0, ConsoleParts, ExperimentsAssumption
<1>3. PICK k : k = Idle
  BY Zenon
<1>4. /\ IsJob(k) /\ k.kind = "unset" /\ k.left = {} /\ k.todo = {}
      /\ k.ran = <<>> /\ k.since = -1 /\ k.rec = NoRecord
  BY Zenon, <1>3, IdleParts
<1>5. PICK r : r = [k EXCEPT !.pc = "fill", !.g = gen + 1]
  BY Zenon
<1>6. /\ IsJob(r) /\ r.pc = "fill" /\ r.kind = "unset" /\ r.g = gen + 1
      /\ r.left = {} /\ r.todo = {} /\ r.ran = <<>> /\ r.since = -1
      /\ r.rec = NoRecord
  BY Zenon, <1>4, <1>5 DEF IsJob, IsOver, JobFields
<1>7. Good(r, loads, gen, dicts[gen], Chosen) /\ Stored(r, results)
  BY Zenon, <1>2, <1>6, RestGood
<1>8. Reported(r)
  BY Zenon, <1>6 DEF Reported
<1>9. Set(c, r)
  BY Zenon, <1>0, <1>3, <1>5
<1>10. RunsInv'
  BY Zenon, <1>0, <1>7, <1>9, LoadMoved
<1>11. IsOver(con, Consoles)' /\ TableInv'
  BY Zenon, <1>0, <1>6, <1>7, <1>8, <1>9, Moved, TableMoved DEF ExperimentsInv
<1>. QED
  BY Zenon, <1>1, <1>10, <1>11 DEF ExperimentsInv

\* The scripts a suite has when it is loaded.
LEMMA LoadedScripts ==
    ASSUME LoadShapes, NEW s \in Suites, NEW old
    PROVE  Loaded(s, old).scripts \in SUBSET Scripts
<1>1. disk[s].scripts \in SUBSET Scripts
  BY Zenon, ExperimentsAssumption DEF LoadShapes
<1>. QED
  BY Zenon, <1>1 DEF Loaded

\* A suite is loaded into a dictionary.
LEMMA CollShapes ==
    ASSUME LoadShapes, NEW g \in 0..MaxReloads, NEW s \in Suites, NEW e,
           e.scripts \in SUBSET Scripts, coll' = [coll EXCEPT ![g][s] = e],
           disk' = disk, gen' \in 0..MaxReloads, loads' \in Nat,
           dicts' \in [0..MaxReloads -> SUBSET Suites]
    PROVE  LoadShapes' /\ \A h \in 0..MaxReloads : h # g => coll'[h] = coll[h]
<1>1. PICK f : f = [coll[g] EXCEPT ![s] = e]
  BY Zenon
<1>2. coll' = [coll EXCEPT ![g] = f]
  BY Zenon, <1>1
<1>3. /\ IsOver(coll, 0..MaxReloads) /\ IsOver(coll[g], Suites)
      /\ disk \in Disks
  BY Zenon DEF LoadShapes
<1>4. IsOver(f, Suites) /\ \A x \in Suites : f[x].scripts \in SUBSET Scripts
  BY Zenon, <1>1, <1>3 DEF IsOver, LoadShapes
<1>5. /\ IsOver(coll', 0..MaxReloads) /\ coll'[g] = f
      /\ \A h \in 0..MaxReloads : h # g => coll'[h] = coll[h]
  BY Zenon, <1>2, <1>3 DEF IsOver
<1>6. ASSUME NEW h \in 0..MaxReloads
      PROVE  /\ IsOver(coll'[h], Suites)
             /\ \A x \in Suites : coll'[h][x].scripts \in SUBSET Scripts
  BY Zenon, <1>4, <1>5 DEF LoadShapes
<1>. QED
  BY Zenon, <1>3, <1>5, <1>6 DEF LoadShapes

\* ASuite.reload.
LEMMA ReloadSuiteStep ==
    ASSUME ExperimentsInv, NEW c \in Consoles, ReloadSuite(c)
    PROVE  ExperimentsInv'
<1>0. /\ con[c].pc = "idle" /\ Set(c, Idle) /\ loads' = loads + 1
      /\ UNCHANGED <<disk, gen, dicts>> /\ UNCHANGED tableVars
  BY Zenon DEF ReloadSuite, Asks, Ended
<1>1. PICK s \in dicts[gen] :
         coll' = [coll EXCEPT ![gen][s] = Loaded(s, @.skip)]
  BY Zenon DEF ReloadSuite
<1>2. PICK e : e = Loaded(s, coll[gen][s].skip)
  BY Zenon
<1>3. LoadShapes /\ loads \in Nat /\ gen \in 0..MaxReloads /\ s \in Suites
  BY Zenon, ConsoleParts DEF ExperimentsInv
<1>4. coll' = [coll EXCEPT ![gen][s] = e]
  BY Zenon, <1>1, <1>2, <1>3 DEF LoadShapes, IsOver
<1>5. e.scripts \in SUBSET Scripts
  BY Zenon, <1>2, <1>3, LoadedScripts
<1>6. LoadShapes'
  <2>1. /\ gen' \in 0..MaxReloads /\ loads' \in Nat
        /\ dicts' \in [0..MaxReloads -> SUBSET Suites]
    BY SMTT(30), <1>0, <1>3 DEF LoadShapes
  <2>. QED
    BY Zenon, <1>0, <1>3, <1>4, <1>5, <2>1, CollShapes
<1>7. /\ Good(Idle, loads, gen, dicts[gen], Chosen) /\ Idle.pc = "idle"
      /\ Stored(Idle, results) /\ Reported(Idle)
  BY Zenon, <1>3, IdleGood
<1>8. RunsInv'
  BY Zenon, <1>0, <1>7, LoadMoved
<1>9. IsOver(con, Consoles)' /\ TableInv'
  BY Zenon, <1>0, <1>7, Moved, TableMoved DEF ExperimentsInv
<1>. QED
  BY Zenon, <1>6, <1>8, <1>9 DEF ExperimentsInv

\* Suites.generate_test_db: nobody that began after it is under way.
LEMMA FillStep ==
    ASSUME ExperimentsInv, NEW c \in Consoles, Fill(c) PROVE ExperimentsInv'
<1>. DEFINE g == con[c].g
<1>0. /\ con[c].pc = "fill" /\ UNCHANGED <<disk, gen, loads>>
      /\ UNCHANGED tableVars /\ con' = con
  BY Zenon DEF Fill
<1>1. PICK s \in Suites \ dicts[g] :
         /\ dicts' = [dicts EXCEPT ![g] = @ \cup {s}]
         /\ coll' = [coll EXCEPT ![g][s] = Loaded(s, {})]
  BY Zenon DEF Fill
<1>2. /\ LoadShapes /\ g \in 0..MaxReloads /\ gen \in 0..MaxReloads
      /\ loads \in Nat /\ s \in Suites
  BY Zenon, ConsoleParts DEF ExperimentsInv, Ordered
<1>3. /\ dicts' \in [0..MaxReloads -> SUBSET Suites]
      /\ \A h \in 0..MaxReloads : h # g => dicts'[h] = dicts[h]
  BY Zenon, <1>1, <1>2 DEF LoadShapes
<1>4. Loaded(s, {}).scripts \in SUBSET Scripts
  BY Zenon, <1>2, LoadedScripts
<1>5. LoadShapes' /\ \A h \in 0..MaxReloads : h # g => coll'[h] = coll[h]
  BY Zenon, <1>0, <1>1, <1>2, <1>3, <1>4, CollShapes
<1>6. ASSUME NEW d \in Consoles
      PROVE  /\ Good(con[d], loads, gen, dicts'[gen], Chosen')
             /\ con[d].since = loads => ~Filling(gen)
  <2>1. /\ Good(con[d], loads, gen, dicts[gen], Chosen)
        /\ con[d].since = loads => ~Filling(gen)
    BY Zenon, ConsoleParts
  <2>2. CASE con[d].since = loads
    <3>1. g # gen
      BY Zenon, <1>0, <2>1, <2>2 DEF Filling
    <3>2. Chosen' = Chosen
      BY Zenon, <1>0, <1>2, <1>5, <3>1, ChosenKept
    <3>. QED
      BY Zenon, <1>2, <1>3, <2>1, <3>1, <3>2
  <2>3. CASE con[d].since # loads
    BY Zenon, <2>1, <2>3 DEF Good, Calm
  <2>. QED
    BY Zenon, <2>2, <2>3
<1>7. RunsInv'
  <2>1. Filling(gen)' => Filling(gen)
    BY Zenon, <1>0 DEF Filling
  <2>. QED
    BY Zenon, <1>0, <1>6, <2>1 DEF RunsInv
<1>8. TableInv'
  BY Zenon, <1>0 DEF ExperimentsInv, TableInv, Verdicts, Settled, tableVars
<1>9. IsOver(con, Consoles)'
  BY Zenon, <1>0 DEF ExperimentsInv
<1>. QED
  BY Zenon, <1>5, <1>7, <1>8, <1>9 DEF ExperimentsInv
\* The runner starts with its suites loaded and an empty table.
LEMMA ExperimentsStart == Init => ExperimentsInv
<1>. SUFFICES ASSUME Init PROVE ExperimentsInv
  BY Zenon
<1>1. LoadShapes
  <2>1. \A s \in Suites : disk[s].scripts \in SUBSET Scripts
    BY Zenon, ExperimentsAssumption DEF Init
  <2>. QED
    BY SMTT(30), <2>1, ExperimentsAssumption DEF Init, LoadShapes, IsOver
<1>2. /\ con = [c \in Consoles |-> Idle] /\ loads = 0 /\ results = <<>>
      /\ recorded = {} /\ stale = {}
  BY Zenon DEF Init
<1>3. 0 \in Nat /\ <<>> \in Seq(Entry) /\ Len(<<>>) = 0 /\ 1..0 = {}
  OBVIOUS
<1>4. IsOver(con, Consoles)
  BY Zenon, <1>2 DEF IsOver
<1>5. ASSUME NEW c \in Consoles
      PROVE  /\ con[c] = Idle /\ con[c].pc = "idle" /\ con[c].since # loads
             /\ Good(con[c], loads, gen, dicts[gen], Chosen)
             /\ Stored(con[c], results) /\ Reported(con[c])
  <2>1. con[c] = Idle /\ loads \in Nat
    BY Zenon, <1>2, <1>3
  <2>. QED
    BY Zenon, <2>1, IdleGood
<1>6. RunsInv
  BY Zenon, <1>5 DEF RunsInv
<1>7. Verdicts
  BY Zenon, <1>2, <1>5 DEF Verdicts
<1>8. \A k \in 1..Len(results) : Settled(k)
  BY Zenon, <1>2, <1>3
<1>9. TableInv
  BY Zenon, <1>2, <1>3, <1>5, <1>7, <1>8 DEF TableInv
<1>. QED
  BY Zenon, <1>1, <1>4, <1>6, <1>9 DEF ExperimentsInv

\* Every step of a console preserves the invariant.
LEMMA ExperimentsSteps == ExperimentsInv /\ [Next]_vars => ExperimentsInv'
<1>. SUFFICES ASSUME ExperimentsInv, [Next]_vars PROVE ExperimentsInv'
  BY Zenon
<1>1. ASSUME NEW c \in Consoles, Ask(c) PROVE ExperimentsInv'
  BY ZenonT(30), <1>1, RunSuitesStep, RunSuiteStep, RunScriptStep, EndSteps, ReloadStep,
     ReloadSuiteStep, ReportStep DEF Ask
<1>2. ASSUME NEW c \in Consoles, Work(c) PROVE ExperimentsInv'
  BY SMTT(30), <1>2, CountStep, BeginStep, NextSuiteStep, NextScriptStep, ExecuteStep,
     LookupStep, StoreStep, FinalizeReadStep, FinalizeWriteStep,
     ReportDetailStep, FillStep, EndSteps DEF Work
<1>3. CASE UNCHANGED vars
  <2>1. /\ disk' = disk /\ gen' = gen /\ loads' = loads /\ dicts' = dicts
        /\ coll' = coll /\ con' = con
        /\ results' = results /\ recorded' = recorded /\ stale' = stale
        /\ torn' = torn
    BY Zenon, <1>3 DEF vars, suiteVars, tableVars
  <2>2. Chosen' = Chosen
    BY Zenon, <2>1, ChosenKept
  <2>3. LoadShapes' /\ IsOver(con, Consoles)'
    BY Zenon, <2>1 DEF ExperimentsInv, LoadShapes
  <2>4. Filling(gen)' => Filling(gen)
    BY Zenon, <2>1 DEF Filling
  <2>5. RunsInv'
    BY Zenon, <2>1, <2>2, <2>4 DEF ExperimentsInv, RunsInv
  <2>6. TableInv'
    BY Zenon, <2>1 DEF ExperimentsInv, TableInv, Verdicts, Settled
  <2>. QED
    BY Zenon, <2>3, <2>5, <2>6 DEF ExperimentsInv
<1>. QED
  BY Zenon, <1>1, <1>2, <1>3 DEF Next

\* The invariant gives what the run checks.
LEMMA ExperimentsSafe == ExperimentsInv => RunIsComplete /\ ResultsAddUp
<1>. SUFFICES ASSUME ExperimentsInv PROVE RunIsComplete /\ ResultsAddUp
  BY Zenon
<1>1. RunIsComplete
  <2>. SUFFICES ASSUME NEW c \in Consoles, Runs(c), con[c].since = loads,
                       NEW j, j = con[c]
                PROVE  /\ Range(j.ran) \subseteq j.due
                       /\ IsInjective(j.ran)
                       /\ j.pc = "returned" => Range(j.ran) = j.due
                       /\ j.why \in {"unset", "halt", "import"}
                       /\ \A a, b \in 1..Len(j.ran) :
                             a < b /\ j.ran[a][1] = j.ran[b][1] =>
                                j.ran[a][2] < j.ran[b][2]
    BY Zenon DEF RunIsComplete
  <2>1. /\ Ordered(j, loads) /\ Calm(j, loads, gen, dicts[gen], Chosen)
        /\ j.since = loads /\ j.pc \in {"returned", "raised"}
    BY Zenon, ConsoleParts DEF Runs
  <2>2. /\ j.ran \in Seq(Suites \X Scripts)
        /\ \A a, b \in 1..Len(j.ran) :
              a < b /\ j.ran[a][1] = j.ran[b][1] => j.ran[a][2] < j.ran[b][2]
    BY Zenon, <2>1 DEF Ordered
  <2>3. IsInjective(j.ran)
    <3>1. DOMAIN j.ran = 1..Len(j.ran) /\ Len(j.ran) \in Nat
      BY SMTT(30), <2>2
    <3>2. ASSUME NEW a \in 1..Len(j.ran), NEW b \in 1..Len(j.ran), a < b
          PROVE  j.ran[a] # j.ran[b]
      <4>1. j.ran[a] \in Suites \X Scripts /\ j.ran[b] \in Suites \X Scripts
        BY SMTT(30), <2>2
      <4>2. j.ran[a][2] \in Nat /\ j.ran[b][2] \in Nat
        BY Zenon, <4>1, ExperimentsAssumption
      <4>3. j.ran[a][1] = j.ran[b][1] => j.ran[a][2] # j.ran[b][2]
        BY SMTT(30), <2>2, <3>2, <4>2
      <4>. QED
        BY Zenon, <4>3
    <3>3. \A a, b \in 1..Len(j.ran) : a = b \/ a < b \/ b < a
      BY SMTT(30), <3>1
    <3>. QED
      BY ZenonT(30), <3>1, <3>2, <3>3 DEF IsInjective
  <2>4. j.pc = "returned" => Coming(j, dicts[gen], Chosen) = Range(j.ran)
    <3>1. j.pc = "returned" => AtHand(j) = {} /\ Ahead(j, dicts[gen]) = {}
      BY Zenon, <2>1 DEF Ordered, AtHand, Ahead
    <3>. QED
      BY Zenon, <3>1 DEF Coming, Pairs
  <2>5. /\ j.pc = "returned" => j.due = Coming(j, dicts[gen], Chosen)
        /\ j.pc = "raised" => Range(j.ran) \subseteq j.due
        /\ j.why \in {"unset", "halt", "import"}
    BY Zenon, <2>1 DEF Calm
  <2>. QED
    BY Zenon, <2>1, <2>2, <2>3, <2>4, <2>5
<1>2. ResultsAddUp
  BY Zenon DEF ExperimentsInv, TableInv, Settled, Reported, ResultsAddUp
<1>. QED
  BY Zenon, <1>1, <1>2

\* A run or initialize that returns has executed each script it was to go
\* through once and in order, unless suites were loaded meanwhile; one that
\* raises was asked to by a script or by halt_on_exception
\* (Suites.execute_method_by_name, Script.execute_method_by_name).
THEOREM RunsAreComplete == Spec => []RunIsComplete
  BY ExperimentsStart, ExperimentsSteps, ExperimentsSafe, PTL DEF Spec

\* No result is lost, and the status of a suite is what its results add up to
\* but for a verdict that was overtaken between the two halves of finalize
\* (YamlGlobalTestResults.__setitem__ and finalize).
THEOREM ResultsAreKept == Spec => []ResultsAddUp
  BY ExperimentsStart, ExperimentsSteps, ExperimentsSafe, PTL DEF Spec
=============================================================================
