--------------------------- MODULE InteropHarness ---------------------------
(***************************************************************************)
(* The interop harness: one run of it starts the test program of every     *)
(* client in turn, reads the results file each leaves behind, and builds   *)
(* the pages of one server label from what it found.  A program that takes *)
(* too long is given up, but what it had started goes on without it, and   *)
(* writes its results when it is done: in a later run, maybe.              *)
(*                                                                         *)
(* Results stand for the run whose program wrote them, and a dashboard with*)
(* its report card for one page.                                           *)
(***************************************************************************)
EXTENDS Naturals, Sequences, SequencesExt

CONSTANTS CLIENTS,    \* the clients, in order
          Scripted,   \* those that have a run.py
          Labels,     \* the server labels
          NoLabel,    \* the label of a run that names no server
          MaxRuns     \* bound: runs of the harness

ASSUME ClientsAssumption ==
  CLIENTS \in Seq(ToSet(CLIENTS)) /\ IsInjective(CLIENTS) /\ Scripted \subseteq ToSet(CLIENTS)
ASSUME LabelsAssumption == NoLabel \notin Labels /\ MaxRuns \in Nat \ {0}

Clients == ToSet(CLIENTS)
Runs == 1 .. MaxRuns

\* What a results file may hold; run 0 is a run of before.
NoFile == MaxRuns + 1
Broken == MaxRuns + 2

VARIABLES
  pc,          \* "idle", "collect", "run", "report", "publish" or "sync"
  options,     \* per run: its label, dashboard_only and publish
  run,         \* the run under way, or the last one
  todo,        \* the clients left to run
  results,     \* per client: its results.json
  all_results, \* what this run has collected
  outcome,     \* per run and client: how its program ended
  stragglers,  \* programs given up that go on
  local, docs  \* the pages written and the pages published, per label

files == <<results, stragglers>>
pages == <<local, docs>>
vars == <<pc, options, run, todo, files, all_results, outcome, pages>>

Options == [label : Labels \union {NoLabel}, dashboard_only : BOOLEAN, publish : BOOLEAN]
Nothing == [c \in Clients |-> NoFile]
NoPage == [of |-> 0, shows |-> Nothing]

Init ==
  /\ pc = "idle" /\ run = 0 /\ todo = <<>>
  /\ options = <<>>
  /\ results \in [Clients -> {0, NoFile}]
  /\ all_results = Nothing
  /\ outcome = [r \in Runs |-> [c \in Clients |-> "none"]]
  /\ stragglers = {}
  /\ local = [l \in Labels \union {NoLabel} |-> NoPage]
  /\ docs = local

-----------------------------------------------------------------------------
(* Collecting.                                                             *)

Begin(o) ==
  /\ pc = "idle" /\ run < MaxRuns
  /\ run' = run + 1
  /\ options' = Append(options, o)
  /\ UNCHANGED <<outcome, files, pages>>

StartRun(o) ==
  /\ Begin(o) /\ ~o.dashboard_only
  /\ pc' = "collect"
  /\ todo' = CLIENTS
  /\ all_results' = Nothing

\* load_existing_results: a file that does not parse ends the program.
DashboardOnly(o) ==
  /\ Begin(o) /\ o.dashboard_only
  /\ pc' = IF \E c \in Clients : results[c] = Broken THEN "idle" ELSE "report"
  /\ all_results' = results
  /\ UNCHANGED todo

c0 == Head(todo)

Launch ==
  /\ pc = "collect" /\ todo # <<>>
  /\ IF c0 \in Scripted THEN pc' = "run" /\ UNCHANGED todo
                        ELSE todo' = Tail(todo) /\ UNCHANGED pc
  /\ UNCHANGED <<options, run, files, all_results, outcome, pages>>

\* The test program has run its tests, and writes what it found.
ProgramWrites ==
  /\ pc = "run" /\ outcome[run][c0] = "none"
  /\ results' = [results EXCEPT ![c0] = run]
  /\ outcome' = [outcome EXCEPT ![run][c0] = "wrote"]
  /\ UNCHANGED <<pc, options, run, todo, stragglers, all_results, pages>>

\* It fails to build, or ends before it writes, or in the middle of it.
ProgramCrashes ==
  /\ pc = "run" /\ outcome[run][c0] = "none"
  /\ results' \in {results, [results EXCEPT ![c0] = Broken]}
  /\ outcome' = [outcome EXCEPT ![run][c0] = "silent"]
  /\ UNCHANGED <<pc, options, run, todo, stragglers, all_results, pages>>

Collected == [all_results EXCEPT ![c0] = IF results[c0] = Broken THEN NoFile ELSE results[c0]]

\* run_client, after its program: whatever the exit code, it reads the file.
ProgramEnds ==
  /\ pc = "run" /\ outcome[run][c0] # "none"
  /\ pc' = "collect"
  /\ todo' = Tail(todo)
  /\ all_results' = Collected
  /\ UNCHANGED <<options, run, files, outcome, pages>>

NoTimeout == pc = "none" /\ UNCHANGED vars

TimeoutExpiredReads ==
  /\ pc = "run"
  /\ pc' = "collect" /\ todo' = Tail(todo)
  /\ all_results' = Collected
  /\ stragglers' = IF outcome[run][c0] = "none" THEN stragglers \union {<<c0, run>>} ELSE stragglers
  /\ outcome' = [outcome EXCEPT ![run][c0] = "late"]
  /\ UNCHANGED <<options, run, results, pages>>

\* The timeout kills run.py and not the test program that run.py started.
TimeoutExpired ==
  /\ pc = "run"
  /\ pc' = "collect" /\ todo' = Tail(todo)
  /\ stragglers' = IF outcome[run][c0] = "none" THEN stragglers \union {<<c0, run>>} ELSE stragglers
  /\ outcome' = [outcome EXCEPT ![run][c0] = "late"]
  /\ UNCHANGED <<options, run, results, all_results, pages>>

StragglerEnds(s) ==
  /\ stragglers' = stragglers \ {s}
  /\ results' \in {results, [results EXCEPT ![s[1]] = s[2]], [results EXCEPT ![s[1]] = Broken]}
  /\ UNCHANGED <<pc, options, run, todo, all_results, outcome, pages>>

-----------------------------------------------------------------------------
(* The pages.                                                              *)

Page == [of |-> run, shows |-> all_results]
label == options[run].label

CollectingDone == pc = "report" \/ (pc = "collect" /\ todo = <<>>)

NoResults ==
  /\ CollectingDone /\ all_results = Nothing
  /\ pc' = "idle"
  /\ UNCHANGED <<options, run, todo, files, all_results, outcome, pages>>

WritePages ==
  /\ CollectingDone /\ all_results # Nothing
  /\ local' = [local EXCEPT ![label] = Page]
  /\ pc' = IF options[run].publish THEN "publish" ELSE "idle"
  /\ UNCHANGED <<options, run, todo, files, all_results, outcome, docs>>

\* Every client of the harness is a publishable one.
PublishPages ==
  /\ pc = "publish"
  /\ docs' = [docs EXCEPT ![label] = Page]
  /\ pc' = "sync"
  /\ UNCHANGED <<options, run, todo, files, all_results, outcome, local>>

\* publish_all_docs copies the pages of every label, of earlier runs too.
publish_all_docs ==
  /\ pc = "sync"
  /\ docs' = [l \in DOMAIN docs |->
                IF l # NoLabel /\ local[l] # NoPage THEN local[l] ELSE docs[l]]
  /\ pc' = "idle"
  /\ UNCHANGED <<options, run, todo, files, all_results, outcome, local>>

-----------------------------------------------------------------------------
Harness ==
  \/ Launch \/ ProgramEnds \/ TimeoutExpired
  \/ NoResults \/ WritePages \/ PublishPages \/ publish_all_docs

Next ==
  \/ \E o \in Options : StartRun(o) \/ DashboardOnly(o)
  \/ Harness
  \/ ProgramWrites \/ ProgramCrashes
  \/ \E s \in stragglers : StragglerEnds(s)

\* The harness goes on and its timer fires; nothing is assumed of the programs.
Spec == Init /\ [][Next]_vars /\ WF_vars(Harness)

-----------------------------------------------------------------------------
(* Where the results on a page come from.  A run that ran the clients shows*)
(* a client's results of this run; older ones only when the program ended  *)
(* without writing, or a program given up in the older run wrote over the  *)
(* file; a client given up in this run is not shown; and none that wrote is*)
(* missing, unless such a program spoiled its file.  The pages published   *)
(* are as good as the ones written.                                        *)
Honest(p) ==
  LET how == outcome[p.of] IN
  \A c \in Clients :
    /\ p.shows[c] \notin {p.of, NoFile} =>
         \/ how[c] = "silent"
         \/ p.shows[c] # 0 /\ outcome[p.shows[c]][c] = "late"
    /\ how[c] = "late" => p.shows[c] = NoFile
    /\ how[c] = "wrote" /\ p.shows[c] = NoFile =>
         \E r \in 1 .. p.of - 1 : outcome[r][c] = "late"

PagesAreHonest ==
  \A l \in Labels \union {NoLabel} : \A p \in {local[l], docs[l]} :
    p # NoPage =>
      /\ options[p.of].label = l
      /\ options[p.of].dashboard_only \/ Honest(p)

(* Every run comes to an end, however long its programs take.              *)
RunsEnd == pc # "idle" ~> pc = "idle"
=============================================================================
