------------------------- MODULE InteropHarnessProofs -------------------------
(***************************************************************************)
(* Proofs about the interop harness, for any clients, labels and number of *)
(* runs.                                                                   *)
(***************************************************************************)
EXTENDS InteropHarness, SequenceTheorems, TLAPS

Files == 0 .. MaxRuns + 2
Pages == [of : 0 .. MaxRuns, shows : [Clients -> Files]]
Outcomes == {"none", "wrote", "silent", "late"}

TypeInv ==
  /\ pc \in {"idle", "collect", "run", "report", "publish", "sync"}
  /\ run \in 0 .. MaxRuns /\ (pc # "idle" => run \in Runs)
  /\ options \in Seq(Options) /\ Len(options) = run
  /\ todo \in Seq(Clients)
  /\ results \in [Clients -> Files] /\ all_results \in [Clients -> Files]
  /\ outcome \in [Runs -> [Clients -> Outcomes]]
  /\ stragglers \subseteq Clients \X Runs
  /\ local \in [Labels \union {NoLabel} -> Pages] /\ docs \in [Labels \union {NoLabel} -> Pages]

\* What is known of the files, of the programs given up, and of runs to come.
FilesInv ==
  /\ \A c \in Clients : results[c] \in 0 .. run \union {NoFile, Broken}
  /\ \A s \in stragglers : s[2] <= run /\ outcome[s[2]][s[1]] = "late"
  /\ \A r \in Runs, c \in Clients : r > run => outcome[r][c] = "none"
  /\ pc # "idle" => \A c \in Clients : all_results[c] \in 0 .. run \union {NoFile}

\* Honest, of one client.
HonestOf(p, c) ==
  /\ p.shows[c] \notin {p.of, NoFile} =>
       \/ outcome[p.of][c] = "silent"
       \/ p.shows[c] # 0 /\ outcome[p.shows[c]][c] = "late"
  /\ outcome[p.of][c] = "late" => p.shows[c] = NoFile
  /\ outcome[p.of][c] = "wrote" /\ p.shows[c] = NoFile =>
       \E r \in 1 .. p.of - 1 : outcome[r][c] = "late"

\* What the file of a client holds whose program has written it in this run.
Wrote(c) ==
  \/ results[c] = run
  \/ results[c] \in 1 .. run - 1 /\ outcome[results[c]][c] = "late"
  \/ results[c] = Broken /\ \E r \in 1 .. run - 1 : outcome[r][c] = "late"

\* While clients are run: the first is at work, the others wait.
RunInv ==
  /\ ~options[run].dashboard_only /\ IsInjective(todo)
  /\ \A i \in DOMAIN todo :
       /\ all_results[todo[i]] = NoFile
       /\ (i = 1 /\ pc = "run") \/ outcome[run][todo[i]] = "none"
  /\ pc = "run" =>
       /\ todo # <<>> /\ outcome[run][c0] # "late"
       /\ outcome[run][c0] = "wrote" => Wrote(c0)
  /\ \A c \in Clients : (pc = "run" => c # c0) => HonestOf(Page, c)

PageInv(l, p) ==
  p # NoPage =>
    /\ p.of \in 1 .. run
    /\ options[p.of].label = l
    /\ \A c \in Clients : p.shows[c] \in 0 .. p.of \union {NoFile}
    /\ options[p.of].dashboard_only \/ Honest(p)
    /\ pc \in {"collect", "run", "report"} => p.of < run

HarnessInv ==
  /\ TypeInv
  /\ FilesInv
  /\ pc \in {"collect", "run"} => RunInv
  /\ pc = "report" => options[run].dashboard_only
  /\ pc = "publish" => options[run].dashboard_only \/ Honest(Page)
  /\ \A l \in Labels \union {NoLabel} : PageInv(l, local[l]) /\ PageInv(l, docs[l])

-----------------------------------------------------------------------------
(* Helpers.                                                                *)

LEMMA Numbers ==
  /\ MaxRuns \in Nat \ {0} /\ Runs \subseteq Nat \ {0}
  /\ NoFile = MaxRuns + 1 /\ Broken = MaxRuns + 2
  BY LabelsAssumption DEF Runs, NoFile, Broken

LEMMA HonestIsOfEach ==
    ASSUME NEW p
    PROVE  Honest(p) <=> \A c \in Clients : HonestOf(p, c)
  BY DEF Honest, HonestOf

\* A page stays honest while what happened up to its run stays.
LEMMA HonestKept ==
    ASSUME NEW p, NEW c \in Clients, p.of \in 1 .. MaxRuns,
           p.shows[c] \in 0 .. p.of \union {NoFile}, HonestOf(p, c),
           \A r \in 1 .. p.of : outcome'[r][c] = outcome[r][c]
    PROVE  HonestOf(p, c)'
  <1>1. p.of \in 1 .. p.of /\ (p.shows[c] \notin {0, NoFile} => p.shows[c] \in 1 .. p.of)
    BY Numbers
  <1>2. outcome'[p.of][c] = outcome[p.of][c]
    BY <1>1
  <1>3. \A r \in 1 .. p.of - 1 : outcome'[r][c] = outcome[r][c]
    BY Numbers
  <1> QED BY <1>1, <1>2, <1>3 DEF HonestOf

\* A page that was written stays good, until its run is long over.
LEMMA PageKept ==
    ASSUME TypeInv, NEW l, NEW p \in Pages, PageInv(l, p),
           run' \in 0 .. MaxRuns, run <= run',
           \A i \in 1 .. run : options'[i] = options[i],
           \A r \in 1 .. run : (pc \in {"collect", "run", "report"} => r < run) =>
             \A c \in Clients : outcome'[r][c] = outcome[r][c],
           pc' \in {"collect", "run", "report"} => pc \in {"collect", "run", "report"} \/ run < run'
    PROVE  PageInv(l, p)'
  <1> SUFFICES ASSUME p # NoPage
               PROVE  /\ p.of \in 1 .. run'
                      /\ options'[p.of].label = l
                      /\ \A c \in Clients : p.shows[c] \in 0 .. p.of \union {NoFile}
                      /\ options'[p.of].dashboard_only \/ Honest(p)'
                      /\ pc' \in {"collect", "run", "report"} => p.of < run'
    BY DEF PageInv, NoPage, Nothing
  <1>1. /\ p.of \in 1 .. run
        /\ options[p.of].label = l
        /\ \A c \in Clients : p.shows[c] \in 0 .. p.of \union {NoFile}
        /\ options[p.of].dashboard_only \/ Honest(p)
        /\ pc \in {"collect", "run", "report"} => p.of < run
    BY DEF PageInv
  <1>2. run \in 0 .. MaxRuns /\ MaxRuns \in Nat
    BY Numbers DEF TypeInv
  <1>3. p.of \in 1 .. run' /\ p.of \in 1 .. MaxRuns
    BY <1>1, <1>2
  <1>4. \A r \in 1 .. p.of : r \in 1 .. run /\ (pc \in {"collect", "run", "report"} => r < run)
    BY <1>1, <1>2
  <1>5. ASSUME Honest(p), NEW c \in Clients PROVE HonestOf(p, c)'
    <2>1. HonestOf(p, c)
      BY <1>5, HonestIsOfEach
    <2>2. \A r \in 1 .. p.of : outcome'[r][c] = outcome[r][c]
      BY <1>4
    <2> QED BY <1>1, <1>3, <2>1, <2>2, HonestKept
  <1>6. Honest(p) => Honest(p)'
    BY <1>5 DEF Honest, HonestOf
  <1>7. pc' \in {"collect", "run", "report"} => p.of < run'
    BY <1>1, <1>2
  <1> QED BY <1>1, <1>3, <1>6, <1>7

LEMMA PagesKept ==
    ASSUME HarnessInv, UNCHANGED pages,
           run' \in 0 .. MaxRuns, run <= run',
           \A i \in 1 .. run : options'[i] = options[i],
           \A r \in 1 .. run : (pc \in {"collect", "run", "report"} => r < run) =>
             \A c \in Clients : outcome'[r][c] = outcome[r][c],
           pc' \in {"collect", "run", "report"} => pc \in {"collect", "run", "report"} \/ run < run'
    PROVE  \A l \in Labels \union {NoLabel} : PageInv(l, local[l])' /\ PageInv(l, docs[l])'
  <1> SUFFICES ASSUME NEW l \in Labels \union {NoLabel}
               PROVE  PageInv(l, local[l])' /\ PageInv(l, docs[l])'
    OBVIOUS
  <1>1. TypeInv /\ PageInv(l, local[l]) /\ PageInv(l, docs[l])
    BY DEF HarnessInv
  <1>2. local[l] \in Pages /\ docs[l] \in Pages /\ local' = local /\ docs' = docs
    BY <1>1 DEF TypeInv, pages
  <1>3. ASSUME NEW p \in Pages, PageInv(l, p) PROVE PageInv(l, p)'
    BY <1>1, <1>3, PageKept
  <1>4. PICK p \in Pages : p = local[l]
    BY <1>2
  <1>5. PICK q \in Pages : q = docs[l]
    BY <1>2
  <1>6. PageInv(l, p)' /\ PageInv(l, q)'
    BY <1>1, <1>3, <1>4, <1>5
  <1> QED BY <1>2, <1>4, <1>5, <1>6 DEF PageInv, Honest

LEMMA Rest ==
    ASSUME TypeInv, todo # <<>>, IsInjective(todo)
    PROVE  /\ c0 \in Clients /\ 1 \in DOMAIN todo /\ todo[1] = c0
           /\ Tail(todo) \in Seq(Clients) /\ IsInjective(Tail(todo))
           /\ \A i \in DOMAIN Tail(todo) :
                i + 1 \in DOMAIN todo /\ i + 1 # 1 /\ Tail(todo)[i] = todo[i + 1] /\ Tail(todo)[i] # c0
           /\ \A i \in DOMAIN todo : i # 1 => todo[i] # c0
  <1>1. todo \in Seq(Clients)
    BY DEF TypeInv
  <1>2. /\ c0 \in Clients /\ c0 = todo[1] /\ Len(todo) \in Nat \ {0} /\ DOMAIN todo = 1 .. Len(todo)
    BY <1>1 DEF c0
  <1>3. /\ Tail(todo) \in Seq(Clients) /\ DOMAIN Tail(todo) = 1 .. Len(todo) - 1
        /\ \A i \in 1 .. Len(todo) - 1 : Tail(todo)[i] = todo[i + 1]
    BY <1>1, <1>2
  <1>4. \A i, j \in DOMAIN todo : todo[i] = todo[j] => i = j
    BY DEF IsInjective
  <1>5. \A i \in DOMAIN Tail(todo) : i + 1 \in DOMAIN todo /\ i + 1 # 1 /\ Tail(todo)[i] = todo[i + 1]
    BY <1>2, <1>3
  <1>6. 1 \in DOMAIN todo /\ \A i \in DOMAIN todo : i # 1 => todo[i] # c0
    BY <1>2, <1>4
  <1>7. \A i \in DOMAIN Tail(todo) : Tail(todo)[i] # c0
    BY <1>5, <1>6
  <1>8. ASSUME NEW i \in DOMAIN Tail(todo), NEW j \in DOMAIN Tail(todo), Tail(todo)[i] = Tail(todo)[j]
        PROVE  i = j
    <2>1. i + 1 = j + 1
      BY <1>4, <1>5, <1>8
    <2> QED BY <1>2, <1>3, <2>1
  <1>9. IsInjective(Tail(todo))
    BY <1>8 DEF IsInjective
  <1> QED BY <1>2, <1>3, <1>5, <1>6, <1>7, <1>9

LEMMA HarnessInvInit == Init => HarnessInv
  <1> SUFFICES ASSUME Init PROVE HarnessInv
    OBVIOUS
  <1>1. /\ pc = "idle" /\ run = 0 /\ todo = <<>> /\ options = <<>>
        /\ results \in [Clients -> {0, NoFile}] /\ all_results = Nothing
        /\ outcome = [r \in Runs |-> [c \in Clients |-> "none"]] /\ stragglers = {}
        /\ local = [l \in Labels \union {NoLabel} |-> NoPage] /\ docs = local
    BY DEF Init
  <1>2. NoFile \in Files /\ 0 \in Files /\ 0 \in 0 .. MaxRuns
    BY Numbers DEF Files
  <1>3. Nothing \in [Clients -> Files] /\ NoPage \in Pages
    BY <1>2 DEF Nothing, NoPage, Pages
  <1>4. TypeInv
    <2>1. outcome \in [Runs -> [Clients -> Outcomes]]
      BY <1>1 DEF Outcomes
    <2>2. results \in [Clients -> Files] /\ all_results \in [Clients -> Files]
      BY <1>1, <1>2, <1>3
    <2>3. /\ local \in [Labels \union {NoLabel} -> Pages] /\ docs \in [Labels \union {NoLabel} -> Pages]
      BY <1>1, <1>3
    <2>4. options \in Seq(Options) /\ Len(options) = 0 /\ todo \in Seq(Clients)
      BY <1>1
    <2> QED BY <1>1, <1>2, <2>1, <2>2, <2>3, <2>4 DEF TypeInv
  <1>5. FilesInv
    BY <1>1 DEF FilesInv
  <1>6. \A l \in Labels \union {NoLabel} : PageInv(l, local[l]) /\ PageInv(l, docs[l])
    BY <1>1 DEF PageInv
  <1> QED BY <1>1, <1>4, <1>5, <1>6 DEF HarnessInv

-----------------------------------------------------------------------------
(* A run begins.                                                           *)

LEMMA BeginFacts ==
    ASSUME HarnessInv, NEW o \in Options, Begin(o)
    PROVE  /\ pc = "idle" /\ run' = run + 1 /\ run' \in Runs /\ run \in 0 .. MaxRuns
           /\ options' \in Seq(Options) /\ Len(options') = run'
           /\ options'[run'] = o /\ \A i \in 1 .. run : options'[i] = options[i]
           /\ outcome' = outcome /\ results' = results /\ stragglers' = stragglers
           /\ UNCHANGED pages
  <1>1. /\ pc = "idle" /\ run < MaxRuns /\ run' = run + 1 /\ options' = Append(options, o)
        /\ outcome' = outcome /\ results' = results /\ stragglers' = stragglers /\ UNCHANGED pages
    BY DEF Begin, files
  <1>2. run \in 0 .. MaxRuns /\ options \in Seq(Options) /\ Len(options) = run
    BY DEF HarnessInv, TypeInv
  <1>3. run' \in Runs
    BY <1>1, <1>2, Numbers DEF Runs
  <1>4. options' \in Seq(Options) /\ Len(options') = run + 1
    BY <1>1, <1>2, AppendProperties
  <1>5. options'[run + 1] = o
    BY <1>1, <1>2, AppendProperties
  <1>6. \A i \in 1 .. run : options'[i] = options[i]
    BY <1>1, <1>2, AppendProperties
  <1> QED BY <1>1, <1>2, <1>3, <1>4, <1>5, <1>6

\* What both ways to begin have in common.
LEMMA BeginKeeps ==
    ASSUME HarnessInv, NEW o \in Options, Begin(o),
           pc' \in {"idle", "collect", "report"},
           todo' \in Seq(Clients), all_results' \in [Clients -> Files],
           pc' # "idle" => \A c \in Clients : all_results'[c] \in 0 .. run + 1 \union {NoFile},
           pc' = "report" => o.dashboard_only,
           pc' = "collect" => RunInv'
    PROVE  HarnessInv'
  <1>1. /\ pc = "idle" /\ run' = run + 1 /\ run' \in Runs /\ run \in 0 .. MaxRuns
        /\ options' \in Seq(Options) /\ Len(options') = run'
        /\ options'[run'] = o /\ \A i \in 1 .. run : options'[i] = options[i]
        /\ outcome' = outcome /\ results' = results /\ stragglers' = stragglers /\ UNCHANGED pages
    BY BeginFacts
  <1>2. TypeInv /\ FilesInv
    BY DEF HarnessInv
  <1>3. run' \in 0 .. MaxRuns /\ run <= run' /\ run < run' /\ 0 .. run \subseteq 0 .. run'
    BY <1>1, Numbers DEF Runs
  <1>4. TypeInv'
    BY <1>1, <1>2, <1>3 DEF TypeInv, pages
  <1>5. FilesInv'
    <2>1. \A c \in Clients : results'[c] \in 0 .. run' \union {NoFile, Broken}'
      BY <1>1, <1>2, <1>3 DEF FilesInv, NoFile, Broken
    <2>2. \A s \in stragglers' : s[2] <= run' /\ outcome'[s[2]][s[1]] = "late"
      <3> SUFFICES ASSUME NEW s \in stragglers PROVE s[2] <= run' /\ outcome[s[2]][s[1]] = "late"
        BY <1>1
      <3>1. s[2] \in Runs /\ s[2] <= run /\ outcome[s[2]][s[1]] = "late"
        BY <1>2 DEF FilesInv, TypeInv
      <3> QED BY <1>1, <3>1, Numbers
    <2>3. \A r \in Runs, c \in Clients : r > run' => outcome'[r][c] = "none"
      BY <1>1, <1>2, Numbers DEF FilesInv
    <2>4. pc' # "idle" => \A c \in Clients : all_results'[c] \in 0 .. run' \union {NoFile}'
      BY <1>1 DEF NoFile
    <2> QED BY <2>1, <2>2, <2>3, <2>4 DEF FilesInv
  <1>6. \A l \in Labels \union {NoLabel} : PageInv(l, local[l])' /\ PageInv(l, docs[l])'
    BY <1>1, <1>3, PagesKept
  <1>7. pc' = "report" => options'[run'].dashboard_only
    BY <1>1
  <1> QED BY <1>4, <1>5, <1>6, <1>7 DEF HarnessInv

LEMMA StartRunKeeps ==
    ASSUME HarnessInv, NEW o \in Options, StartRun(o)
    PROVE  HarnessInv'
  <1>1. Begin(o) /\ ~o.dashboard_only /\ pc' = "collect" /\ todo' = CLIENTS /\ all_results' = Nothing
    BY DEF StartRun
  <1>2. /\ run' = run + 1 /\ run' \in Runs /\ options'[run'] = o /\ outcome' = outcome /\ run \in 0 .. MaxRuns
    BY <1>1, BeginFacts
  <1>3. CLIENTS \in Seq(Clients) /\ IsInjective(CLIENTS)
    BY ClientsAssumption DEF Clients
  <1>4. \A c \in Clients : Nothing[c] = NoFile
    BY DEF Nothing
  <1>5. Nothing \in [Clients -> Files]
    BY Numbers DEF Nothing, Files
  <1>6. \A c \in Clients : outcome'[run'][c] = "none"
    <2>1. run' > run
      BY <1>2
    <2> QED BY <1>2, <2>1 DEF HarnessInv, FilesInv
  <1>7. \A c \in Clients : Page'.shows[c] = NoFile /\ Page'.of = run'
    BY <1>1, <1>4 DEF Page
  <1>8. \A c \in Clients : HonestOf(Page, c)'
    BY <1>6, <1>7 DEF HonestOf, NoFile
  <1>9. \A i \in DOMAIN todo' : all_results'[todo'[i]] = NoFile /\ outcome'[run'][todo'[i]] = "none"
    BY <1>1, <1>3, <1>4, <1>6
  <1>10. RunInv'
    BY <1>1, <1>2, <1>3, <1>8, <1>9 DEF RunInv, NoFile
  <1> QED BY <1>1, <1>3, <1>4, <1>5, <1>10, BeginKeeps

LEMMA DashboardOnlyKeeps ==
    ASSUME HarnessInv, NEW o \in Options, DashboardOnly(o)
    PROVE  HarnessInv'
  <1>1. /\ Begin(o) /\ o.dashboard_only /\ all_results' = results /\ todo' = todo
        /\ pc' = IF \E c \in Clients : results[c] = Broken THEN "idle" ELSE "report"
    BY DEF DashboardOnly
  <1>2. TypeInv /\ FilesInv
    BY DEF HarnessInv
  <1>3. ASSUME pc' # "idle", NEW c \in Clients
        PROVE  all_results'[c] \in 0 .. run + 1 \union {NoFile}
    <2>1. results[c] # Broken /\ results[c] \in 0 .. run \union {NoFile, Broken}
      BY <1>1, <1>2, <1>3 DEF FilesInv
    <2>2. 0 .. run \subseteq 0 .. run + 1
      BY <1>2, Numbers DEF TypeInv
    <2> QED BY <1>1, <2>1, <2>2
  <1>4. pc' \in {"idle", "report"}
    BY <1>1
  <1> QED BY <1>1, <1>2, <1>3, <1>4, BeginKeeps DEF TypeInv

-----------------------------------------------------------------------------
(* A client is run.                                                        *)

\* The client at work is done with, or was none to run.
LEMMA Advances ==
    ASSUME HarnessInv, pc \in {"collect", "run"}, todo # <<>>,
           pc' = "collect", todo' = Tail(todo), UNCHANGED <<options, run, results, pages>>,
           all_results' \in [Clients -> Files],
           all_results'[c0] \in 0 .. run \union {NoFile},
           \A c \in Clients : c # c0 => all_results'[c] = all_results[c],
           outcome' \in [Runs -> [Clients -> Outcomes]],
           \A r \in Runs, c \in Clients : (r # run \/ c # c0) => outcome'[r][c] = outcome[r][c],
           stragglers' \subseteq Clients \X Runs,
           \A s \in stragglers' : s[2] <= run /\ outcome'[s[2]][s[1]] = "late",
           \A c \in Clients : c = c0 => HonestOf(Page, c)'
    PROVE  HarnessInv'
  <1>1. TypeInv /\ FilesInv /\ RunInv /\ run \in Runs
    BY DEF HarnessInv, TypeInv
  <1>2. /\ c0 \in Clients /\ 1 \in DOMAIN todo /\ todo[1] = c0
        /\ Tail(todo) \in Seq(Clients) /\ IsInjective(Tail(todo))
        /\ \A i \in DOMAIN Tail(todo) :
             i + 1 \in DOMAIN todo /\ i + 1 # 1 /\ Tail(todo)[i] = todo[i + 1] /\ Tail(todo)[i] # c0
    BY <1>1, Rest DEF RunInv
  <1>3. TypeInv'
    BY <1>1, <1>2 DEF TypeInv, pages
  <1>4. FilesInv'
    <2>1. \A r \in Runs, c \in Clients : r > run => outcome'[r][c] = "none"
      BY <1>1, Numbers DEF FilesInv
    <2>2. \A c \in Clients : all_results'[c] \in 0 .. run \union {NoFile}
      BY <1>1 DEF FilesInv
    <2> QED BY <1>1, <2>1, <2>2 DEF FilesInv, NoFile, Broken
  <1>5. \A i \in DOMAIN Tail(todo) :
          all_results'[Tail(todo)[i]] = NoFile /\ outcome'[run][Tail(todo)[i]] = "none"
    <2> SUFFICES ASSUME NEW i \in DOMAIN Tail(todo)
                 PROVE  all_results'[Tail(todo)[i]] = NoFile /\ outcome'[run][Tail(todo)[i]] = "none"
      OBVIOUS
    <2>1. Tail(todo)[i] \in Clients /\ Tail(todo)[i] # c0
      BY <1>2
    <2>2. all_results[todo[i + 1]] = NoFile /\ outcome[run][todo[i + 1]] = "none"
      BY <1>1, <1>2 DEF RunInv
    <2> QED BY <1>1, <1>2, <2>1, <2>2
  <1>6. ASSUME NEW c \in Clients, c # c0 PROVE HonestOf(Page, c)'
    <2>1. HonestOf(Page, c)
      BY <1>1, <1>6 DEF RunInv
    <2>2. all_results[c] \in 0 .. run \union {NoFile} /\ all_results'[c] = all_results[c]
      BY <1>1, <1>6 DEF FilesInv
    <2>3. \A r \in 1 .. run : r \in Runs /\ outcome'[r][c] = outcome[r][c]
      BY <1>1, <1>6, Numbers DEF Runs
    <2>4. PICK p : p = Page
      OBVIOUS
    <2>5. p.of = run /\ p.shows = all_results
      BY <2>4 DEF Page
    <2>6. HonestOf(p, c)'
      BY <1>1, <2>1, <2>2, <2>3, <2>4, <2>5, HonestKept DEF Runs
    <2>7. Page'.of = p.of /\ Page'.shows[c] = p.shows[c]
      BY <2>2, <2>5 DEF Page
    <2> QED BY <2>6, <2>7 DEF HonestOf, NoFile
  <1>7. \A c \in Clients : HonestOf(Page, c)'
    BY <1>6
  <1>8. RunInv'
    <2>1. ~options'[run'].dashboard_only /\ IsInjective(todo')
      BY <1>1, <1>2 DEF RunInv
    <2>2. \A i \in DOMAIN todo' : all_results'[todo'[i]] = NoFile' /\ outcome'[run'][todo'[i]] = "none"
      BY <1>5 DEF NoFile
    <2>3. pc' # "run"
      OBVIOUS
    <2> QED BY <1>7, <2>1, <2>2, <2>3 DEF RunInv
  <1>9. \A l \in Labels \union {NoLabel} : PageInv(l, local[l])' /\ PageInv(l, docs[l])'
    <2>1. \A r \in 1 .. run : (pc \in {"collect", "run", "report"} => r < run) =>
             \A c \in Clients : outcome'[r][c] = outcome[r][c]
      BY <1>1, Numbers DEF Runs
    <2>2. run' \in 0 .. MaxRuns /\ run <= run'
      BY <1>1, Numbers DEF TypeInv, Runs
    <2> QED BY <2>1, <2>2, PagesKept
  <1> QED BY <1>3, <1>4, <1>8, <1>9 DEF HarnessInv

LEMMA LaunchKeeps ==
    ASSUME HarnessInv, Launch
    PROVE  HarnessInv'
  <1>1. TypeInv /\ FilesInv /\ RunInv /\ run \in Runs /\ pc = "collect" /\ todo # <<>>
    BY DEF HarnessInv, TypeInv, Launch
  <1>2. /\ options' = options /\ run' = run /\ results' = results /\ stragglers' = stragglers
        /\ all_results' = all_results /\ outcome' = outcome /\ UNCHANGED pages
    BY DEF Launch, files
  <1>3. c0 \in Clients /\ 1 \in DOMAIN todo /\ todo[1] = c0
    BY <1>1, Rest DEF RunInv
  <1>4. outcome[run][c0] = "none" /\ all_results[c0] = NoFile
    BY <1>1, <1>3 DEF RunInv
  <1>5. CASE c0 \notin Scripted
    <2>1. pc' = "collect" /\ todo' = Tail(todo)
      BY <1>5 DEF Launch
    <2>2. \A c \in Clients : HonestOf(Page, c)
      BY <1>1 DEF RunInv
    <2>3. \A c \in Clients : HonestOf(Page, c)'
      BY <1>2, <2>2 DEF HonestOf, Page, NoFile
    <2>4. \A s \in stragglers' : s[2] <= run /\ outcome'[s[2]][s[1]] = "late"
      BY <1>1, <1>2 DEF FilesInv
    <2> QED BY <1>1, <1>2, <1>4, <2>1, <2>3, <2>4, Advances DEF TypeInv
  <1>6. CASE c0 \in Scripted
    <2>1. pc' = "run" /\ todo' = todo
      BY <1>6 DEF Launch
    <2>2. TypeInv' /\ FilesInv'
      BY <1>1, <1>2, <2>1 DEF TypeInv, FilesInv, pages, NoFile, Broken
    <2>3. c0' = c0 /\ Page' = Page
      BY <1>2, <2>1 DEF c0, Page
    <2>4. RunInv'
      <3>1. ~options'[run'].dashboard_only /\ IsInjective(todo')
        BY <1>1, <1>2, <2>1 DEF RunInv
      <3>2. \A i \in DOMAIN todo' : all_results'[todo'[i]] = NoFile' /\ outcome'[run'][todo'[i]] = "none"
        BY <1>1, <1>2, <2>1 DEF RunInv, NoFile
      <3>3. todo' # <<>> /\ outcome'[run'][c0'] = "none"
        BY <1>1, <1>2, <1>4, <2>1, <2>3
      <3>4. \A c \in Clients : HonestOf(Page, c)'
        BY <1>1, <1>2, <2>3 DEF RunInv, HonestOf, NoFile
      <3> QED BY <3>1, <3>2, <3>3, <3>4 DEF RunInv
    <2>5. \A l \in Labels \union {NoLabel} : PageInv(l, local[l])' /\ PageInv(l, docs[l])'
      <3>1. run' \in 0 .. MaxRuns /\ run <= run'
        BY <1>1, <1>2, Numbers DEF TypeInv, Runs
      <3> QED BY <1>1, <1>2, <3>1, PagesKept
    <2> QED BY <2>1, <2>2, <2>4, <2>5 DEF HarnessInv
  <1> QED BY <1>5, <1>6

\* The program of the client at work writes, or ends without.
LEMMA ProgramKeeps ==
    ASSUME HarnessInv, ProgramWrites \/ ProgramCrashes
    PROVE  HarnessInv'
  <1>1. TypeInv /\ FilesInv /\ RunInv /\ run \in Runs /\ pc = "run" /\ todo # <<>>
        /\ outcome[run][c0] = "none"
    BY DEF HarnessInv, TypeInv, RunInv, ProgramWrites, ProgramCrashes
  <1>2. /\ pc' = pc /\ options' = options /\ run' = run /\ todo' = todo /\ stragglers' = stragglers
        /\ all_results' = all_results /\ UNCHANGED pages
    BY DEF ProgramWrites, ProgramCrashes
  <1>3. /\ c0 \in Clients /\ 1 \in DOMAIN todo /\ todo[1] = c0
        /\ \A i \in DOMAIN todo : i # 1 => todo[i] # c0
    BY <1>1, Rest DEF RunInv
  <1>4. PICK x \in {"wrote", "silent"} :
          /\ outcome' = [outcome EXCEPT ![run][c0] = x]
          /\ x = "wrote" => results' = [results EXCEPT ![c0] = run]
    BY DEF ProgramWrites, ProgramCrashes
  <1>5. \A c \in Clients : results'[c] \in {results[c], run, Broken}
    <2>1. CASE results' = [results EXCEPT ![c0] = run]
      BY <1>1, <1>3, <2>1 DEF TypeInv
    <2>2. CASE results' \in {results, [results EXCEPT ![c0] = Broken]}
      BY <1>1, <1>3, <2>2 DEF TypeInv
    <2> QED BY <2>1, <2>2 DEF ProgramWrites, ProgramCrashes
  <1>6. results' \in [Clients -> Files]
    <2>1. run \in Files /\ Broken \in Files
      BY <1>1, Numbers DEF Files, Runs
    <2> QED BY <1>1, <1>3, <2>1 DEF TypeInv, ProgramWrites, ProgramCrashes
  <1>7. /\ outcome' \in [Runs -> [Clients -> Outcomes]] /\ outcome'[run][c0] = x
        /\ \A r \in Runs, c \in Clients : (r # run \/ c # c0) => outcome'[r][c] = outcome[r][c]
    BY <1>1, <1>3, <1>4 DEF TypeInv, Outcomes
  <1>8. TypeInv'
    BY <1>1, <1>2, <1>6, <1>7 DEF TypeInv, pages
  <1>9. FilesInv'
    <2>1. \A c \in Clients : results'[c] \in 0 .. run \union {NoFile, Broken}
      BY <1>1, <1>5, Numbers DEF FilesInv, Runs
    <2>2. ASSUME NEW s \in stragglers
          PROVE  s[2] <= run /\ outcome'[s[2]][s[1]] = "late"
      <3>1. s[2] \in Runs /\ s[1] \in Clients /\ s[2] <= run /\ outcome[s[2]][s[1]] = "late"
        BY <1>1 DEF FilesInv, TypeInv
      <3>2. s[2] # run \/ s[1] # c0
        BY <1>1, <3>1
      <3> QED BY <1>7, <3>1, <3>2
    <2>3. \A r \in Runs, c \in Clients : r > run => outcome'[r][c] = "none"
      BY <1>1, <1>7, Numbers DEF FilesInv
    <2> QED BY <1>1, <1>2, <2>1, <2>2, <2>3 DEF FilesInv, NoFile, Broken
  <1>10. c0' = c0 /\ Page' = Page
    BY <1>2 DEF c0, Page
  <1>11. ASSUME NEW c \in Clients, c # c0 PROVE HonestOf(Page, c)'
    <2>1. HonestOf(Page, c) /\ all_results[c] \in 0 .. run \union {NoFile}
      BY <1>1, <1>11 DEF RunInv, FilesInv
    <2>2. \A r \in 1 .. run : outcome'[r][c] = outcome[r][c]
      BY <1>1, <1>7, <1>11, Numbers DEF Runs
    <2>3. PICK p : p = Page
      OBVIOUS
    <2>4. p.of = run /\ p.shows = all_results
      BY <2>3 DEF Page
    <2>5. HonestOf(p, c)'
      BY <1>1, <2>1, <2>2, <2>3, <2>4, HonestKept DEF Runs
    <2> QED BY <1>10, <2>3, <2>5 DEF HonestOf, NoFile
  <1>12. RunInv'
    <2>1. ~options'[run'].dashboard_only /\ IsInjective(todo')
      BY <1>1, <1>2 DEF RunInv
    <2>2. ASSUME NEW i \in DOMAIN todo
          PROVE  all_results'[todo[i]] = NoFile /\ (i = 1 \/ outcome'[run][todo[i]] = "none")
      <3>1. all_results[todo[i]] = NoFile /\ (i = 1 \/ outcome[run][todo[i]] = "none")
        BY <1>1 DEF RunInv
      <3>2. todo[i] \in Clients
        BY <1>1 DEF TypeInv
      <3> QED BY <1>1, <1>2, <1>3, <1>7, <3>1, <3>2
    <2>3. outcome'[run'][c0'] = x
      BY <1>2, <1>7, <1>10
    <2>4. x = "wrote" => results'[c0'] = run'
      BY <1>1, <1>2, <1>3, <1>4, <1>10 DEF TypeInv
    <2>5. x = "wrote" => Wrote(c0)'
      BY <2>4 DEF Wrote
    <2> QED BY <1>1, <1>2, <1>10, <1>11, <2>1, <2>2, <2>3, <2>5 DEF RunInv, NoFile
  <1>13. \A l \in Labels \union {NoLabel} : PageInv(l, local[l])' /\ PageInv(l, docs[l])'
    <2>1. \A r \in 1 .. run : (pc \in {"collect", "run", "report"} => r < run) =>
             \A c \in Clients : outcome'[r][c] = outcome[r][c]
      BY <1>1, <1>7, Numbers DEF Runs
    <2>2. run' \in 0 .. MaxRuns /\ run <= run'
      BY <1>1, <1>2, Numbers DEF TypeInv, Runs
    <2> QED BY <1>1, <1>2, <2>1, <2>2, PagesKept
  <1> QED BY <1>1, <1>2, <1>8, <1>9, <1>12, <1>13 DEF HarnessInv

LEMMA ProgramEndsKeeps ==
    ASSUME HarnessInv, ProgramEnds
    PROVE  HarnessInv'
  <1>1. TypeInv /\ FilesInv /\ RunInv /\ run \in Runs /\ pc = "run" /\ todo # <<>>
        /\ outcome[run][c0] # "none"
    BY DEF HarnessInv, TypeInv, RunInv, ProgramEnds
  <1>2. /\ pc' = "collect" /\ todo' = Tail(todo) /\ all_results' = Collected
        /\ options' = options /\ run' = run /\ results' = results /\ stragglers' = stragglers
        /\ outcome' = outcome /\ UNCHANGED pages
    BY DEF ProgramEnds, files
  <1>3. c0 \in Clients
    BY <1>1, Rest DEF RunInv
  <1>4. results[c0] \in 0 .. run \union {NoFile, Broken}
    BY <1>1, <1>3 DEF FilesInv
  <1>5. /\ all_results' \in [Clients -> Files]
        /\ all_results'[c0] = IF results[c0] = Broken THEN NoFile ELSE results[c0]
        /\ \A c \in Clients : c # c0 => all_results'[c] = all_results[c]
    <2>1. NoFile \in Files /\ results[c0] \in Files
      BY <1>1, <1>3, Numbers DEF TypeInv, Files
    <2> QED BY <1>1, <1>2, <1>3, <2>1 DEF TypeInv, Collected
  <1>6. outcome[run][c0] = "silent" \/ (outcome[run][c0] = "wrote" /\ Wrote(c0))
    BY <1>1, <1>3 DEF TypeInv, Outcomes, RunInv
  <1>7. ASSUME NEW c \in Clients, c = c0 PROVE HonestOf(Page, c)'
    <2>1. Page'.of = run /\ Page'.shows[c] = all_results'[c]
      BY <1>2 DEF Page
    <2>2. /\ outcome'[run][c] # "late" /\ outcome' = outcome /\ NoFile' = NoFile
          /\ all_results'[c] = IF results[c] = Broken THEN NoFile ELSE results[c]
      BY <1>2, <1>5, <1>6, <1>7 DEF NoFile
    <2>3. CASE outcome[run][c] = "silent"
      BY <2>1, <2>2, <2>3 DEF HonestOf
    <2>4. CASE outcome[run][c] = "wrote" /\ results[c] = run
      <3>1. all_results'[c] = run /\ run # NoFile
        BY <1>1, <2>2, <2>4, Numbers DEF Runs
      <3> QED BY <2>1, <2>2, <2>4, <3>1 DEF HonestOf
    <2>5. CASE /\ outcome[run][c] = "wrote"
               /\ results[c] \in 1 .. run - 1 /\ outcome[results[c]][c] = "late"
      <3>1. all_results'[c] = results[c] /\ results[c] # NoFile /\ results[c] # 0
        BY <1>1, <2>2, <2>5, Numbers DEF Runs
      <3> QED BY <2>1, <2>2, <2>5, <3>1 DEF HonestOf
    <2>6. CASE /\ outcome[run][c] = "wrote"
               /\ results[c] = Broken /\ \E r \in 1 .. run - 1 : outcome[r][c] = "late"
      <3>1. all_results'[c] = NoFile
        BY <2>2, <2>6
      <3> QED BY <2>1, <2>2, <2>6, <3>1 DEF HonestOf
    <2> QED BY <1>6, <1>7, <2>3, <2>4, <2>5, <2>6 DEF Wrote
  <1>8. \A s \in stragglers' : s[2] <= run /\ outcome'[s[2]][s[1]] = "late"
    BY <1>1, <1>2 DEF FilesInv
  <1>9. all_results'[c0] \in 0 .. run \union {NoFile}
    BY <1>4, <1>5
  <1> QED BY <1>1, <1>2, <1>5, <1>7, <1>8, <1>9, Advances DEF TypeInv

LEMMA TimeoutExpiredKeeps ==
    ASSUME HarnessInv, TimeoutExpired
    PROVE  HarnessInv'
  <1>1. TypeInv /\ FilesInv /\ RunInv /\ run \in Runs /\ pc = "run" /\ todo # <<>>
    BY DEF HarnessInv, TypeInv, RunInv, TimeoutExpired
  <1>2. /\ pc' = "collect" /\ todo' = Tail(todo) /\ all_results' = all_results
        /\ options' = options /\ run' = run /\ results' = results /\ UNCHANGED pages
        /\ outcome' = [outcome EXCEPT ![run][c0] = "late"]
        /\ stragglers' \subseteq stragglers \union {<<c0, run>>}
    BY DEF TimeoutExpired
  <1>3. c0 \in Clients /\ 1 \in DOMAIN todo /\ todo[1] = c0
    BY <1>1, Rest DEF RunInv
  <1>4. /\ outcome' \in [Runs -> [Clients -> Outcomes]] /\ outcome'[run][c0] = "late"
        /\ \A r \in Runs, c \in Clients : (r # run \/ c # c0) => outcome'[r][c] = outcome[r][c]
    BY <1>1, <1>2, <1>3 DEF TypeInv, Outcomes
  <1>5. all_results[c0] = NoFile
    BY <1>1, <1>3 DEF RunInv
  <1>6. ASSUME NEW c \in Clients, c = c0 PROVE HonestOf(Page, c)'
    <2>1. Page'.of = run /\ Page'.shows[c] = NoFile /\ outcome'[run][c] = "late" /\ NoFile' = NoFile
      BY <1>2, <1>4, <1>5, <1>6 DEF Page, NoFile
    <2> QED BY <2>1 DEF HonestOf
  <1>7. ASSUME NEW s \in stragglers'
        PROVE  s \in Clients \X Runs /\ s[2] <= run /\ outcome'[s[2]][s[1]] = "late"
    <2>1. CASE s = <<c0, run>>
      BY <1>1, <1>3, <1>4, <2>1, Numbers DEF Runs
    <2>2. CASE s \in stragglers
      <3>1. s[2] \in Runs /\ s[1] \in Clients /\ s[2] <= run /\ outcome[s[2]][s[1]] = "late"
        BY <1>1, <2>2 DEF FilesInv, TypeInv
      <3>2. outcome'[s[2]][s[1]] = "late"
        BY <1>4, <3>1
      <3> QED BY <1>1, <2>2, <3>1, <3>2 DEF TypeInv
    <2> QED BY <1>2, <1>7, <2>1, <2>2
  <1>8. stragglers' \subseteq Clients \X Runs
    BY <1>7
  <1> QED BY <1>1, <1>2, <1>4, <1>5, <1>6, <1>7, <1>8, Advances DEF TypeInv

LEMMA StragglerEndsKeeps ==
    ASSUME HarnessInv, NEW s \in stragglers, StragglerEnds(s)
    PROVE  HarnessInv'
  <1>1. /\ pc' = pc /\ options' = options /\ run' = run /\ todo' = todo
        /\ all_results' = all_results /\ outcome' = outcome /\ UNCHANGED pages
        /\ stragglers' = stragglers \ {s}
        /\ results' \in {results, [results EXCEPT ![s[1]] = s[2]], [results EXCEPT ![s[1]] = Broken]}
    BY DEF StragglerEnds
  <1>2. TypeInv /\ FilesInv
    BY DEF HarnessInv
  <1>3. s[1] \in Clients /\ s[2] \in Runs /\ s[2] <= run /\ outcome[s[2]][s[1]] = "late"
        /\ run \in 0 .. MaxRuns
    BY <1>2 DEF TypeInv, FilesInv
  <1>4. \A c \in Clients : \/ results'[c] = results[c]
                           \/ c = s[1] /\ results'[c] \in {s[2], Broken}
    BY <1>1, <1>2, <1>3 DEF TypeInv
  <1>5. s[2] \in Files /\ Broken \in Files /\ s[2] \in 0 .. run
    BY <1>3, Numbers DEF Files, Runs
  <1>6. results' \in [Clients -> Files]
    BY <1>1, <1>2, <1>3, <1>5 DEF TypeInv
  <1>7. TypeInv'
    BY <1>1, <1>2, <1>6 DEF TypeInv, pages
  <1>8. FilesInv'
    <2>1. \A c \in Clients : results'[c] \in 0 .. run \union {NoFile, Broken}
      BY <1>2, <1>4, <1>5 DEF FilesInv
    <2> QED BY <1>1, <1>2, <2>1 DEF FilesInv, NoFile, Broken
  <1>9. c0' = c0 /\ Page' = Page
    BY <1>1 DEF c0, Page
  <1>10. ASSUME pc \in {"collect", "run"} PROVE RunInv'
    <2>1. RunInv /\ run \in Runs
      BY <1>2, <1>10 DEF HarnessInv, TypeInv
    <2>2. ASSUME pc = "run", outcome[run][c0] = "wrote" PROVE Wrote(c0)'
      <3>1. Wrote(c0) /\ todo # <<>> /\ c0 \in Clients
        BY <1>2, <2>1, <2>2, Rest DEF RunInv
      <3>2. CASE results'[c0] = results[c0]
        BY <1>1, <1>9, <3>1, <3>2 DEF Wrote, Broken
      <3>3. CASE c0 = s[1] /\ results'[c0] \in {s[2], Broken}
        <4>1. s[2] \in 1 .. run - 1 /\ outcome[s[2]][c0] = "late"
          <5>1. s[2] # run
            BY <1>3, <2>2, <3>3
          <5> QED BY <1>3, <3>3, <5>1, Numbers DEF Runs
        <4> QED BY <1>1, <1>9, <3>3, <4>1 DEF Wrote, Broken
      <3> QED BY <1>4, <3>1, <3>2, <3>3
    <2>3. \A c \in Clients : HonestOf(Page, c) => HonestOf(Page, c)'
      BY <1>1, <1>9 DEF HonestOf, NoFile
    <2> QED BY <1>1, <1>9, <2>1, <2>2, <2>3 DEF RunInv, NoFile
  <1>11. \A l \in Labels \union {NoLabel} : PageInv(l, local[l])' /\ PageInv(l, docs[l])'
    <2>1. run' \in 0 .. MaxRuns /\ run <= run'
      BY <1>1, <1>3, Numbers
    <2> QED BY <1>1, <2>1, PagesKept
  <1>12. Honest(Page) => Honest(Page)'
    BY <1>1, <1>9 DEF Honest, NoFile
  <1> QED BY <1>1, <1>7, <1>8, <1>10, <1>11, <1>12 DEF HarnessInv

-----------------------------------------------------------------------------
(* The pages are written and published.                                    *)

\* A step that changes nothing but the pages, from a run that is collected.
LEMMA PagesKeep ==
    ASSUME HarnessInv, UNCHANGED <<options, run, todo, files, all_results, outcome>>,
           pc' \in {"idle", "publish", "sync"},
           local' \in [Labels \union {NoLabel} -> Pages],
           docs' \in [Labels \union {NoLabel} -> Pages],
           pc # "idle",
           pc' = "publish" => options[run].dashboard_only \/ Honest(Page),
           \A l \in Labels \union {NoLabel} : PageInv(l, local[l])' /\ PageInv(l, docs[l])'
    PROVE  HarnessInv'
  <1>1. /\ options' = options /\ run' = run /\ todo' = todo /\ results' = results
        /\ stragglers' = stragglers /\ all_results' = all_results /\ outcome' = outcome
    BY DEF files
  <1>2. TypeInv' /\ FilesInv'
    BY <1>1 DEF HarnessInv, TypeInv, FilesInv, NoFile, Broken
  <1>3. Honest(Page) => Honest(Page)'
    BY <1>1 DEF Honest, Page, NoFile
  <1> QED BY <1>1, <1>2, <1>3 DEF HarnessInv

LEMMA OldPages ==
    ASSUME HarnessInv, UNCHANGED <<options, run, outcome>>, pc' \in {"idle", "publish", "sync"},
           NEW l \in Labels \union {NoLabel}, NEW p \in Pages, PageInv(l, p)
    PROVE  PageInv(l, p)'
  <1>1. TypeInv /\ run \in 0 .. MaxRuns /\ run \in Nat
    BY Numbers DEF HarnessInv, TypeInv
  <1> QED BY <1>1, PageKept

LEMMA NoResultsKeeps ==
    ASSUME HarnessInv, NoResults
    PROVE  HarnessInv'
  <1>1. /\ pc \in {"collect", "report"} /\ pc' = "idle" /\ local' = local /\ docs' = docs
        /\ UNCHANGED <<options, run, todo, files, all_results, outcome>>
    BY DEF NoResults, CollectingDone, pages
  <1>2. ASSUME NEW l \in Labels \union {NoLabel}
        PROVE  PageInv(l, local[l])' /\ PageInv(l, docs[l])'
    <2>1. PageInv(l, local[l]) /\ PageInv(l, docs[l]) /\ local[l] \in Pages /\ docs[l] \in Pages
      BY DEF HarnessInv, TypeInv
    <2>2. PICK p \in Pages : p = local[l]
      BY <2>1
    <2>3. PICK q \in Pages : q = docs[l]
      BY <2>1
    <2>4. PageInv(l, p)' /\ PageInv(l, q)'
      BY <1>1, <2>1, <2>2, <2>3, OldPages
    <2> QED BY <1>1, <2>2, <2>3, <2>4 DEF PageInv, Honest
  <1> QED BY <1>1, <1>2, PagesKeep DEF HarnessInv, TypeInv

\* The page of the run under way is good, once everything is collected.
LEMMA NewPage ==
    ASSUME HarnessInv, pc \in {"collect", "report", "publish"}, pc = "collect" => todo = <<>>,
           UNCHANGED <<options, run, outcome>>, pc' \in {"idle", "publish", "sync"}
    PROVE  /\ label \in Labels \union {NoLabel} /\ Page \in Pages
           /\ options[run].dashboard_only \/ Honest(Page)
           /\ \A p : p = Page => PageInv(label, p)'
  <1>1. TypeInv /\ FilesInv /\ run \in Runs
    BY DEF HarnessInv, TypeInv
  <1>2. options[run] \in Options
    BY <1>1, Numbers DEF TypeInv, Runs
  <1>3. label \in Labels \union {NoLabel} /\ Page \in Pages
    BY <1>1, <1>2, Numbers DEF label, Options, Page, Pages, TypeInv, Runs
  <1>4. options[run].dashboard_only \/ Honest(Page)
    <2>1. CASE pc = "collect"
      <3>1. \A c \in Clients : HonestOf(Page, c)
        BY <2>1 DEF HarnessInv, RunInv
      <3> QED BY <3>1, HonestIsOfEach
    <2>2. CASE pc \in {"report", "publish"}
      BY <2>2 DEF HarnessInv
    <2> QED BY <2>1, <2>2
  <1>5. ASSUME NEW p, p = Page PROVE PageInv(label, p)'
    <2>1. p.of = run /\ p.shows = all_results
      BY <1>5 DEF Page
    <2>2. p.of \in 1 .. run'
      BY <1>1, <2>1, Numbers DEF Runs
    <2>3. options'[p.of].label = label
      BY <2>1 DEF label
    <2>4. \A c \in Clients : p.shows[c] \in 0 .. p.of \union {NoFile}
      BY <1>1, <2>1 DEF FilesInv
    <2>5. options'[p.of].dashboard_only \/ Honest(p)'
      BY <1>4, <1>5, <2>1 DEF Honest, NoFile
    <2>6. label' = label
      BY DEF label
    <2> QED BY <2>2, <2>3, <2>4, <2>5, <2>6 DEF PageInv, NoFile
  <1> QED BY <1>3, <1>4, <1>5

LEMMA WritePagesKeeps ==
    ASSUME HarnessInv, WritePages
    PROVE  HarnessInv'
  <1>1. /\ pc \in {"collect", "report"} /\ (pc = "collect" => todo = <<>>)
        /\ pc' \in {"idle", "publish"} /\ local' = [local EXCEPT ![label] = Page] /\ docs' = docs
        /\ UNCHANGED <<options, run, todo, files, all_results, outcome>>
    BY DEF WritePages, CollectingDone
  <1>2. /\ label \in Labels \union {NoLabel} /\ Page \in Pages
        /\ options[run].dashboard_only \/ Honest(Page)
        /\ \A p : p = Page => PageInv(label, p)'
    BY <1>1, NewPage
  <1>3. local' \in [Labels \union {NoLabel} -> Pages] /\ docs' \in [Labels \union {NoLabel} -> Pages]
    BY <1>1, <1>2 DEF HarnessInv, TypeInv
  <1>4. ASSUME NEW l \in Labels \union {NoLabel}
        PROVE  PageInv(l, local[l])' /\ PageInv(l, docs[l])'
    <2>1. PageInv(l, local[l]) /\ PageInv(l, docs[l]) /\ local[l] \in Pages /\ docs[l] \in Pages
      BY DEF HarnessInv, TypeInv
    <2>2. PICK p \in Pages : p = local[l]
      BY <2>1
    <2>3. PICK q \in Pages : q = docs[l]
      BY <2>1
    <2>4. PageInv(l, p)' /\ PageInv(l, q)'
      BY <1>1, <2>1, <2>2, <2>3, OldPages
    <2>5. PICK w : w = Page
      OBVIOUS
    <2>6. label' = label
      BY <1>1 DEF label
    <2>7. local'[l] = IF l = label THEN w ELSE p
      BY <1>1, <1>2, <2>2, <2>5 DEF HarnessInv, TypeInv
    <2>8. l = label => PageInv(l, w)'
      BY <1>2, <2>5, <2>6
    <2> QED BY <1>1, <2>3, <2>4, <2>7, <2>8 DEF PageInv, Honest
  <1> QED BY <1>1, <1>2, <1>3, <1>4, PagesKeep

LEMMA PublishPagesKeeps ==
    ASSUME HarnessInv, PublishPages
    PROVE  HarnessInv'
  <1>1. /\ pc = "publish" /\ pc' = "sync" /\ docs' = [docs EXCEPT ![label] = Page] /\ local' = local
        /\ UNCHANGED <<options, run, todo, files, all_results, outcome>>
    BY DEF PublishPages
  <1>2. /\ label \in Labels \union {NoLabel} /\ Page \in Pages
        /\ \A p : p = Page => PageInv(label, p)'
    BY <1>1, NewPage
  <1>3. local' \in [Labels \union {NoLabel} -> Pages] /\ docs' \in [Labels \union {NoLabel} -> Pages]
    BY <1>1, <1>2 DEF HarnessInv, TypeInv
  <1>4. ASSUME NEW l \in Labels \union {NoLabel}
        PROVE  PageInv(l, local[l])' /\ PageInv(l, docs[l])'
    <2>1. PageInv(l, local[l]) /\ PageInv(l, docs[l]) /\ local[l] \in Pages /\ docs[l] \in Pages
      BY DEF HarnessInv, TypeInv
    <2>2. PICK p \in Pages : p = local[l]
      BY <2>1
    <2>3. PICK q \in Pages : q = docs[l]
      BY <2>1
    <2>4. PageInv(l, p)' /\ PageInv(l, q)'
      BY <1>1, <2>1, <2>2, <2>3, OldPages
    <2>5. PICK w : w = Page
      OBVIOUS
    <2>6. label' = label
      BY <1>1 DEF label
    <2>7. docs'[l] = IF l = label THEN w ELSE q
      BY <1>1, <1>2, <2>3, <2>5 DEF HarnessInv, TypeInv
    <2>8. l = label => PageInv(l, w)'
      BY <1>2, <2>5, <2>6
    <2> QED BY <1>1, <2>2, <2>4, <2>7, <2>8 DEF PageInv, Honest
  <1> QED BY <1>1, <1>3, <1>4, PagesKeep

LEMMA PublishAllKeeps ==
    ASSUME HarnessInv, publish_all_docs
    PROVE  HarnessInv'
  <1>1. /\ pc = "sync" /\ pc' = "idle" /\ local' = local
        /\ docs' = [l \in DOMAIN docs |->
                      IF l # NoLabel /\ local[l] # NoPage THEN local[l] ELSE docs[l]]
        /\ UNCHANGED <<options, run, todo, files, all_results, outcome>>
    BY DEF publish_all_docs
  <1>2. \A l \in Labels \union {NoLabel} :
          /\ docs'[l] \in {local[l], docs[l]} /\ local[l] \in Pages /\ docs[l] \in Pages
    BY <1>1 DEF HarnessInv, TypeInv
  <1>3. local' \in [Labels \union {NoLabel} -> Pages] /\ docs' \in [Labels \union {NoLabel} -> Pages]
    BY <1>1, <1>2 DEF HarnessInv, TypeInv
  <1>4. ASSUME NEW l \in Labels \union {NoLabel}
        PROVE  PageInv(l, local[l])' /\ PageInv(l, docs[l])'
    <2>1. PageInv(l, local[l]) /\ PageInv(l, docs[l])
      BY DEF HarnessInv
    <2>2. PICK p \in Pages : p = local[l]
      BY <1>2
    <2>3. PICK q \in Pages : q = docs[l]
      BY <1>2
    <2>4. PageInv(l, p)' /\ PageInv(l, q)'
      BY <1>1, <2>1, <2>2, <2>3, OldPages
    <2>5. local'[l] = p /\ (docs'[l] = p \/ docs'[l] = q)
      BY <1>1, <1>2, <2>2, <2>3
    <2> QED BY <2>4, <2>5 DEF PageInv, Honest
  <1> QED BY <1>1, <1>3, <1>4, PagesKeep

-----------------------------------------------------------------------------
LEMMA HarnessInvNext == HarnessInv /\ [Next]_vars => HarnessInv'
  <1> SUFFICES ASSUME HarnessInv, [Next]_vars PROVE HarnessInv'
    OBVIOUS
  <1>1. CASE UNCHANGED vars
    <2>1. /\ pc' = pc /\ options' = options /\ run' = run /\ todo' = todo /\ results' = results
          /\ stragglers' = stragglers /\ all_results' = all_results /\ outcome' = outcome
          /\ local' = local /\ docs' = docs
      BY <1>1 DEF vars, files, pages
    <2>2. TypeInv' /\ FilesInv'
      BY <2>1 DEF HarnessInv, TypeInv, FilesInv, NoFile, Broken
    <2>3. c0' = c0 /\ Page' = Page
      BY <2>1 DEF c0, Page
    <2>4. RunInv => RunInv'
      BY <2>1, <2>3 DEF RunInv, Wrote, HonestOf, NoFile, Broken
    <2>5. Honest(Page) => Honest(Page)'
      BY <2>1, <2>3 DEF Honest, NoFile
    <2>6. \A l \in Labels \union {NoLabel} : PageInv(l, local[l])' /\ PageInv(l, docs[l])'
      BY <2>1 DEF HarnessInv, PageInv, Honest, NoPage, Nothing, NoFile
    <2> QED BY <2>1, <2>2, <2>4, <2>5, <2>6 DEF HarnessInv
  <1>2. CASE \E o \in Options : StartRun(o) \/ DashboardOnly(o)
    BY <1>2, StartRunKeeps, DashboardOnlyKeeps
  <1>3. CASE Launch \/ ProgramEnds \/ TimeoutExpired
    BY <1>3, LaunchKeeps, ProgramEndsKeeps, TimeoutExpiredKeeps
  <1>4. CASE NoResults \/ WritePages
    BY <1>4, NoResultsKeeps, WritePagesKeeps
  <1>5. CASE PublishPages \/ publish_all_docs
    BY <1>5, PublishPagesKeeps, PublishAllKeeps
  <1>6. CASE ProgramWrites \/ ProgramCrashes
    BY <1>6, ProgramKeeps
  <1>7. CASE \E s \in stragglers : StragglerEnds(s)
    BY <1>7, StragglerEndsKeeps
  <1> QED BY <1>1, <1>2, <1>3, <1>4, <1>5, <1>6, <1>7 DEF Next, Harness

(* A page shows its own label, and the results of its own run; older ones  *)
(* only where the client's program was silent, or one given up in an older *)
(* run wrote over them: run_client with its timeout, and publish_all_docs. *)
THEOREM PagesStayHonest == Spec => []PagesAreHonest
  <1>1. HarnessInv => PagesAreHonest
    <2> SUFFICES ASSUME HarnessInv, NEW l \in Labels \union {NoLabel}, NEW p \in {local[l], docs[l]},
                        p # NoPage
                 PROVE  options[p.of].label = l /\ (options[p.of].dashboard_only \/ Honest(p))
      BY DEF PagesAreHonest
    <2>1. PageInv(l, p)
      BY DEF HarnessInv
    <2> QED BY <2>1 DEF PageInv
  <1> QED BY <1>1, HarnessInvInit, HarnessInvNext, PTL DEF Spec
===============================================================================
