------------------------------- MODULE Patcher -------------------------------
(***************************************************************************)
(* max_patch.py: seven files of an installed MAX are rewritten, one after the *)
(* other, each from a backup of its own that is taken the first time.  A run   *)
(* may raise or be killed between any two steps, and be repeated with other    *)
(* flags; MAX may be upgraded in between.                                      *)
(*                                                                         *)
(* A file is the release it is from, its lines, and whether all of them are   *)
(* there.                                                                    *)
(***************************************************************************)
EXTENDS MaxPatches

CONSTANTS
    MaxTexts,     \* the lines of MAX's files, by release and file
    TornCopies,   \* a run may end inside copyfile
    MaxUpgrades,  \* bound on the upgrades of MAX
    MaxRuns       \* bound on the runs of the script

ASSUME PatcherConstants ==
    TornCopies \in BOOLEAN /\ MaxUpgrades \in Nat /\ MaxRuns \in Nat

\* A plausible mistake that no definition uses: the worker's loop is patched before the
\* functions it imports are there.
FaultyFILES == <<"model_worker", "utils", "process_controller", "telemetry_worker",
                 "inputs", "block_manager", "cache_manager">>

\* In the order of main.
FILES == <<"utils", "process_controller", "model_worker", "telemetry_worker", "inputs",
           "block_manager", "cache_manager">>
Files == {FILES[i] : i \in DOMAIN FILES}

\* PATCH_FAST_VALUES and PATCH_KV_SNAPSHOT.
Flags == SUBSET {"fast", "snapshot"}
Releases == 0 .. MaxUpgrades

\* MAX's own files are texts, and its worker does not import what the script adds to utils.
ASSUME MaxIsUnpatched ==
    /\ MaxTexts \in [Releases -> [Files -> Seq(Lines)]]
    /\ \A r \in Releases : ~HasLine(MaxTexts[r]["model_worker"], "import _rec_idle_flush")

Installed(r, f) == [release |-> r, lines |-> MaxTexts[r][f], whole |-> TRUE]

\* A file that is opened to be written is empty; what a run that ended inside copyfile
\* has copied.
Emptied(file) == [file EXCEPT !.lines = <<>>, !.whole = FALSE]
TornLengths(file) == {0, Len(file.lines) \div 2}
Torn(file, n) == [file EXCEPT !.lines = SubSeq(@, 1, n), !.whole = FALSE]

VARIABLES
    release,   \* the release of MAX that is installed
    pkg,       \* the files of the package
    orig,      \* their backups: of a file, one or none
    at,        \* the number of the file in work; 0 when no run is under way
    stage,     \* what is done to it next
    made,      \* what the run has made of it: one file, or none
    flags,     \* those of the run under way, or of the last one
    finished,  \* the last run came to its end, and nothing has happened since
    runs       \* how many were started

patcherVars == <<release, pkg, orig, at, stage, made, flags, finished, runs>>

Running == at # 0
File == FILES[at]

PatcherInit ==
    /\ release = 0
    /\ pkg = [f \in Files |-> Installed(0, f)]
    /\ orig = [f \in Files |-> {}]
    /\ at = 0 /\ stage = "backup" /\ made = {}
    /\ flags = {} /\ finished = FALSE /\ runs = 0

-----------------------------------------------------------------------------
\* A plausible mistake that no definition uses: fast_values_patch, which has a _pristine
\* of its own, reads the file as it is.
FaultySource(f) ==
    IF f \in {"inputs", "block_manager", "cache_manager"} THEN pkg[f]
    ELSE CHOOSE file \in orig[f] : TRUE

-----------------------------------------------------------------------------
\* python3 max_patch.py.
StartRun(fl) ==
    /\ ~Running /\ runs < MaxRuns
    /\ runs' = runs + 1
    /\ at' = 1 /\ stage' = "backup" /\ flags' = fl /\ finished' = FALSE
    /\ UNCHANGED <<release, pkg, orig, made>>

\* pristine(): the backup is copied if there is none.
Backup ==
    /\ Running /\ stage = "backup"
    /\ orig' = IF orig[File] = {} THEN [orig EXCEPT ![File] = {pkg[File]}] ELSE orig
    /\ stage' = "edit"
    /\ UNCHANGED <<release, pkg, at, made, flags, finished, runs>>

\* What a run starts from.
Source(f) == CHOOSE file \in orig[f] : TRUE

\* The edits are made, the text compiles, and the file is opened, which empties it.
Written(f) == Patched(f, Source(f).lines, flags)
Truncate ==
    /\ Running /\ stage = "edit" /\ Written(File) # NotFound
    /\ made' = {[release |-> Source(File).release, lines |-> Written(File),
                 whole |-> Source(File).whole]}
    /\ pkg' = [pkg EXCEPT ![File] = Emptied(@)]
    /\ stage' = "write"
    /\ UNCHANGED <<release, orig, at, flags, finished, runs>>
WriteFile ==
    /\ Running /\ stage = "write"
    /\ \E file \in made : pkg' = [pkg EXCEPT ![File] = file]
    /\ IF at < Len(FILES) THEN at' = at + 1 /\ finished' = FALSE
                          ELSE at' = 0 /\ finished' = TRUE
    /\ stage' = "backup" /\ made' = {}
    /\ UNCHANGED <<release, orig, flags, runs>>

\* The run ends early: inside copyfile, because an edit raises, or killed.
Ends == at' = 0 /\ stage' = "backup" /\ made' = {} /\ flags' = {} /\ finished' = FALSE
TornCopy ==
    /\ TornCopies /\ Running /\ stage = "backup" /\ orig[File] = {}
    /\ \E n \in TornLengths(pkg[File]) : orig' = [orig EXCEPT ![File] = {Torn(pkg[File], n)}]
    /\ Ends
    /\ UNCHANGED <<release, pkg, runs>>
Refuse ==
    /\ Running /\ stage = "edit" /\ Written(File) = NotFound
    /\ Ends
    /\ UNCHANGED <<release, pkg, orig, runs>>
Killed == Running /\ Ends /\ UNCHANGED <<release, pkg, orig, runs>>

\* Every file of the package is replaced; the backups lie elsewhere.
Upgrade ==
    /\ ~Running /\ release < MaxUpgrades
    /\ release' = release + 1
    /\ pkg' = [f \in Files |-> Installed(release + 1, f)]
    /\ flags' = {} /\ finished' = FALSE
    /\ UNCHANGED <<orig, at, stage, made, runs>>

PatcherNext ==
    \/ \E fl \in Flags : StartRun(fl)
    \/ Backup \/ Truncate \/ WriteFile
    \/ TornCopy \/ Refuse \/ Killed
    \/ Upgrade

PatcherSpec == PatcherInit /\ [][PatcherNext]_patcherVars

-----------------------------------------------------------------------------
Contents == [release : Releases, lines : Seq(Lines), whole : BOOLEAN]
PatcherTypeOK ==
    /\ release \in Releases
    /\ pkg \in [Files -> Contents]
    /\ orig \in [Files -> SUBSET Contents] /\ \A f \in Files : \A a, b \in orig[f] : a = b
    /\ at \in 0 .. Len(FILES) /\ stage \in {"backup", "edit", "write"}
    /\ flags \in Flags /\ finished \in BOOLEAN /\ runs \in 0 .. MaxRuns
    /\ made \subseteq Contents
    /\ made = {} <=> stage # "write"
    /\ ~Running => stage = "backup"

\* The backups are what they are meant to be, the release's own files (README.md,
\* "pristine copies of MAX source").
Pristine == \A f \in Files : orig[f] \subseteq {Installed(release, f)}

\* "Always starts from the pristine backups" (max_patch.py): a run that finishes leaves
\* every file as one run over a fresh MAX would, with nothing of earlier runs with other
\* flags, of runs that were killed, or of a file that was cut.
PatchedAsAsked ==
    finished /\ Pristine =>
        \A f \in Files : pkg[f].lines = Patched(f, MaxTexts[release][f], flags) /\ pkg[f].whole

\* What is left of MAX's own lines in a text: those with one of the words.
WordsOf(text) == {text[i].is : i \in DOMAIN text}
Own(text, words) ==
    FlattenSeq([i \in DOMAIN text |->
        IF text[i].is \in words THEN <<text[i].is>> ELSE <<>>])
\* Those of its lines that the edits of a file replace.
Replaced(f) ==
    CASE f = "utils" -> {"def create", "return cls", "if kv_cache is not None"}
      [] f = "process_controller" -> {"for m in ms", "commit_fn"}    \* now in both branches
      [] f = "block_manager" -> {"docstring of metrics"}
      [] f = "inputs" -> {"def __post_init__", "count tokens", "return real contexts"}
      [] OTHER -> {}

\* Where the edits of a file are meant to stand.
Has(file, is) == HasLine(file.lines, is)
Directly(text, before, is) ==
    \E i \in 2 .. Len(text) : text[i - 1].is = before /\ text[i].is = is
UtilsStand(text, fl) ==
    /\ Directly(text, "return", "metrics = create")
    /\ \A i \in DOMAIN text : text[i].is = "with METRICS.transaction" =>
          text[i - 1].is = "_t1" /\ text[End(text, i) + 1].is = "_t2"
    /\ \A i \in DOMAIN text : text[i].is = "def log_metrics" =>
          text[End(text, i)].is = "_stage_record"
    /\ "fast" \in fl =>
          \A count \in {"block_counts", "host_byte_counts", "disk_byte_counts"} :
             Directly(text, "else", count)
    /\ "snapshot" \in fl => Directly(text, "snapshot values", "elif kv_cache is not None")
Stand(f, text, fl) ==
    CASE f = "utils" -> UtilsStand(text, fl)
      [] f = "process_controller" ->
            /\ Directly(text, "else", "for m in ms")
            /\ Directly(text, "tail_measurements", "return process_telemetry")
            /\ HasLine(text, "import os")
      [] f = "model_worker" -> Directly(text, "if NO_PROGRESS", "_rec_idle_flush")
      [] f = "telemetry_worker" -> Directly(text, "else", "yield") /\ HasLine(text, "import os")
      [] f = "inputs" -> "fast" \in fl => HasLine(text, "one pass")
      [] f = "block_manager" ->
            "fast" \in fl => Directly(text, "return _metrics", "return sum of metrics")
      [] f = "cache_manager" ->
            "snapshot" \in fl => Directly(text, "return out", "def get_metrics_aggregated")

\* "Better a clear failure than a silent no-op" (astpatch.py): after a run that finishes,
\* MAX's own lines are all there, in their order, but for those an edit replaces, and
\* every edit stands where it was meant to.
Landed(f, max, text, fl) ==
    LET own == WordsOf(max) \ Replaced(f)
    IN  Own(text, own) = Own(max, own) /\ Stand(f, text, fl)
EditsLand ==
    finished /\ Pristine =>
        \A f \in Files : Landed(f, MaxTexts[release][f], pkg[f].lines, flags)

\* What the edits of a file rely on without looking for it: what they add is not there
\* yet, what they drop or wrap twice is what they were written for, and what their
\* literals are indented for is so indented; and what the scripts assert of create, that its
\* last statement is the one `return cls`.
AddedBy(e) == WordsOf(e.new) \cup IF e.how = "around" THEN WordsOf(e.after) ELSE {}
Where(text, is) == Hits(text, DOMAIN text, is)
Under(text, i) == {text[j].is : j \in i + 1 .. End(text, i)}
AsExpected(f, text) ==
    /\ \A fl \in Flags : \A i \in DOMAIN Edits(f, text, fl) :
          AddedBy(Edits(f, text, fl)[i]) \cap WordsOf(text) \subseteq Replaced(f)
    /\ f = "utils" =>
          /\ LET create == Scope(text, <<"class BatchMetrics", "def create">>) IN
             \A i \in Hits(text, create, "return cls") :
                End(text, i) = Max(create) /\ text[i].indent = text[Min(create)].indent
          /\ \A is \in {"def log_metrics", "with METRICS.transaction"} :
                \A i, j \in Where(text, is) : i = j
          /\ \A i \in Where(text, "def log_metrics") : text[i].indent = 1
          /\ \A i \in Where(text, "with METRICS.transaction") :
                text[i].indent = 2 /\ "if kv_cache is not None" \notin Under(text, i)
    /\ f = "process_controller" =>
          /\ Imports(text, "import os") \/ Imports(text, "import threading")
          /\ \A i \in Where(text, "import threading") : i > 1 /\ text[i].indent = 0
          /\ \A i \in Where(text, "for m in ms") : Under(text, i) \subseteq Replaced(f)
    /\ f = "inputs" =>
          \A is \in {"def __post_init__", "def batch_size"} :
             \A i \in Where(text, is) : Under(text, i) \subseteq Replaced(f)
    /\ f = "block_manager" =>
          \A i \in Where(text, "def metrics") :
             LET last == End(text, i)
             IN  /\ text[last].is = "return sum of metrics"
                 /\ text[last].indent = text[i + 1].indent
                 /\ \A j \in i + 1 .. last - 1 : text[j].is \in Replaced(f)

\* The worker's loop imports _rec_idle_flush and _rec_shutdown from utils (model_worker
\* in max_patch.py): wherever a run was killed, a package whose files are whole has them.
WorkerImports ==
    (\A f \in Files : pkg[f].whole) /\ Has(pkg["model_worker"], "import _rec_idle_flush") =>
        Has(pkg["utils"], "def _rec_idle_flush") /\ Has(pkg["utils"], "def _rec_shutdown")

\* The text MAX was installed with is never lost: until its backup is there, and is it,
\* a file is left alone.
OriginalKept ==
    \A f \in Files : Installed(release, f) \in {pkg[f]} \cup orig[f]
=============================================================================
