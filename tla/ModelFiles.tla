----------------------------- MODULE ModelFiles -----------------------------
(***************************************************************************)
(* The files that runs of validate_meta_intelligence share, and what is    *)
(* left of them when several run at once or die: the candle cache          *)
(* (validation/historical.py, one request of it), an evidence file of each *)
(* run, the registry (validation/registry.py) and the model file the paper *)
(* runtime loads (meta/stack.py).                                          *)
(*                                                                         *)
(* The cache and the model are written to a temporary name, the same for   *)
(* every process, and moved to their place.  A file is an inode, numbered  *)
(* by the run that created it; its content is a set of <<part, writer>>,   *)
(* because open() truncates, and two writers of one inode write over each  *)
(* other.  The candles of two runs are the same bytes, two models are not. *)
(***************************************************************************)
EXTENDS Naturals, FiniteSets

CONSTANTS
  Validations,           \* runs, numbered as they are started
  MayDie,                \* those that may be killed
  MaxRunning             \* bound on those that run at once

ASSUME FilesAssumption ==
  /\ Validations \subseteq Nat /\ IsFiniteSet(Validations)
  /\ MayDie \subseteq Validations /\ MaxRunning \in Nat

Moved == {"candles", "model"}       \* the files that are moved to their place

VARIABLES
  at,                    \* [Validations -> where it is]
  writing,               \* [Validations -> inode it has open, {} or {i}]
  inodes,                \* [Moved \X Validations -> SUBSET (part \X writer)]
  temporary, place,      \* [Moved -> inode of the .tmp name, of the final name]
  approved,              \* runs whose gates all passed
  evidenceFiles,         \* runs whose evidence file is complete
  registry,              \* [kind, records]: what model_registry.json holds
  current,               \* [Validations -> records it has read]
  recorded,              \* history: runs that have written their record
  overlapped,            \* history: files two runs were writing at once
  diedRecording          \* history: a run died while the registry was open

filesVars == <<at, writing, inodes, temporary, place, approved, evidenceFiles,
               registry, current, recorded, overlapped, diedRecording>>

RegistryOf(kind, set) == [kind |-> kind, records |-> set]

FilesInit ==
  /\ at = [v \in Validations |-> <<"off">>]
  /\ writing = [v \in Validations |-> {}]
  /\ inodes = [i \in Moved \X Validations |-> {}]
  /\ temporary = [f \in Moved |-> {}] /\ place = [f \in Moved |-> {}]
  /\ approved = {} /\ evidenceFiles = {}
  /\ registry = RegistryOf("none", {})
  /\ current = [v \in Validations |-> {}]
  /\ recorded = {} /\ overlapped = {} /\ diedRecording = FALSE

Enter(v, where) == at' = [at EXCEPT ![v] = where]
OnlyAt == UNCHANGED <<writing, inodes, temporary, place, approved, evidenceFiles,
                      registry, current, recorded, overlapped, diedRecording>>

Running == {v \in Validations : at[v] \notin {<<"off">>, <<"end">>, <<"raised">>}}

StartValidation(v) ==
  /\ at[v] = <<"off">> /\ Cardinality(Running) < MaxRunning
  /\ \A other \in Validations : other < v => at[other] # <<"off">>
  /\ Enter(v, <<"fetch">>) /\ OnlyAt
-----------------------------------------------------------------------------
(***************************************************************************)
(* A file that is written aside and moved.                                 *)
(***************************************************************************)
Content(f) == UNION {inodes[<<f, i>>] : i \in place[f]}
Parts(content) == {p[1] : p \in content}
Intact(f, content) ==
  /\ Parts(content) = {"head", "tail"}
  /\ f = "model" => \E w \in Validations : \A p \in content : p[2] = w

\* Another run has the file open.
Contended(v, f) ==
  \E other \in Validations \ {v} :
    \E state \in {"opened", "half", "written"} : at[other] = <<f, state>>

\* Mutant: the file is opened under its final name.
InPlace(v, f) ==
  /\ place' = [place EXCEPT ![f] = {v}]
  /\ inodes' = [inodes EXCEPT ![<<f, v>>] = {}]
  /\ writing' = [writing EXCEPT ![v] = {v}]
  /\ UNCHANGED temporary

\* open(temporary, "w"): an existing file is truncated, whoever writes to it.
Truncate(v, f) ==
  LET inode == IF temporary[f] = {} THEN {v} ELSE temporary[f] IN
  /\ temporary' = [temporary EXCEPT ![f] = inode]
  /\ inodes' = [i \in DOMAIN inodes |-> IF i \in {f} \X inode THEN {} ELSE inodes[i]]
  /\ writing' = [writing EXCEPT ![v] = inode]
  /\ UNCHANGED place

OpenTemporary(v, f) ==
  /\ at[v] = <<f, "write">>
  /\ Truncate(v, f)
  /\ overlapped' = IF Contended(v, f) THEN overlapped \cup {f} ELSE overlapped
  /\ Enter(v, <<f, "opened">>)
  /\ UNCHANGED <<approved, evidenceFiles, registry, current, recorded,
                 diedRecording>>

\* The bytes go to the inode that was opened, wherever it has been moved to.
WritePart(v, f, part) ==
  /\ at[v] = <<f, IF part = "head" THEN "opened" ELSE "half">>
  /\ inodes' = [i \in DOMAIN inodes |->
                  IF i \in {f} \X writing[v]
                  THEN {p \in inodes[i] : p[1] # part} \cup {<<part, v>>}
                  ELSE inodes[i]]
  /\ Enter(v, <<f, IF part = "head" THEN "half" ELSE "written">>)
  /\ UNCHANGED <<writing, temporary, place, approved, evidenceFiles, registry,
                 current, recorded, overlapped, diedRecording>>

\* Mutant: a model is promoted as soon as it is approved.
PromoteFirst(v, done) ==
  CASE done = "candles" -> <<"judge">>
    [] done = "verdict" -> IF v \in approved' THEN <<"model", "write">> ELSE <<"evidence">>
    [] done = "model" -> <<"evidence">>
    [] done = "evidence" -> <<"read">>
    [] done = "record" -> <<"end">>

\* The order at the end of a validation: evidence, record, promotion.
Following(v, done) ==
  CASE done = "candles" -> <<"judge">>
    [] done = "verdict" -> <<"evidence">>
    [] done = "evidence" -> <<"read">>
    [] done = "record" -> IF v \in approved THEN <<"model", "write">> ELSE <<"end">>
    [] done = "model" -> <<"end">>

\* temporary.replace(path): whatever inode has the name; FileNotFoundError if
\* another run has moved it, which ends the validation.
Replace(v, f) ==
  /\ at[v] = <<f, "written">>
  /\ place' = [place EXCEPT ![f] = IF temporary[f] = {} THEN @ ELSE temporary[f]]
  /\ temporary' = [temporary EXCEPT ![f] = {}]
  /\ writing' = [writing EXCEPT ![v] = {}]
  /\ Enter(v, IF temporary[f] = {} THEN <<"raised">> ELSE Following(v, f))
  /\ UNCHANGED <<inodes, approved, evidenceFiles, registry, current, recorded,
                 overlapped, diedRecording>>
-----------------------------------------------------------------------------
(***************************************************************************)
(* HistoricalCandleClient.fetch.                                           *)
(***************************************************************************)
UseCache(v) ==
  /\ at[v] = <<"fetch">> /\ place["candles"] # {}
  /\ Intact("candles", Content("candles"))
  /\ Enter(v, <<"judge">>) /\ OnlyAt

\* An empty file is no JSON and one without its first bytes no gzip: both are
\* caught, the file is deleted and requested again.
DropCache(v) ==
  /\ at[v] = <<"fetch">> /\ place["candles"] # {}
  /\ "head" \notin Parts(Content("candles"))
  /\ place' = [place EXCEPT !["candles"] = {}]
  /\ Enter(v, <<"request">>)
  /\ UNCHANGED <<writing, inodes, temporary, approved, evidenceFiles, registry,
                 current, recorded, overlapped, diedRecording>>

\* A file that ends too early raises EOFError, which nothing catches.
CacheRaises(v) ==
  /\ at[v] = <<"fetch">> /\ Parts(Content("candles")) = {"head"}
  /\ Enter(v, <<"raised">>) /\ OnlyAt

NoCache(v) ==
  /\ at[v] = <<"fetch">> /\ place["candles"] = {}
  /\ Enter(v, <<"request">>) /\ OnlyAt

\* The vendor answers for every month, with consistent candles, or does not.
Fetch(v) ==
  /\ at[v] = <<"request">>
  /\ \E where \in {<<"candles", "write">>, <<"raised">>} : Enter(v, where)
  /\ OnlyAt
-----------------------------------------------------------------------------
(***************************************************************************)
(* The end of validate_meta_intelligence.                                  *)
(***************************************************************************)
Judge(v, passes) ==
  /\ at[v] = <<"judge">>
  /\ approved' = IF passes THEN approved \cup {v} ELSE approved
  /\ Enter(v, Following(v, "verdict"))
  /\ UNCHANGED <<writing, inodes, temporary, place, evidenceFiles, registry,
                 current, recorded, overlapped, diedRecording>>

\* Written in place, under the run's own name.
WriteEvidence(v) ==
  /\ at[v] = <<"evidence">>
  /\ evidenceFiles' = evidenceFiles \cup {v}
  /\ Enter(v, Following(v, "evidence"))
  /\ UNCHANGED <<writing, inodes, temporary, place, approved, registry, current,
                 recorded, overlapped, diedRecording>>

\* ModelRegistry.record: the whole file is read ...
ReadRegistry(v) ==
  /\ at[v] = <<"read">>
  /\ IF registry.kind \in {"none", "whole"}
     THEN /\ current' = [current EXCEPT ![v] = registry.records]
          /\ Enter(v, <<"extend">>)
     ELSE Enter(v, <<"raised">>) /\ UNCHANGED current
  /\ overlapped' = IF \E other \in Validations \ {v} : at[other] \in {<<"extend">>, <<"recording">>}
                   THEN overlapped \cup {"registry"} ELSE overlapped
  /\ UNCHANGED <<writing, inodes, temporary, place, approved, evidenceFiles,
                 registry, recorded, diedRecording>>

\* ... and written anew in place: truncated first,
OpenRegistry(v) ==
  /\ at[v] = <<"extend">>
  /\ registry' = RegistryOf("empty", {})
  /\ Enter(v, <<"recording">>)
  /\ UNCHANGED <<writing, inodes, temporary, place, approved, evidenceFiles,
                 current, recorded, overlapped, diedRecording>>

\* then filled.  If another run has filled it in between, the longer of the two
\* texts may stick out behind the shorter one.
WriteRegistry(v) ==
  /\ at[v] = <<"recording">>
  /\ \E kind \in IF registry.kind = "empty" THEN {"whole"} ELSE {"whole", "garbled"} :
       registry' = RegistryOf(kind, current[v] \cup {v})
  /\ recorded' = recorded \cup {v}
  /\ Enter(v, Following(v, "record"))
  /\ UNCHANGED <<writing, inodes, temporary, place, approved, evidenceFiles,
                 current, overlapped, diedRecording>>
-----------------------------------------------------------------------------
Die(v) ==
  /\ v \in MayDie \cap Running
  /\ diedRecording' = (diedRecording \/ at[v] = <<"recording">>)
  /\ writing' = [writing EXCEPT ![v] = {}]
  /\ Enter(v, <<"raised">>)
  /\ UNCHANGED <<inodes, temporary, place, approved, evidenceFiles, registry,
                 current, recorded, overlapped>>

FilesNext ==
  \/ \E v \in Validations, f \in Moved :
       OpenTemporary(v, f) \/ Replace(v, f)
       \/ \E part \in {"head", "tail"} : WritePart(v, f, part)
  \/ \E v \in Validations :
       \/ StartValidation(v)
       \/ UseCache(v) \/ DropCache(v) \/ CacheRaises(v) \/ NoCache(v) \/ Fetch(v)
       \/ \E passes \in BOOLEAN : Judge(v, passes)
       \/ WriteEvidence(v) \/ ReadRegistry(v) \/ OpenRegistry(v) \/ WriteRegistry(v)
       \/ Die(v)

FilesSpec == FilesInit /\ [][FilesNext]_filesVars
-----------------------------------------------------------------------------
(***************************************************************************)
(* Properties                                                              *)
(***************************************************************************)

\* load_meta_spec: a file that does not parse is no model.
LoadedModel ==
  IF Intact("model", Content("model")) THEN {p[2] : p \in Content("model")} ELSE {}

\* Whatever overlaps or dies, a model the runtime can load is one validation's,
\* approved, with its evidence on disk and after its record was written.
RuntimeModelIsEvidenced ==
  LoadedModel \subseteq approved \cap evidenceFiles \cap recorded

\* A run on its own leaves the files it shares in order, wherever it dies: the
\* cache can only be damaged by two runs that write it at once, and a record
\* can only be lost by two that extend the registry at once or by a death
\* within the write.
DamageNeedsOverlap ==
  /\ (place["candles"] # {} /\ ~Intact("candles", Content("candles")))
       => "candles" \in overlapped
  /\ (/\ \A v \in Validations : at[v] # <<"recording">>
      /\ ~(registry.kind \in {"none", "whole"} /\ recorded \subseteq registry.records))
       => ("registry" \in overlapped \/ diedRecording)
=============================================================================
