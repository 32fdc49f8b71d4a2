------------------------ MODULE BindingInspection ------------------------
(* The runtime binding inspector: src/local_moe/runtime_binding_inspector.py,  *)
(* artifact_tree.py, secure_files.py and runtime_binding_contracts.py.        *)
(*                                                                            *)
(* inspect_cell_binding reads a configuration, hashes the runtime's files one *)
(* by one and walks the model's directory, all while other programs may write *)
(* those files, add or link new ones, or put another directory in a root's     *)
(* place.  Nothing is locked: the inspector relies on stat before and after.  *)
(*                                                                            *)
(* A path names an inode; an inode has the two halves of its data and a stamp *)
(* that stands for size, mtime, ctime and link count: every change moves it.  *)
EXTENDS Integers, Sequences, FiniteSets, FiniteSetsExt, SequencesExt

CONSTANTS
    Inode,        \* path -> inode, for every path there may be
    Extra,        \* paths that are not there at first
    MaxFiles,     \* hash_limits.max_files
    MaxChanges    \* bound on what other programs do

VARIABLES
    disk,      \* inodes' data and stamps, directory stamps, names, root identity
    insp,      \* the inspection: where it is, what it has still to do, what it saw
    moments,   \* what the disk held at each moment since the current tree was begun
    launch     \* the launch that was resolved

bindingVars == <<disk, insp, moments, launch>>

Config == "config"
Components == <<"exe", "harness">>
ModelRoot == "model"
Paths == DOMAIN Inode
Dirs == {"model", "sub"}

\* The names a directory may have; those os.scandir finds come in an order that
\* depends on them alone, for they are sorted.
Listing(d) == IF d = "model" THEN {"a", "sub", "x"} ELSE {"b", "y"}
Names(d) == SetToSeq(Listing(d) \cap disk.names)
ParentOf(p) == CHOOSE d \in Dirs : p \in Listing(d)
InModel(p) == \E d \in Dirs : p \in Listing(d)

Data(p) == disk.inode[Inode[p]].data
Stamp(p) == IF p \in Dirs THEN disk.dir[p] ELSE disk.inode[Inode[p]].stamp

Whole(v) == <<v, v>>
NoFile == [path |-> "none", seen |-> 0, halves |-> <<>>]

BindingInit ==
    /\ disk = [inode |-> [i \in {Inode[p] : p \in Paths} |-> [data |-> Whole(0), stamp |-> 0]],
               dir |-> [d \in Dirs |-> 0], names |-> (Paths \cup {"sub"}) \ Extra,
               root |-> 0, changes |-> 0]
    /\ insp = [pc |-> "request", resolving |-> FALSE, work |-> <<>>, file |-> NoFile,
               plan |-> <<>>, now |-> <<>>, root |-> 0, entries |-> {}, hashed |-> {}, walked |-> {},
               visited |-> 0, trees |-> {}, status |-> "none"]
    /\ moments = {}
    /\ launch = <<>>

\* The contents of every path there is: what an identity is an identity of.
Contents == [p \in {q \in Paths : q \in disk.names} |-> Data(p)]

Go(rec) == insp' = rec /\ UNCHANGED <<disk, moments, launch>>
Refuse == Go([insp EXCEPT !.pc = "refused", !.work = <<>>, !.file = NoFile])
Next1 == Tail(insp.work)
Doing(op) == insp.pc = "hash" /\ insp.work # <<>> /\ insp.work[1].op = op
Done(rec) == Go([rec EXCEPT !.work = Next1])

-----------------------------------------------------------------------------
(* Reading one regular file: secure_files *)

\* _stable_fields: the name leads to what it led to when it was looked at.
Stable(p, seen) == p \in disk.names /\ Stamp(p) = seen

\* _stat_child: the entry is looked at before it is opened; links and special
\* files are refused.
Observe ==
    /\ Doing("file")
    /\ LET p == insp.work[1].path IN
         IF p \in disk.names
           THEN Go([insp EXCEPT !.file = [path |-> p, seen |-> Stamp(p), halves |-> <<>>],
                      !.work = <<[op |-> "open", path |-> p]>> \o Next1])
           ELSE Refuse

\* _hardlink_key: a name of an inode already hashed is not read again.
Cached(p) == {h \in insp.hashed : h.inode = Inode[p]}

\* _open_child_regular_file and the inode cache.
OpenFile ==
    /\ Doing("open")
    /\ LET p == insp.file.path IN
         IF ~Stable(p, insp.file.seen) THEN Refuse
         ELSE IF Cached(p) = {}
           THEN Go([insp EXCEPT !.work = <<[op |-> "read", path |-> p], [op |-> "fstat", path |-> p],
                                           [op |-> "restat", path |-> p]>> \o Next1])
           ELSE LET h == CHOOSE h \in Cached(p) : TRUE IN
                IF h.seen = insp.file.seen
                  THEN Go([insp EXCEPT !.file.halves = h.data,
                             !.work = <<[op |-> "restat", path |-> p]>> \o Next1])
                  ELSE Refuse

\* The bytes are read in chunks; a write may fall between two of them.
ReadChunk ==
    /\ Doing("read")
    /\ LET f == insp.file
           halves == Append(f.halves, disk.inode[Inode[f.path]].data[Len(f.halves) + 1])
       IN  IF Len(halves) = 2 THEN Done([insp EXCEPT !.file.halves = halves])
           ELSE Go([insp EXCEPT !.file.halves = halves])

\* _hash_stable_descriptor: the descriptor's fields after the last chunk.
AfterHash ==
    /\ Doing("fstat")
    /\ IF disk.inode[Inode[insp.file.path]].stamp = insp.file.seen
         THEN Done([insp EXCEPT !.hashed = @ \cup {[inode |-> Inode[insp.file.path],
                                  data |-> insp.file.halves, seen |-> insp.file.seen]}])
         ELSE Refuse

\* The name still leads to the file that was hashed: it is an entry of the tree.
AfterFile ==
    /\ Doing("restat")
    /\ IF Stable(insp.file.path, insp.file.seen)
         THEN Done([insp EXCEPT !.file = NoFile,
                      !.entries = @ \cup {[path |-> insp.file.path, data |-> insp.file.halves,
                                           seen |-> insp.file.seen]}])
         ELSE Refuse

-----------------------------------------------------------------------------
(* Walking the model's directory: artifact_tree *)

\* _remaining_artifact_limits: what the trees before have left.
RemainingFiles == MaxFiles - Cardinality(UNION {t.entries : t \in insp.trees})

\* A directory is opened, its fields taken and its names counted and sorted.
EnterDirectory ==
    /\ Doing("enter")
    /\ LET d == insp.work[1].path
           ops == [i \in DOMAIN Names(d) |->
                     [op |-> IF Names(d)[i] \in Dirs THEN "enter" ELSE "file", path |-> Names(d)[i]]]
       IN  IF insp.visited + Len(ops) > RemainingFiles THEN Refuse
           ELSE Go([insp EXCEPT !.visited = @ + Len(ops),
                      !.walked = @ \cup {[path |-> d, seen |-> Stamp(d)]},
                      !.work = ops \o <<[op |-> "leave", path |-> d]>> \o Next1])

\* Its fields are compared after the last of its names.
LeaveDirectory ==
    /\ Doing("leave")
    /\ LET d == insp.work[1].path IN
         IF \E w \in insp.walked : w.path = d /\ w.seen = Stamp(d) THEN Done(insp) ELSE Refuse

\* Mutant of RecheckFile: the files are taken as they were when each was hashed.
RecheckNothing == Doing("recheck") /\ Done(insp)

\* _hash_directory_descriptor: when the walk is over every file is looked at again.
RecheckFile ==
    /\ Doing("recheck")
    /\ LET e == CHOOSE e \in insp.entries : e.path = insp.work[1].path IN
         IF Stable(e.path, e.seen) THEN Done(insp) ELSE Refuse

BeginRecheck ==
    /\ Doing("walked")
    /\ LET files == SetToSeq({e.path : e \in insp.entries}) IN
         Go([insp EXCEPT !.work = [i \in DOMAIN files |-> [op |-> "recheck", path |-> files[i]]] \o Next1])

\* hash_artifact_tree returns one identity.
EndTree ==
    /\ Doing("tree")
    /\ LET name == insp.work[1].path IN
         IF insp.entries = {} THEN Refuse
         ELSE Done([insp EXCEPT !.entries = {}, !.hashed = {}, !.walked = {},
                      !.trees = @ \cup {[name |-> name, entries |-> insp.entries, at |-> moments]}])

\* The next tree: nothing of the one before is looked at again.
BeginTree ==
    /\ Doing("begin")
    /\ insp' = [insp EXCEPT !.work = Tail(@), !.visited = 0]
    /\ moments' = {Contents}
    /\ UNCHANGED <<disk, launch>>

-----------------------------------------------------------------------------
(* The inspection *)

\* A document or declaration that does not fit is refused with its code.
Check(at, next) == insp.pc = at /\ (Go([insp EXCEPT !.pc = next]) \/ Refuse)

\* The request file is read as one object with exactly its fields.
LoadRequest == Check("request", "fields")

\* Its paths, roles, time to live and limits; the second time, for a launch, the
\* roots are not captured again.
ValidateRequest == Check("fields", IF insp.resolving THEN "config" ELSE "roots")

\* capture_protected_root_identity: both roots must be real directories.
CaptureRoots ==
    /\ insp.pc = "roots"
    /\ Go([insp EXCEPT !.pc = "output", !.root = disk.root]) \/ Refuse

\* The output must not lie among the inputs or below the roots.
ValidatePublicationPath == Check("output", "config")

\* read_bounded_regular_file: chunks of a file whose fields must not move.
LoadConfig ==
    /\ insp.pc = "config"
    /\ \/ Go([insp EXCEPT !.pc = "reading",
                !.file = [path |-> Config, seen |-> Stamp(Config), halves |-> <<>>]])
       \/ Refuse

ReadConfig ==
    /\ insp.pc = "reading" /\ Len(insp.file.halves) < 2
    /\ LET halves == insp.file.halves IN
         Go([insp EXCEPT !.file.halves = Append(halves, Data(Config)[Len(halves) + 1])])

\* It parses to one plan; the first plan is kept for the manifest.
ConfigRead ==
    /\ insp.pc = "reading" /\ Len(insp.file.halves) = 2
    /\ IF Stable(Config, insp.file.seen)
         THEN Go([insp EXCEPT !.pc = "catalog", !.file = NoFile, !.now = insp.file.halves,
                    !.plan = IF insp.resolving THEN @ ELSE insp.file.halves])
         ELSE Refuse

\* The catalog declares the cell once, the configuration the expert once.
SelectCell == Check("catalog", "scope")

\* Device-only, direct, offline, compute-only, no tools, the declared executable.
ValidateScope == Check("scope", "endpoint")

\* An explicit loopback authority without credentials.
ValidateEndpoint == Check("endpoint", "modelpath")

\* The model lies below its root and has the back end's shape.
ValidateModelPath == Check("modelpath", "command")

\* _hash_single_posix_file: a file is a tree of its own.
FileTree(p) == <<[op |-> "begin", path |-> p], [op |-> "file", path |-> p], [op |-> "tree", path |-> p]>>

\* hash_artifact_tree of a directory: the walk, then the second look.
DirectoryTree(d) == <<[op |-> "begin", path |-> d], [op |-> "enter", path |-> d],
                      [op |-> "walked", path |-> d], [op |-> "tree", path |-> d]>>

\* The runtime's files first, each with what is left of the limits, then the model.
Work == FileTree(Components[1]) \o FileTree(Components[2]) \o DirectoryTree(ModelRoot)

\* The runtime plan names the expert once, with the inspected executable, model
\* and endpoint, and fetches nothing.
SelectCommand ==
    /\ insp.pc = "command"
    /\ \/ ~insp.resolving /\ Go([insp EXCEPT !.pc = "hash", !.work = Work])
       \/ insp.resolving /\ Go([insp EXCEPT !.pc = "compare"])
       \/ Refuse

\* The evidence of a tree: each file's name and digest.
Evidence(t) == {[path |-> e.path, data |-> e.data] : e \in t.entries}

\* _identity_reasons: the catalog declares the contents of the files there were.
Declared(t) == LET names == IF t.name = ModelRoot
                              THEN {p \in Paths : InModel(p)} \ Extra ELSE {t.name}
               IN  Evidence(t) = {[path |-> p, data |-> Whole(0)] : p \in names}

\* A manifest has the evidence of each role once, and of the model.
ManifestComplete ==
    /\ {t.name : t \in insp.trees} = ToSet(Components) \cup {ModelRoot}
    /\ \A t \in insp.trees : t.name # ModelRoot => Cardinality(Evidence(t)) = 1

\* A receipt is verified exactly when there is no reason against it.
ReceiptStatus == IF \A t \in insp.trees : Declared(t) THEN "verified" ELSE "abstained"

\* The bundle is made when the roots are still the directories they were.
Conclude ==
    /\ insp.pc = "hash" /\ insp.work = <<>> /\ ManifestComplete
    /\ IF disk.root = insp.root
         THEN Go([insp EXCEPT !.pc = "bundle", !.status = ReceiptStatus])
         ELSE Refuse

\* resolve_verified_cell_runtime_launch: a verified bundle, then request and
\* configuration are read and validated a second time.
ResolveLaunch ==
    /\ insp.pc = "bundle"
    /\ IF insp.status = "verified"
         THEN Go([insp EXCEPT !.pc = "request", !.resolving = TRUE])
         ELSE Refuse

\* The command line publishes the bundle if the request is read again the same
\* and the output's place is still outside the roots.
PublishBundle ==
    /\ insp.pc = "bundle"
    /\ Go([insp EXCEPT !.pc = "published"]) \/ Refuse

\* Mutant of SamePlan: the second reading is taken as it is.
AnyPlan(inspected, now) == TRUE

\* The launch plan's digest covers the whole command, the endpoint's its authority.
SamePlan(inspected, now) == inspected = now

\* The command now selected must be the one that was inspected.
ResolvedLaunch ==
    /\ insp.pc = "compare"
    /\ IF SamePlan(insp.plan, insp.now)
         THEN /\ launch' = insp.now
              /\ insp' = [insp EXCEPT !.pc = "resolved"]
              /\ UNCHANGED <<disk, moments>>
         ELSE Refuse

-----------------------------------------------------------------------------
(* Other programs *)

Changed(d) ==
    /\ insp.pc \notin {"refused", "published", "resolved"} /\ disk.changes < MaxChanges
    /\ disk' = [d EXCEPT !.changes = @ + 1]
    /\ moments' = moments \cup {[p \in {q \in Paths : q \in d.names} |-> d.inode[Inode[p]].data]}
    /\ UNCHANGED <<insp, launch>>

\* A file is written in place.
WriteFile ==
    \E p \in Paths \cap disk.names : \E v \in {0, 1} :
       /\ Data(p) # Whole(v)
       /\ Changed([disk EXCEPT !.inode[Inode[p]] = [data |-> Whole(v), stamp |-> @.stamp + 1]])

\* A name is added: of a new file, or a link to one that is there.
AddName ==
    \E p \in Extra \ disk.names :
       Changed([disk EXCEPT !.names = @ \cup {p}, !.dir[ParentOf(p)] = @ + 1,
                            !.inode[Inode[p]].stamp = @ + 1])

RemoveName ==
    \E p \in {q \in Paths \cap disk.names : InModel(q)} :
       Changed([disk EXCEPT !.names = @ \ {p}, !.dir[ParentOf(p)] = @ + 1,
                            !.inode[Inode[p]].stamp = @ + 1])

\* Another directory takes the root's place; a walk goes on in the one it holds.
ReplaceRoot == Changed([disk EXCEPT !.root = @ + 1])

\* Nothing is left to do.
InspectionEnded == insp.pc \in {"refused", "published", "resolved"} /\ UNCHANGED bindingVars

BindingNext ==
    \/ LoadRequest \/ ValidateRequest \/ CaptureRoots \/ ValidatePublicationPath
    \/ LoadConfig \/ ReadConfig \/ ConfigRead \/ SelectCell
    \/ ValidateScope \/ ValidateEndpoint \/ ValidateModelPath \/ SelectCommand
    \/ BeginTree \/ Observe \/ OpenFile \/ ReadChunk \/ AfterHash \/ AfterFile
    \/ EnterDirectory \/ LeaveDirectory \/ BeginRecheck \/ RecheckFile \/ EndTree
    \/ Conclude \/ ResolveLaunch \/ PublishBundle \/ ResolvedLaunch
    \/ WriteFile \/ AddName \/ RemoveName \/ ReplaceRoot \/ InspectionEnded

BindingSpec == BindingInit /\ [][BindingNext]_bindingVars

-----------------------------------------------------------------------------
(* Properties *)

\* Every identity of a tree is of contents that its files really had together:
\* there was a moment, while it was hashed, at which each listed name led to a
\* file with exactly the listed bytes.  Nothing is locked, so this rests on the
\* stat around every read and on the second look at each file after the walk.
\* (A name added below a directory already walked is not covered.)
IdentityHeldTogether ==
    \A t \in insp.trees : \E m \in t.at :
       \A e \in t.entries : e.path \in DOMAIN m /\ m[e.path] = e.data

\* A resolved launch runs the plan whose files were verified, and that plan is
\* a configuration that was on the disk, not parts of two.
LaunchIsInspected ==
    launch # <<>> => /\ insp.status = "verified"
                     /\ launch = insp.plan
                     /\ launch[1] = launch[2]

\* What the inspection of a binding promises of the files it hashed and the launch it gives.
BindingSafe == IdentityHeldTogether /\ LaunchIsInspected
=============================================================================
