---------------------------- MODULE ServerRegistry ----------------------------
(***************************************************************************)
(* The server process and the repositories it serves: reading the          *)
(* configuration, opening and registering each repository, routing a       *)
(* request to one by the first segment of its path, the management API,    *)
(* and the command-line tools that open the same directories.              *)
(*                                                                         *)
(* An open repository is a directory and the current_rev it read from it:  *)
(* two of them on one directory do not see each other's commits.  A commit *)
(* is one step here; SqliteRepository takes it apart.                      *)
(***************************************************************************)
EXTENDS Integers, FiniteSets

CONSTANTS
    Name,          \* names a configuration may give to repositories
    Unknown,       \* a first path segment that is nobody's name, such as "!svn"
    Dir, NoDir,
    RepoRoot,      \* --repo-root
    Single,        \* SQLITE_REPO
    NoSlot, NoRepo, NoCommit,
    MaxRev,        \* bound: revisions of a directory
    MaxCommits,    \* bound: commits made
    MaxWaiting     \* bound: MERGEs, and creations, under way at a time

ASSUME RegistryAssumption ==
    /\ Unknown \notin Name /\ Single \notin Name /\ NoSlot \notin Name \cup {Single}
    /\ RepoRoot \in Dir /\ NoDir \notin Dir
    /\ MaxRev \in Nat /\ MaxCommits \in Nat /\ MaxWaiting \in Nat

VARIABLES
    config,    \* the configuration file
    head,      \* refs/head of each directory, NoHead before initialize()
    revs,      \* commits/N.bin of each directory
    pc,        \* the server: "down", "opening", "initialising" or "up"
    serving,   \* the configuration it was started with
    todo,      \* repositories the loop of this phase has still to reach
    served,    \* REPOSITORY_REGISTRY: the names registered
    repo,      \* the open repositories: of each name, and SQLITE_REPO
    waiting,   \* MERGEs that have their repository and wait for COMMIT_LOCK
    creating,  \* POST /svn/_api/repos between the two halves of initialize()
    tool,      \* the repository a command-line tool has open
    made,      \* number of commits made, which tells them apart
    alone      \* history variable: no directory was ever opened for two uses

server == <<pc, serving, todo, served, repo, waiting, creating>>
disk == <<head, revs>>
vars == <<config, disk, server, tool, made, alone>>

NoHead == -1
Slot == Name \cup {Single}
Config == [multi_repo : BOOLEAN, repositories : [Name -> Dir \cup {NoDir}]]
Repo == [dir : Dir, rev : 0..MaxRev]
Commit == [id : 1..MaxCommits, want : Dir \cup {NoDir}]

TypeOK ==
    /\ config \in Config
    /\ head \in [Dir -> NoHead..MaxRev]
    /\ revs \in [Dir -> [1..MaxRev -> Commit \cup {NoCommit}]]
    /\ pc \in {"down", "opening", "initialising", "up"}
    /\ serving \in Config
    /\ todo \subseteq Slot
    /\ served \subseteq Name
    /\ repo \in [Slot -> Repo \cup {NoRepo}]
    /\ waiting \subseteq [slot : Slot, want : Dir \cup {NoDir}]
    /\ creating \subseteq [name : Name, dir : Dir, fresh : BOOLEAN]
    /\ tool \in Repo \cup {NoRepo}
    /\ made \in 0..MaxCommits
    /\ alone \in BOOLEAN

Configured(c) == {n \in Name : c.repositories[n] # NoDir}
MultiRepo(c) == c.multi_repo /\ Configured(c) # {}
Slots(c) == IF MultiRepo(c) THEN Configured(c) ELSE {Single}
DirOf(c, s) == IF s = Single THEN RepoRoot ELSE c.repositories[s]
OneUseEach(c) == \A s, t \in Slots(c) : DirOf(c, s) = DirOf(c, t) => s = t

Down ==
    /\ pc' = "down"
    /\ todo' = {}
    /\ served' = {}
    /\ repo' = [s \in Slot |-> NoRepo]
    /\ waiting' = {}
    /\ creating' = {}

Init ==
    /\ config \in Config
    /\ head = [d \in Dir |-> NoHead]
    /\ revs = [d \in Dir |-> [r \in 1..MaxRev |-> NoCommit]]
    /\ pc = "down"
    /\ serving = config
    /\ todo = {}
    /\ served = {}
    /\ repo = [s \in Slot |-> NoRepo]
    /\ waiting = {}
    /\ creating = {}
    /\ tool = NoRepo
    /\ made = 0
    /\ alone = TRUE

\* the number of the last revision, as open() and initialize() read refs/head
ReadHead(d) == IF head[d] = NoHead THEN 0 ELSE head[d]

-----------------------------------------------------------------------------
\* The administrator writes the configuration.  The server reads it only when it
\* starts, so an edit while it runs is the same as one just before the next start.
Configure(c) ==
    /\ pc = "down"
    /\ config' = c
    /\ UNCHANGED <<disk, server, tool, made, alone>>

Start ==
    /\ pc = "down"
    /\ pc' = "opening"
    /\ serving' = config
    /\ todo' = Slots(config)
    /\ alone' = (alone /\ tool = NoRepo /\ OneUseEach(config))
    /\ UNCHANGED <<config, disk, served, repo, waiting, creating, tool, made>>

\* SqliteRepository::open, and register under its name; nobody else has the name
Open(s) ==
    /\ pc = "opening" /\ s \in todo
    /\ repo' = [repo EXCEPT ![s] = [dir |-> DirOf(serving, s), rev |-> ReadHead(DirOf(serving, s))]]
    /\ served' = served \cup ({s} \cap Name)
    /\ todo' = todo \ {s}
    /\ UNCHANGED <<config, disk, pc, serving, waiting, creating, tool, made, alone>>

\* the registry, or SQLITE_REPO, is set once and for all
Opened ==
    /\ pc = "opening" /\ todo = {}
    /\ pc' = "initialising"
    /\ todo' = Slots(serving)
    /\ UNCHANGED <<config, disk, serving, served, repo, waiting, creating, tool, made, alone>>

\* initialize(): a directory without refs/head gets revision 0
Initialize(s) ==
    /\ pc = "initialising" /\ s \in todo
    /\ repo' = [repo EXCEPT ![s].rev = ReadHead(repo[s].dir)]
    /\ head' = [head EXCEPT ![repo[s].dir] = ReadHead(repo[s].dir)]
    /\ todo' = todo \ {s}
    /\ UNCHANGED <<config, revs, pc, serving, served, waiting, creating, tool, made, alone>>

Listen ==
    /\ pc = "initialising" /\ todo = {}
    /\ pc' = "up"
    /\ UNCHANGED <<config, disk, serving, todo, served, repo, waiting, creating, tool, made, alone>>

\* An error of any step of the start, a signal or a crash: the process is gone.
Stop ==
    /\ pc # "down"
    /\ Down
    /\ UNCHANGED <<config, disk, serving, tool, made, alone>>

-----------------------------------------------------------------------------
\* get_repo_by_path.  NoSlot: get_repo() panics, SQLITE_REPO was never set.
Route(n) ==
    IF ~MultiRepo(serving) THEN Single
    ELSE IF n \in served THEN n
    ELSE IF \E m \in Name : served = {m} THEN CHOOSE m \in Name : served = {m}
    ELSE NoSlot

\* Where a request under n belongs: what the configuration says, or the only
\* repository there is; nowhere (NoDir) under a wrong name among several.
Want(n) ==
    IF ~MultiRepo(serving) THEN RepoRoot
    ELSE IF n \in Configured(serving) THEN serving.repositories[n]
    ELSE IF \E m \in Name : Configured(serving) = {m}
         THEN serving.repositories[CHOOSE m \in Name : Configured(serving) = {m}]
    ELSE NoDir

\* merge_handler up to COMMIT_LOCK; a request that panics has no effect
Merge(n) ==
    /\ pc = "up" /\ Route(n) # NoSlot
    /\ Cardinality(waiting) < MaxWaiting
    /\ waiting' = waiting \cup {[slot |-> Route(n), want |-> Want(n)]}
    /\ UNCHANGED <<config, disk, pc, serving, todo, served, repo, creating, tool, made, alone>>

\* the files of a commit by the open repository r: its next revision, and refs/head
Store(r, want) ==
    /\ r.rev < MaxRev /\ made < MaxCommits
    /\ revs' = [revs EXCEPT ![r.dir] = [@ EXCEPT ![r.rev + 1] = [id |-> made + 1, want |-> want]]]
    /\ head' = [head EXCEPT ![r.dir] = r.rev + 1]
    /\ made' = made + 1

\* the rest of merge_handler, under COMMIT_LOCK
CommitMerge(w) ==
    /\ pc = "up" /\ w \in waiting
    /\ Store(repo[w.slot], w.want)
    /\ repo' = [repo EXCEPT ![w.slot].rev = @ + 1]
    /\ waiting' = waiting \ {w}
    /\ UNCHANGED <<config, pc, serving, todo, served, creating, tool, alone>>

\* a dump posted to the server: get_repo_arc(), which panics in multi-repository mode
Load ==
    /\ pc = "up" /\ repo[Single] # NoRepo
    /\ Store(repo[Single], RepoRoot)
    /\ repo' = [repo EXCEPT ![Single].rev = @ + 1]
    /\ UNCHANGED <<config, pc, serving, todo, served, waiting, creating, tool, alone>>

-----------------------------------------------------------------------------
(***************************************************************************)
(* The management API.  handle() gives each call a clone of the registry,  *)
(* and drops the clone with what the call registered or unregistered.      *)
(***************************************************************************)
\* handle_create_repo up to the test for refs/head in initialize()
BeginCreate(n, d) ==
    /\ pc = "up" /\ n \notin served
    /\ Cardinality(creating) < MaxWaiting
    /\ creating' = creating \cup {[name |-> n, dir |-> d, fresh |-> head[d] = NoHead]}
    /\ UNCHANGED <<config, disk, pc, serving, todo, served, repo, waiting, tool, made, alone>>

\* Mutant: the new repository stays in the registry.
CreateRegisters(c) ==
    /\ c \in creating
    /\ head' = IF c.fresh THEN [head EXCEPT ![c.dir] = 0] ELSE head
    /\ creating' = creating \ {c}
    /\ served' = served \cup {c.name}
    /\ repo' = [repo EXCEPT ![c.name] = [dir |-> c.dir, rev |-> ReadHead(c.dir)]]
    /\ UNCHANGED <<config, revs, pc, serving, todo, waiting, tool, made, alone>>

\* initialize() writes revision 0; 201 Created
FinishCreate(c) ==
    /\ c \in creating
    /\ head' = IF c.fresh THEN [head EXCEPT ![c.dir] = 0] ELSE head
    /\ creating' = creating \ {c}
    /\ UNCHANGED <<config, revs, pc, serving, todo, served, repo, waiting, tool, made, alone>>

\* Mutant: the name leaves the registry.
DeleteUnregisters(n) ==
    /\ pc = "up" /\ n \in served
    /\ served' = served \ {n}
    /\ UNCHANGED <<config, disk, pc, serving, todo, repo, waiting, creating, tool, made, alone>>

\* handle_delete_repo: 204 No Content, and nothing has changed
DeleteRepo(n) ==
    /\ pc = "up" /\ n \in served
    /\ UNCHANGED vars

-----------------------------------------------------------------------------
(***************************************************************************)
(* The command-line tools: open() and initialize(), then commits.  Nothing *)
(* stops one from opening a directory the server has open.                 *)
(***************************************************************************)
ToolOpen(d) ==
    /\ tool = NoRepo
    /\ tool' = [dir |-> d, rev |-> ReadHead(d)]
    /\ head' = [head EXCEPT ![d] = ReadHead(d)]
    /\ alone' = (alone /\ pc = "down")
    /\ UNCHANGED <<config, revs, server, made>>

ToolCommit ==
    /\ tool # NoRepo
    /\ Store(tool, tool.dir)
    /\ tool' = [tool EXCEPT !.rev = @ + 1]
    /\ UNCHANGED <<config, server, alone>>

ToolClose ==
    /\ tool # NoRepo
    /\ tool' = NoRepo
    /\ UNCHANGED <<config, disk, server, made, alone>>

Next ==
    \/ \E c \in Config : Configure(c)
    \/ Start
    \/ \E s \in Slot : Open(s)
    \/ Opened
    \/ \E s \in Slot : Initialize(s)
    \/ Listen
    \/ Stop
    \/ \E n \in Name \cup {Unknown} : Merge(n)
    \/ \E w \in waiting : CommitMerge(w)
    \/ Load
    \/ \E n \in Name, d \in Dir : BeginCreate(n, d)
    \/ \E c \in creating : FinishCreate(c)
    \/ \E n \in Name : DeleteRepo(n)
    \/ \E d \in Dir : ToolOpen(d)
    \/ ToolCommit
    \/ ToolClose

Spec == Init /\ [][Next]_vars

-----------------------------------------------------------------------------
(***************************************************************************)
(* Properties.                                                             *)
(***************************************************************************)
\* Every commit is in the directory the configuration gives to the name it
\* was requested under: through the wait for COMMIT_LOCK, calls of the
\* management API, and restarts with another configuration.  Under a name
\* that is not configured only the single repository is ever committed to.
RoutedAsNamed ==
    \A d \in Dir, r \in 1..MaxRev : revs[d][r] # NoCommit => revs[d][r].want = d

\* no head goes back, and the revisions up to it stay as they are
Kept ==
    \A d \in Dir : head'[d] >= head[d] /\ \A r \in 1..head[d] : revs'[d][r] = revs[d][r]

\* While every directory is open for one use (no directory configured under
\* two names, no tool run beside the server), commits never overwrite a
\* published revision and refs/head never goes back, whatever the management
\* API is asked for: current_rev, read once, never is behind.
HistoryKept == [][alone' => Kept]_vars

\* Without the proviso, HistoryKept fails: a second repository on the directory
\* gives its commit a number that is taken.
HistoryKeptByAll == [][Kept]_vars
=============================================================================
